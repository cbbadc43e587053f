--------------------------- MODULE DistributedLock ---------------------------
(* src/cross-cutting/DistributedLock.ts: one key of Redis, locked by the     *)
(* instances of several processes, one owner in each.                        *)
(*                                                                           *)
(* The connection of a process is first-in first-out: a command is executed  *)
(* when it is sent, the answers come in that order, and each is followed by  *)
(* the rest of its operation up to the next command.                         *)
EXTENDS Naturals, Sequences

CONSTANTS Process, NoOwner, \* owner of the value of a free key
          MaxTokens,   \* bounds on the calls of acquire() in each
          MaxPending   \* bounds on the commands of each that wait for an answer

ASSUME ProcessAssumption ==
  NoOwner \notin Process /\ {MaxTokens, MaxPending} \subseteq [Process -> Nat]

VARIABLES value,    \* of lock:<key> in Redis: owner and token
          local,    \* locks.get(key) of each process
          fencingCounter,
          sent,     \* commands sent and their answers
          grants    \* the tokens that acquire() has returned in each process, in order

lockVars == <<value, local, fencingCounter, sent, grants>>

Free == [owner |-> NoOwner, token |-> 0]
NoRecord == [token |-> 0, past |-> FALSE]

LockInit ==
  /\ value = Free
  /\ local = [p \in Process |-> NoRecord]
  /\ fencingCounter = [p \in Process |-> 0]
  /\ sent = [p \in Process |-> <<>>]
  /\ grants = [p \in Process |-> <<>>]

-----------------------------------------------------------------------------
\* The commands of p that wait once op is sent as well; `data` is what a SET
\* writes or a GET has returned.
Issue(p, waiting, op, data) ==
  /\ Len(waiting) < MaxPending[p]
  /\ sent' = [sent EXCEPT ![p] =
                Append(waiting, [op |-> op, data |-> data, ans |-> value])]
  /\ value' = CASE op = "acquire" /\ value = Free -> data
                [] op = "rewrite" -> data
                [] op \in {"delete", "clean"} -> Free
                [] OTHER -> value

Returned(p, op) == sent[p] # <<>> /\ Head(sent[p]).op = op
Answer(p) == Head(sent[p]).ans
Ends(p) == sent' = [sent EXCEPT ![p] = Tail(@)] /\ UNCHANGED value
NextCommand(p, op) == Issue(p, Tail(sent[p]), op, Answer(p))

\* Mutant: the token is the fencingCounter's next value once the lock is acquired.
TokenAfterwards(p) ==
  /\ fencingCounter[p] < MaxTokens[p]
  /\ Issue(p, sent[p], "acquire", [owner |-> p, token |-> fencingCounter[p] + 1])
  /\ fencingCounter' = [fencingCounter EXCEPT ![p] = IF value = Free /\ sent[p] = <<>> THEN @ + 1 ELSE @]
  /\ UNCHANGED <<local, grants>>

AcquireLock(p) ==
  /\ fencingCounter[p] < MaxTokens[p]
  /\ fencingCounter' = [fencingCounter EXCEPT ![p] = @ + 1]
  /\ Issue(p, sent[p], "acquire", [owner |-> p, token |-> fencingCounter[p] + 1])
  /\ UNCHANGED <<local, grants>>

Acquired(p) ==
  /\ Returned(p, "acquire")
  /\ IF Answer(p) = Free
     THEN LET token == Head(sent[p]).data.token IN
          /\ local' = [local EXCEPT ![p] = [token |-> token, past |-> FALSE]]
          /\ grants' = [grants EXCEPT ![p] = Append(@, token)]
     ELSE UNCHANGED <<local, grants>>
  /\ Ends(p)
  /\ UNCHANGED fencingCounter

\* release() and extend(): a GET, and if p is the owner a DEL or a SET.
ReleaseLock(p) == Issue(p, sent[p], "mine", Free) /\ UNCHANGED <<local, fencingCounter, grants>>
Extend(p) == Issue(p, sent[p], "still mine", Free) /\ UNCHANGED <<local, fencingCounter, grants>>

OwnerKnown(p, question, command) ==
  /\ Returned(p, question)
  /\ IF Answer(p).owner = p THEN NextCommand(p, command) ELSE Ends(p)
  /\ UNCHANGED <<local, fencingCounter, grants>>

LockReleased(p) ==
  /\ Returned(p, "delete")
  /\ local' = [local EXCEPT ![p] = NoRecord]
  /\ Ends(p)
  /\ UNCHANGED <<fencingCounter, grants>>

LockExtended(p) ==
  /\ Returned(p, "rewrite")
  /\ local' = [local EXCEPT ![p].past = FALSE]
  /\ Ends(p)
  /\ UNCHANGED <<fencingCounter, grants>>

CleanupExpired(p) ==
  /\ local[p].past
  /\ Issue(p, sent[p], "clean", Free)
  /\ UNCHANGED <<local, fencingCounter, grants>>

LockCleaned(p) ==
  /\ Returned(p, "clean")
  /\ local' = [local EXCEPT ![p] = NoRecord]
  /\ Ends(p)
  /\ UNCHANGED <<fencingCounter, grants>>

\* reset(), which its tests call between cases, with nothing under way.
Reset(p) ==
  /\ sent[p] = <<>>
  /\ local' = [local EXCEPT ![p] = NoRecord]
  /\ fencingCounter' = [fencingCounter EXCEPT ![p] = 0]
  /\ grants' = [grants EXCEPT ![p] = <<>>]
  /\ UNCHANGED <<value, sent>>

-----------------------------------------------------------------------------
ValueLapses == value # Free /\ value' = Free /\ UNCHANGED <<local, fencingCounter, sent, grants>>

RecordPasses(p) ==
  /\ local[p] # NoRecord /\ ~local[p].past
  /\ local' = [local EXCEPT ![p].past = TRUE]
  /\ UNCHANGED <<value, fencingCounter, sent, grants>>

LockNext ==
  \/ \E p \in Process :
       \/ AcquireLock(p) \/ Acquired(p) \/ ReleaseLock(p) \/ Extend(p)
       \/ OwnerKnown(p, "mine", "delete") \/ OwnerKnown(p, "still mine", "rewrite")
       \/ LockReleased(p) \/ LockExtended(p)
       \/ CleanupExpired(p) \/ LockCleaned(p) \/ Reset(p) \/ RecordPasses(p)
  \/ ValueLapses

-----------------------------------------------------------------------------
(* Properties                                                                *)

ValidatesToken(p, token) == local[p] # NoRecord /\ token >= local[p].token

LockTypeOK ==
  /\ value.owner = NoOwner <=> value.token = 0
  /\ value.owner \in Process => value.token \in 1..MaxTokens[value.owner]
  /\ \A p \in Process : /\ fencingCounter[p] \in 0..MaxTokens[p]
                        /\ local[p] \in [token : 0..MaxTokens[p], past : BOOLEAN]
                        /\ Len(sent[p]) <= MaxPending[p]

\* Once a process has been granted the lock again, the tokens of its earlier
\* grants are refused, in whatever order acquisitions, releases, extensions and
\* cleanups overlapped.
StaleTokensRefused ==
  \A p \in Process : \A k \in DOMAIN grants[p] :
    k < Len(grants[p]) => ~ValidatesToken(p, grants[p][k])
=============================================================================
