--------------------------- MODULE WorkCoordinator ---------------------------
(* src/distributed/WorkCoordinator.ts: work items in the memory of one       *)
(* process and a Redis lock for each, claimed and released on behalf of      *)
(* agents.                                                                   *)
(*                                                                           *)
(* The process has one connection: a command is executed when it is sent,    *)
(* the answers come in that order, and each is followed by the rest of the   *)
(* operation up to its next command.  A command that rejects ends its        *)
(* operation; it may have been executed or not.  A lock may lapse, and the   *)
(* time a claim was granted for may pass, at any moment: the clocks differ.  *)
EXTENDS Naturals, Sequences, FiniteSetsExt

CONSTANTS MaxItems,   \* bound on the items created
          Agent, NoAgent,
          Rejected,    \* the answer of a command that rejects
          MaxInFlight, \* bound on the commands that wait for an answer
          MaxRejected, \* bound on the commands that reject, while they matter
          ItemPriority \* of each item

Item == 1..MaxItems

ASSUME ItemAssumption == MaxItems \in Nat /\ ItemPriority \in [Item -> Nat]
ASSUME AgentAssumption == NoAgent \notin Agent /\ MaxInFlight \in Nat /\ MaxRejected \in Nat
ASSUME RejectedAssumption == Rejected \notin Agent \cup {NoAgent}

VARIABLES locks,    \* work:<id>:lock in Redis
          items,    \* workItems: status and assignedTo
          claimedUntil, \* of an item: "none", "ahead" or "past"
          untold,   \* items whose lock was taken by a claim that rejected
          pipe,     \* commands sent and their answers
          cleaning, \* the cleanup cycle: "off", "timer", "scan" or "failed"
          cleanup   \* whether the cycle is not cancelled

redisVars == <<locks, untold>>
workVars == <<redisVars, items, claimedUntil, pipe, cleaning, cleanup>>

Missing == [status |-> "missing", assignedTo |-> NoAgent]

CoordinatorInit ==
  /\ locks = [i \in Item |-> NoAgent]
  /\ items = [i \in Item |-> Missing]
  /\ claimedUntil = [i \in Item |-> "none"]
  /\ pipe = <<>> /\ untold = {}
  /\ cleaning = "off" /\ cleanup = FALSE

Exists(i) == items[i].status # "missing"

-----------------------------------------------------------------------------
(* Commands                                                                  *)

Command(op, i, a, rest) == [op |-> op, i |-> i, a |-> a, rest |-> rest, ans |-> locks[i]]

\* What a command does that is executed, whether or not its answer is told.
Executes(command, told) ==
  LET i == command.i
      takes == command.op = "claim" /\ locks[i] = NoAgent
      frees == command.op \in {"release", "abandon", "recover"} IN
  /\ locks' = CASE takes -> [locks EXCEPT ![i] = command.a]
                [] frees -> [locks EXCEPT ![i] = NoAgent]
                [] OTHER -> locks
  /\ untold' = CASE takes /\ ~told -> untold \cup {i}
                 [] frees -> untold \ {i}
                 [] OTHER -> untold

\* What is left to say of a command that rejects.
Failing(command) ==
  [op |-> IF command.op = "cleanup" THEN "cleanup" ELSE "other",
   i |-> command.i, a |-> NoAgent, rest |-> {}, ans |-> Rejected]

MayReject(waiting) ==
  Cardinality(untold) + Cardinality({k \in DOMAIN waiting : waiting[k].ans = Rejected}) < MaxRejected

\* A command is sent after those that wait.
Send(waiting, command) ==
  /\ Len(waiting) < MaxInFlight
  /\ \/ Executes(command, TRUE) /\ pipe' = Append(waiting, command)
     \/ /\ MayReject(waiting)
        /\ Executes(command, FALSE) \/ UNCHANGED redisVars
        /\ pipe' = Append(waiting, Failing(command))

Call(op, i, a) == Send(pipe, Command(op, i, a, {})) /\ UNCHANGED <<items, claimedUntil, cleaning, cleanup>>

Answered(op) == pipe # <<>> /\ Head(pipe).op = op /\ Head(pipe).ans # Rejected
Follow(op) == Send(Tail(pipe), [Command(op, Head(pipe).i, Head(pipe).a, {}) EXCEPT !.rest = Head(pipe).rest])
Done == pipe' = Tail(pipe) /\ UNCHANGED redisVars

\* work.status, assignedTo and claimedUntil of the item an answer is about.
Becomes(status, a, until) ==
  LET i == Head(pipe).i IN
  IF Exists(i)
  THEN /\ items' = [items EXCEPT ![i] = [status |-> status, assignedTo |-> a]]
       /\ claimedUntil' = [claimedUntil EXCEPT ![i] = until]
  ELSE UNCHANGED <<items, claimedUntil>>

-----------------------------------------------------------------------------
(* Operations                                                                *)

CreateWork ==
  /\ \E i \in Item : /\ ~Exists(i) /\ \A j \in 1..(i - 1) : Exists(j)
                     /\ items' = [items EXCEPT ![i].status = "available"]
  /\ UNCHANGED <<redisVars, claimedUntil, pipe, cleaning, cleanup>>

ClaimWork(i, a) == Exists(i) /\ Call("claim", i, a)

Available == {i \in Item : items[i].status = "available"}

\* The first of the available items of the highest priority.
ClaimNextWork(a) ==
  /\ Available # {}
  /\ ClaimWork(Min({i \in Available :
                      \A j \in Available : ItemPriority[j] <= ItemPriority[i]}), a)

ClaimAnswered ==
  /\ Answered("claim")
  /\ IF Head(pipe).ans = NoAgent
     THEN Becomes("in_progress", Head(pipe).a, "ahead") /\ Done
     ELSE Follow("holder") /\ UNCHANGED <<items, claimedUntil>>
  /\ UNCHANGED <<cleaning, cleanup>>

\* A holder that claims again has its lock extended.
HolderKnown ==
  /\ Answered("holder")
  /\ IF Head(pipe).ans = Head(pipe).a THEN Follow("renew") ELSE Done
  /\ UNCHANGED <<items, claimedUntil, cleaning, cleanup>>

Renewed ==
  /\ Answered("renew")
  /\ Done
  /\ UNCHANGED <<items, claimedUntil, cleaning, cleanup>>

ReleaseWork(i, a) == Exists(i) /\ Call("releaser", i, a)

ReleaserKnown ==
  /\ Answered("releaser")
  /\ IF Head(pipe).ans = Head(pipe).a THEN Follow("release") ELSE Done
  /\ UNCHANGED <<items, claimedUntil, cleaning, cleanup>>

\* Mutant: the item keeps its agent.
ReleasedKept ==
  /\ Answered("release")
  /\ \E status \in {"closed", "available"} : Becomes(status, Head(pipe).a, "none")
  /\ Done
  /\ UNCHANGED <<cleaning, cleanup>>

Released ==
  /\ Answered("release")
  /\ \E status \in {"closed", "available"} : Becomes(status, NoAgent, "none")
  /\ Done
  /\ UNCHANGED <<cleaning, cleanup>>

ExtendLock(i, a) == Exists(i) /\ Call("extender", i, a)

ExtenderKnown ==
  /\ Answered("extender")
  /\ IF Head(pipe).ans = Head(pipe).a THEN Follow("extend") ELSE Done
  /\ UNCHANGED <<items, claimedUntil, cleaning, cleanup>>

Extended ==
  /\ Answered("extend")
  /\ claimedUntil' = [claimedUntil EXCEPT ![Head(pipe).i] = IF @ = "none" THEN @ ELSE "ahead"]
  /\ Done
  /\ UNCHANGED <<items, cleaning, cleanup>>

AbandonWork(i) == Exists(i) /\ Call("abandon", i, NoAgent)

Abandoned ==
  /\ Answered("abandon")
  /\ Becomes("closed", NoAgent, "none")
  /\ Done
  /\ UNCHANGED <<cleaning, cleanup>>

-----------------------------------------------------------------------------
(* Recovery and cleanup: a command for each item that qualifies when it is   *)
(* reached, in the order of creation.                                        *)

HeldBy(a, among) == {i \in among : items[i] = [status |-> "in_progress", assignedTo |-> a]}
Overdue(among) ==
  {i \in among : items[i].status = "in_progress" /\ claimedUntil[i] = "past"}

\* The next command of a loop over the items in `among`.
Visit(waiting, op, a, qualify, among) ==
  Send(waiting, Command(op, Min(qualify), a, {j \in among : j > Min(qualify)}))

RecoverWorkFromDeadAgent(a) ==
  /\ HeldBy(a, Item) # {}
  /\ Visit(pipe, "recover", a, HeldBy(a, Item), Item)
  /\ UNCHANGED <<items, claimedUntil, cleaning, cleanup>>

Recovered ==
  /\ Answered("recover")
  /\ Becomes("available", NoAgent, "none")
  /\ LET more == HeldBy(Head(pipe).a, Head(pipe).rest) IN
     IF more = {} THEN Done
     ELSE Visit(Tail(pipe), "recover", Head(pipe).a, more, Head(pipe).rest)
  /\ UNCHANGED <<cleaning, cleanup>>

\* Mutant: a cycle that has found nothing to do is not scheduled again.
FirstCleanup ==
  /\ cleaning = "timer"
  /\ IF ~cleanup \/ Overdue(Item) = {}
     THEN cleaning' = "off" /\ UNCHANGED <<pipe, redisVars>>
     ELSE /\ cleaning' = "scan"
          /\ Visit(pipe, "cleanup", NoAgent, Overdue(Item), Overdue(Item))
  /\ UNCHANGED <<items, claimedUntil, cleanup>>

\* The cleanup timer fires: cleanupExpiredLocks().
CleanupFires ==
  /\ cleaning = "timer"
  /\ IF ~cleanup THEN cleaning' = "off" /\ UNCHANGED <<pipe, redisVars>>
     ELSE IF Overdue(Item) = {} THEN UNCHANGED <<cleaning, pipe, redisVars>>
     ELSE /\ cleaning' = "scan"
          /\ Visit(pipe, "cleanup", NoAgent, Overdue(Item), Overdue(Item))
  /\ UNCHANGED <<items, claimedUntil, cleanup>>

ScanGoesOn ==
  LET more == Overdue(Head(pipe).rest) IN
  IF more # {} THEN /\ Visit(Tail(pipe), "cleanup", NoAgent, more, Head(pipe).rest)
                    /\ UNCHANGED cleaning
  ELSE Done /\ cleaning' = IF cleanup THEN "timer" ELSE "off"

\* Mutant: the claim is over, so the item is available.
CleanedUnseen ==
  /\ Answered("cleanup")
  /\ Becomes("available", NoAgent, "none")
  /\ ScanGoesOn
  /\ UNCHANGED cleanup

Cleaned ==
  /\ Answered("cleanup")
  /\ IF Head(pipe).ans = NoAgent THEN Becomes("available", NoAgent, "none")
     ELSE UNCHANGED <<items, claimedUntil>>
  /\ ScanGoesOn
  /\ UNCHANGED cleanup

\* startCleanup(), once the last cycle has ended, and stopCleanup(), which
\* shutdown() calls; that it makes createWork and claimWork throw until
\* initialize() is called is a choice of the application's here.
StartCleanup ==
  /\ cleaning \in {"off", "failed"}
  /\ cleaning' = "timer" /\ cleanup' = TRUE
  /\ UNCHANGED <<redisVars, items, claimedUntil, pipe>>

StopCleanup ==
  /\ cleanup
  /\ cleanup' = FALSE
  /\ UNCHANGED <<redisVars, items, claimedUntil, pipe, cleaning>>

\* The operation ends with the error, and with it the loop of a recovery, or
\* the cleanup cycle, which is not scheduled again.
OperationFails ==
  /\ pipe # <<>> /\ Head(pipe).ans = Rejected
  /\ cleaning' = IF Head(pipe).op = "cleanup" THEN "failed" ELSE cleaning
  /\ Done
  /\ UNCHANGED <<items, claimedUntil, cleanup>>

-----------------------------------------------------------------------------
LockLapses(i) ==
  /\ locks[i] # NoAgent
  /\ locks' = [locks EXCEPT ![i] = NoAgent]
  /\ untold' = untold \ {i}
  /\ UNCHANGED <<items, claimedUntil, pipe, cleaning, cleanup>>

ClaimPasses(i) ==
  /\ claimedUntil[i] = "ahead"
  /\ claimedUntil' = [claimedUntil EXCEPT ![i] = "past"]
  /\ UNCHANGED <<redisVars, items, pipe, cleaning, cleanup>>

WorkAnswers ==
  \/ ClaimAnswered \/ HolderKnown \/ Renewed \/ ReleaserKnown \/ Released
  \/ ExtenderKnown \/ Extended \/ Abandoned \/ Recovered \/ Cleaned \/ OperationFails

CoordinatorNext ==
  \/ CreateWork
  \/ \E i \in Item, a \in Agent : ClaimWork(i, a) \/ ReleaseWork(i, a) \/ ExtendLock(i, a)
  \/ \E a \in Agent : ClaimNextWork(a) \/ RecoverWorkFromDeadAgent(a)
  \/ \E i \in Item : AbandonWork(i) \/ LockLapses(i) \/ ClaimPasses(i)
  \/ WorkAnswers
  \/ CleanupFires \/ StartCleanup \/ StopCleanup

\* Redis answers, timers fire and time passes.
CoordinatorFairness ==
  /\ WF_workVars(WorkAnswers)
  /\ SF_workVars(CleanupFires)
  /\ \A i \in Item : WF_workVars(ClaimPasses(i))

-----------------------------------------------------------------------------
(* Properties                                                                *)

CoordinatorTypeOK ==
  /\ locks \in [Item -> Agent \cup {NoAgent}]
  /\ claimedUntil \in [Item -> {"none", "ahead", "past"}]
  /\ Len(pipe) <= MaxInFlight /\ untold \subseteq Item
  /\ cleaning \in {"off", "timer", "scan", "failed"} /\ cleanup \in BOOLEAN
  /\ \A i \in Item :
       /\ items[i].status \in {"missing", "available", "in_progress", "closed"}
       /\ items[i].assignedTo \in Agent \cup {NoAgent}
       /\ items[i].status # "in_progress" => items[i].assignedTo = NoAgent

\* Once every answer about an item is in, the item is in progress for the agent
\* that holds its lock, whatever claims, releases, recoveries and cleanups
\* overlapped and whichever of their commands rejected: work that is locked is
\* never offered again.  Only a lock taken by a claim that rejected says
\* nothing of its item, until it lapses or is deleted.
ItemFollowsLock ==
  \A i \in Item \ untold : locks[i] # NoAgent /\ (\A k \in DOMAIN pipe : pipe[k].i # i)
    => items[i] = [status |-> "in_progress", assignedTo |-> locks[i]]

\* Work whose lock has lapsed does not stay in progress while the cleanup cycle
\* runs, which neither stopCleanup() nor a command that rejected has ended: its
\* agent may have died.
LapsedWorkReturns ==
  \A i \in Item : []<>(items[i].status = "in_progress" => locks[i] # NoAgent)
                  \/ []<>(~cleanup \/ cleaning = "failed")
=============================================================================
