------------------------------ MODULE Persistence ------------------------------
(* State kept over restarts: the state manager's file, and session checkpoints. *)
EXTENDS Naturals, Sequences, FiniteSets, SequencesExt

-----------------------------------------------------------------------------
(* The agent's state and its JSON file (src/core/StateManager.ts). A persist()  *)
(* writes the state of the moment its directory exists; writing first empties   *)
(* the file. A load() replaces the state by what it read, whatever was set      *)
(* since. A state is known by the change that made it; keys, values, listeners  *)
(* and the memory backend, which does nothing, are left out.                    *)
CONSTANTS
  MaxStates,    \* bound: changes of the state (set, delete, clear, fromObject)
  MaxPersists,  \* bound: persist() calls
  MaxReads,     \* bound: load() calls
  MaxDeaths     \* bound: ends of the process

ASSUME StateAssumption == {MaxStates, MaxPersists, MaxReads, MaxDeaths} \subseteq Nat

VARIABLES
  content,   \* state: the change that made it; 0 for the empty one of a new process
  changeNo,  \* history: changes so far
  file,      \* the file: whether there is one, it is whole, its state and writer
  persists,  \* persist() calls: what they await and the state they write
  reads,     \* load() calls: what they await and the file they have read
  deaths,    \* history: ends of the process so far
  mixed,     \* history: pairs of persist() calls that were writing at once
  overlaps    \* history: pairs that were under way at once

stateVars == <<content, changeNo, file, persists, reads, deaths, mixed, overlaps>>
Number0 == 0 .. MaxStates
File == [is : {"none", "whole", "torn"}, state : Number0, by : 0 .. MaxPersists]
PersistNo == 1 .. MaxPersists
NoRead == [is |-> "none", state |-> 0, by |-> 0]

StateInit ==
  /\ content = 0 /\ changeNo = 0 /\ file = NoRead /\ deaths = 0 /\ mixed = {} /\ overlaps = {}
  /\ persists = [p \in PersistNo |-> [at |-> "new", state |-> 0]]
  /\ reads = [r \in 1 .. MaxReads |-> [at |-> "new", read |-> NoRead]]

ChangeState ==
  /\ changeNo < MaxStates /\ changeNo' = changeNo + 1 /\ content' = changeNo + 1
  /\ UNCHANGED <<file, persists, reads, deaths, mixed, overlaps>>

Is(p, at) == persists[p].at = at
Goes(p, at) == persists' = [persists EXCEPT ![p].at = at]
Waits == {"mkdir", "open", "write"}
Persist(p) ==
  /\ Is(p, "new") /\ (\A o \in 1 .. p - 1 : ~Is(o, "new")) /\ Goes(p, "mkdir")
  /\ overlaps' = overlaps \cup {<<o, p>> : o \in {o \in PersistNo : persists[o].at \in Waits}}
  /\ UNCHANGED <<content, changeNo, file, reads, deaths, mixed>>
DirectoryMade(p) ==
  /\ Is(p, "mkdir") /\ persists' = [persists EXCEPT ![p] = [at |-> "open", state |-> content]]
  /\ UNCHANGED <<content, changeNo, file, reads, deaths, mixed, overlaps>>
\* writeFile, outside the process's own thread: it empties the file, then fills it.
FileOpened(p) ==
  /\ Is(p, "open") /\ Goes(p, "write") /\ file' = [is |-> "torn", state |-> 0, by |-> p]
  /\ mixed' = mixed \cup {<<o, p>> : o \in {o \in PersistNo : Is(o, "write")}}
  /\ UNCHANGED <<content, changeNo, reads, deaths, overlaps>>
Writing == {o \in PersistNo : \E p \in PersistNo : <<o, p>> \in mixed \/ <<p, o>> \in mixed}
FileWritten(p) ==
  /\ Is(p, "write") /\ Goes(p, "done")
  /\ \/ file' = [is |-> "whole", state |-> persists[p].state, by |-> p]
     \/ p \in Writing /\ file' = [is |-> "torn", state |-> 0, by |-> p]
  /\ UNCHANGED <<content, changeNo, reads, deaths, mixed, overlaps>>
\* mkdir or writeFile fails, the latter with the file opened or not.
PersistFails(p) ==
  /\ persists[p].at \in Waits /\ Goes(p, IF Is(p, "write") THEN "cut" ELSE "failed")
  /\ UNCHANGED <<content, changeNo, file, reads, deaths, mixed, overlaps>>

Load(r) ==
  /\ reads[r].at = "new" /\ reads' = [reads EXCEPT ![r].at = "read"]
  /\ UNCHANGED <<content, changeNo, file, persists, deaths, mixed, overlaps>>
FileRead(r) ==
  /\ reads[r].at = "read" /\ reads' = [reads EXCEPT ![r] = [at |-> "parse", read |-> file]]
  /\ UNCHANGED <<content, changeNo, file, persists, deaths, mixed, overlaps>>
\* Without a file nothing changes; one that cannot be parsed makes load() throw.
Loaded(r) ==
  /\ reads[r].at = "parse" /\ reads' = [reads EXCEPT ![r].at = "over"]
  /\ content' = IF reads[r].read.is = "whole" THEN reads[r].read.state ELSE content
  /\ UNCHANGED <<changeNo, file, persists, deaths, mixed, overlaps>>

\* The process ends; the next one begins with an empty state and the file as it is.
ProcessEnds ==
  /\ deaths < MaxDeaths /\ deaths' = deaths + 1 /\ content' = 0
  /\ persists' = [p \in PersistNo |->
       CASE Is(p, "write") -> [persists[p] EXCEPT !.at = "cut"]
         [] persists[p].at \in {"mkdir", "open"} -> [persists[p] EXCEPT !.at = "failed"]
         [] OTHER -> persists[p]]
  /\ reads' = [r \in DOMAIN reads |-> IF reads[r].at \in {"read", "parse"} THEN [reads[r] EXCEPT !.at = "over"] ELSE reads[r]]
  /\ UNCHANGED <<changeNo, file, mixed, overlaps>>

StateNext ==
  \/ ChangeState \/ ProcessEnds
  \/ \E p \in PersistNo : Persist(p) \/ DirectoryMade(p) \/ FileOpened(p) \/ FileWritten(p) \/ PersistFails(p)
  \/ \E r \in DOMAIN reads : Load(r) \/ FileRead(r) \/ Loaded(r)

StateTypeOK ==
  /\ {content, changeNo} \subseteq Number0 /\ file \in File /\ deaths \in 0 .. MaxDeaths
  /\ persists \in [PersistNo -> [at : {"new", "mkdir", "open", "write", "done", "failed", "cut"}, state : Number0]]
  /\ reads \in [1 .. MaxReads -> [at : {"new", "read", "parse", "over"}, read : File]]
  /\ mixed \cup overlaps \subseteq PersistNo \X PersistNo

(* Once a persist() has returned, the file holds its state or that of a later *)
(* call, but for calls that overlaps it; and it can be read, unless its writer *)
(* is at it, was cut off or wrote beside another one.                         *)
PersistedIsKept ==
  /\ \A p \in PersistNo : Is(p, "done") => file.by >= p \/ <<file.by, p>> \in overlaps
  /\ file.is = "torn" => persists[file.by].at \in {"write", "cut"} \/ file.by \in Writing

-----------------------------------------------------------------------------
(* Checkpoints of an agent (src/cross-cutting/SessionCheckpoint.ts), kept in    *)
(* memory and written to Redis under their version and then as the latest. The  *)
(* process may crash between the two; the next one counts versions from 1       *)
(* again. What a checkpoint holds, and the logs of saves and restores, are left *)
(* out.                                                                         *)
CONSTANTS
  MaxCheckpoints,  \* maxCheckpoints
  MaxSaves,        \* bound: calls of save()
  MaxLives         \* bound: crashes and calls of clear()

ASSUME CheckpointAssumption == MaxCheckpoints \in Nat \ {0} /\ {MaxSaves, MaxLives} \subseteq Nat

VARIABLES
  saved,        \* history: checkpoints in the order of their save(), of all processes
  checkpoints,  \* checkpoints: their numbers in saved
  version,      \* currentVersion
  latest,       \* in Redis: the latest; 0 for none
  versioned,    \* in Redis: the checkpoint of each version; 0 for none
  writing,      \* save() calls that await Redis, and commands of a crashed process
  life,         \* history: crashes and clear() calls so far, and the saves before
  taken,        \* history: checkpoints both writes of which succeeded
  together      \* history: pairs of saves that were under way at once

checkpointVars == <<saved, checkpoints, version, latest, versioned, writing, life, taken, together>>
Number == 1 .. MaxSaves

CheckpointInit ==
  /\ saved = <<>> /\ checkpoints = <<>> /\ version = 0
  /\ latest = 0 /\ versioned = [v \in Number |-> 0] /\ writing = {}
  /\ life = [ends |-> 0, before |-> 0] /\ taken = {} /\ together = {}

Kept(list) == IF Len(list) > MaxCheckpoints THEN Tail(list) ELSE list
Save(transient) ==
  LET n == Len(saved) + 1 IN
  /\ n <= MaxSaves /\ version' = version + 1
  /\ saved' = Append(saved, [version |-> version', transient |-> transient])
  /\ checkpoints' = Kept(Append(checkpoints, n))
  /\ writing' = writing \cup {[save |-> n, at |-> "version", alive |-> TRUE]}
  /\ together' = together \cup {<<w.save, n>> : w \in writing}
  /\ UNCHANGED <<latest, versioned, life, taken>>

Stored(w) ==
  IF w.at = "latest" THEN latest' = w.save /\ UNCHANGED versioned
  ELSE versioned' = [versioned EXCEPT ![saved[w.save].version] = w.save] /\ UNCHANGED latest

\* A crashed process never sends the second command.
WriteDone(w) ==
  /\ w \in writing /\ Stored(w)
  /\ writing' = (writing \ {w}) \cup (IF w.alive /\ w.at = "version" THEN {[w EXCEPT !.at = "latest"]} ELSE {})
  /\ taken' = IF w.alive /\ w.at = "latest" THEN taken \cup {w.save} ELSE taken
  /\ UNCHANGED <<saved, checkpoints, version, life, together>>

\* The error is swallowed; Redis may have taken the command all the same.
WriteFails(w) ==
  /\ w \in writing /\ writing' = writing \ {w}
  /\ Stored(w) \/ UNCHANGED <<latest, versioned>>
  /\ UNCHANGED <<saved, checkpoints, version, life, taken, together>>

StartsOver ==
  /\ life.ends < MaxLives /\ life' = [ends |-> life.ends + 1, before |-> Len(saved)]
  /\ checkpoints' = <<>> /\ version' = 0
  /\ UNCHANGED <<saved, latest, versioned, taken, together>>
ClearCheckpoints == StartsOver /\ UNCHANGED writing
ProcessCrashes == StartsOver /\ writing' = {[w EXCEPT !.alive = FALSE] : w \in writing}

CheckpointNext ==
  \/ ClearCheckpoints \/ ProcessCrashes
  \/ \E transient \in BOOLEAN : Save(transient)
  \/ \E w \in writing : WriteDone(w) \/ WriteFails(w)

\* What restore() finds without Redis: the last one that is not transient, if any.
Restored ==
  LET durable == SelectLastInSeq(checkpoints, LAMBDA n : ~saved[n].transient) IN
  IF checkpoints = <<>> THEN 0 ELSE checkpoints[IF durable = 0 THEN Len(checkpoints) ELSE durable]

CheckpointTypeOK ==
  /\ saved \in BoundedSeq([version : Number, transient : BOOLEAN], MaxSaves)
  /\ checkpoints \in BoundedSeq(Number, MaxCheckpoints) /\ version \in 0 .. MaxSaves
  /\ latest \in 0 .. MaxSaves /\ versioned \in [Number -> 0 .. MaxSaves]
  /\ writing \subseteq [save : Number, at : {"version", "latest"}, alive : BOOLEAN]
  /\ life \in [ends : 0 .. MaxLives, before : 0 .. MaxSaves]
  /\ taken \subseteq Number /\ together \subseteq Number \X Number

(* A checkpoint that was taken is found afterwards, or a later one: under its  *)
(* version and as the latest, by this process and by the one after a crash,    *)
(* unless its save() crossed another one whose commands came last. In memory   *)
(* one that is not transient is found until as many others followed as fit.    *)
TakenIsFound ==
  /\ \A n \in taken : latest >= n \/ <<latest, n>> \in together
  /\ \A n \in taken : LET found == versioned[saved[n].version] IN found >= n \/ <<found, n>> \in together
  /\ \A n \in life.before + 1 .. Len(saved) :
       saved[n].transient \/ Restored >= n \/ Len(saved) >= n + MaxCheckpoints
=============================================================================
