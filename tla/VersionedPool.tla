---------------------------- MODULE VersionedPool ----------------------------
(* The worker pool with versions (src/cross-cutting/WorkerPoolManager.ts):     *)
(* processNext() calls under way at once, pausing one worker or all of them,   *)
(* rolling updates that await between workers, retries and dead letters.       *)
(* processAll() is processNext() again and again. Events and counts are left   *)
(* out, and so are the version numbers, which nothing reads.                   *)
EXTENDS Naturals, Sequences, FiniteSets, SequencesExt

CONSTANTS
  Job,         \* tasks
  Urgency,     \* their priorities
  MaxStaff,    \* bound: workers
  MaxTries,    \* maxRetries
  EnableDLQ,   \* enableDLQ
  MaxOrders    \* bound: updates, replays and resets

ASSUME PoolAssumption ==
  /\ IsFiniteSet(Job) /\ Urgency \in [Job -> Nat]
  /\ MaxTries \in Nat \ {0} /\ {MaxStaff, MaxOrders} \subseteq Nat

VARIABLES
  staff,       \* the workers' status in the order they were added
  backlog,     \* queue
  letters,     \* dlq
  tries,       \* retries of each task
  handled,     \* calls of processNext() under way: task and worker, 0 when reset() dropped it
  ended,       \* completed and failed tasks
  allPaused,   \* paused
  rolling,     \* rollingUpdate(): the worker it awaits onUpdate for (0: none), the next one
  orders,      \* updates, replays and resets so far
  dropped,     \* history: tasks reset() took from the queue or the dead letters
  doubled,     \* history: workers that worked when they were last resumed
  pauses       \* history: how often a worker was paused since it was added or resumed

poolVars == <<staff, backlog, letters, tries, handled, ended, allPaused, rolling, orders, dropped, doubled, pauses>>
taskVars == <<backlog, letters, tries, handled, ended, dropped>>

Member0 == DOMAIN staff
\* By priority; tasks of the same priority keep their order.
Before(s, i, k) == Urgency[s[i]] > Urgency[s[k]] \/ (Urgency[s[i]] = Urgency[s[k]] /\ i <= k)
Place(s, k) == Cardinality({i \in DOMAIN s : Before(s, i, k)})
Sorted(s) == [n \in DOMAIN s |-> s[CHOOSE k \in DOMAIN s : Place(s, k) = n]]
AtWork(w) == {c \in handled : c.worker = w}
Seen == ToSet(backlog) \cup ToSet(letters) \cup ended \cup dropped \cup {c.task : c \in handled}

PoolInit ==
  /\ staff = <<>> /\ backlog = <<>> /\ letters = <<>> /\ tries = [j \in Job |-> 0]
  /\ handled = {} /\ ended = {} /\ allPaused = FALSE /\ rolling = [at |-> 0, next |-> 1]
  /\ orders = 0 /\ dropped = {} /\ doubled = {} /\ pauses = <<>>

AddWorkers ==
  /\ Len(staff) < MaxStaff
  /\ staff' = Append(staff, "idle") /\ pauses' = Append(pauses, 0)
  /\ UNCHANGED <<taskVars, allPaused, rolling, orders, doubled>>

PoolSubmit(j) ==
  /\ j \notin Seen
  /\ backlog' = Sorted(Append(backlog, j))
  /\ UNCHANGED <<staff, letters, tries, handled, ended, allPaused, rolling, orders, dropped, doubled, pauses>>

GetIdleWorker == SelectInSeq(staff, LAMBDA s : s = "idle")
ProcessNext ==
  /\ ~allPaused /\ backlog # <<>> /\ GetIdleWorker # 0
  /\ handled' = handled \cup {[task |-> Head(backlog), worker |-> GetIdleWorker]}
  /\ backlog' = Tail(backlog)
  /\ staff' = [staff EXCEPT ![GetIdleWorker] = "working"]
  /\ UNCHANGED <<letters, tries, ended, allPaused, rolling, orders, dropped, doubled, pauses>>

\* Mutant: a worker that was asked to stop after its task is idle again.
FreedAlways(status) == "idle"
Freed(status) == IF status = "draining" THEN "stopped" ELSE "idle"
Frees(c) ==
  /\ handled' = handled \ {c}
  /\ staff' = [w \in Member0 |-> IF w = c.worker THEN Freed(staff[w]) ELSE staff[w]]

TaskCompletes(c) ==
  /\ c \in handled /\ Frees(c)
  /\ ended' = ended \cup {c.task}
  /\ UNCHANGED <<backlog, letters, tries, allPaused, rolling, orders, dropped, doubled, pauses>>

\* Mutant: it is tried once more.
RetriesOnceMore(n) == n <= MaxTries
Retries(n) == n < MaxTries
\* A failed task of a pool that was reset joins the new queue.
TaskFails(c) ==
  /\ c \in handled /\ Frees(c)
  /\ tries' = [tries EXCEPT ![c.task] = @ + 1]
  /\ IF Retries(tries'[c.task])
     THEN backlog' = Sorted(Append(backlog, c.task)) /\ UNCHANGED <<letters, ended>>
     ELSE IF EnableDLQ THEN letters' = Append(letters, c.task) /\ UNCHANGED <<backlog, ended>>
     ELSE ended' = ended \cup {c.task} /\ UNCHANGED <<backlog, letters>>
  /\ UNCHANGED <<allPaused, rolling, orders, dropped, doubled, pauses>>

PoolPauses == allPaused' = ~allPaused /\ UNCHANGED <<staff, taskVars, rolling, orders, doubled, pauses>>

PausedStatus(status) == IF status = "working" THEN "draining" ELSE "paused"
PauseWorker(w) ==
  /\ staff' = [staff EXCEPT ![w] = PausedStatus(@)]
  /\ pauses' = [pauses EXCEPT ![w] = IF @ < 2 THEN @ + 1 ELSE @]

PauseOne(w) == PauseWorker(w) /\ UNCHANGED <<taskVars, allPaused, rolling, orders, doubled>>

\* resumeWorker() asks no questions: a worker that still works is idle, too.
Resumed(w) == [v \in Member0 |-> IF v = w THEN "idle" ELSE staff[v]]
Unpaused(w) == [v \in Member0 |-> IF v = w THEN 0 ELSE pauses[v]]
NowDoubled(w) == IF w \in Member0 /\ AtWork(w) # {} THEN doubled \cup {w} ELSE doubled \ {w}
ResumeOne(w) ==
  /\ staff' = Resumed(w) /\ pauses' = Unpaused(w) /\ doubled' = NowDoubled(w)
  /\ UNCHANGED <<taskVars, allPaused, rolling, orders>>

\* rollingUpdate(): a working worker is marked draining and then, because it no
\* longer is working, paused. Counted as the two pauses it is.
Renewed(from, counts, w) ==
  IF w \in DOMAIN from
  THEN /\ staff' = [from EXCEPT ![w] = "paused"]
       /\ pauses' = [counts EXCEPT ![w] = IF from[w] = "working" THEN 2 ELSE IF @ < 2 THEN @ + 1 ELSE @]
       /\ rolling' = [at |-> w, next |-> w + 1]
  ELSE staff' = from /\ pauses' = counts /\ rolling' = [at |-> 0, next |-> 1]

RollingUpdate ==
  /\ rolling.at = 0 /\ staff # <<>> /\ orders < MaxOrders /\ orders' = orders + 1
  /\ Renewed(staff, pauses, 1)
  /\ UNCHANGED <<taskVars, allPaused, doubled>>
OnUpdateDone ==
  /\ rolling.at # 0
  /\ doubled' = NowDoubled(rolling.at)
  /\ Renewed(Resumed(rolling.at), Unpaused(rolling.at), rolling.next)
  /\ UNCHANGED <<taskVars, allPaused, orders>>
\* onUpdate rejects: its worker stays paused, the others keep their version.
OnUpdateFails ==
  /\ rolling.at # 0 /\ rolling' = [at |-> 0, next |-> 1]
  /\ UNCHANGED <<staff, taskVars, allPaused, orders, doubled, pauses>>

ReplayDLQ ==
  /\ letters # <<>> /\ orders < MaxOrders /\ orders' = orders + 1
  /\ backlog' = Sorted(backlog \o letters) /\ letters' = <<>>
  /\ tries' = [j \in Job |-> IF j \in ToSet(letters) THEN 0 ELSE tries[j]]
  /\ UNCHANGED <<staff, handled, ended, allPaused, rolling, dropped, doubled, pauses>>

PoolReset ==
  /\ orders < MaxOrders /\ orders' = orders + 1
  /\ staff' = <<>> /\ pauses' = <<>> /\ backlog' = <<>> /\ letters' = <<>> /\ allPaused' = FALSE
  /\ dropped' = dropped \cup ToSet(backlog) \cup ToSet(letters)
  /\ handled' = {[c EXCEPT !.worker = 0] : c \in handled}
  /\ rolling' = [rolling EXCEPT !.next = 1] /\ doubled' = {}
  /\ UNCHANGED <<tries, ended>>

PoolNext ==
  \/ AddWorkers \/ ProcessNext \/ PoolPauses \/ RollingUpdate \/ OnUpdateDone \/ OnUpdateFails
  \/ ReplayDLQ \/ PoolReset
  \/ \E j \in Job : PoolSubmit(j)
  \/ \E c \in handled : TaskCompletes(c) \/ TaskFails(c)
  \/ \E w \in Member0 : PauseOne(w) \/ ResumeOne(w)

PoolTypeOK ==
  /\ staff \in BoundedSeq({"idle", "working", "paused", "stopped", "draining"}, MaxStaff)
  /\ pauses \in [Member0 -> 0 .. 2] /\ doubled \subseteq Member0
  /\ {backlog, letters} \subseteq BoundedSeq(Job, Cardinality(Job)) /\ ended \cup dropped \subseteq Job
  /\ handled \subseteq [task : Job, worker : 0 .. MaxStaff] /\ tries \in [Job -> 0 .. MaxTries]
  /\ rolling \in [at : 0 .. MaxStaff, next : 1 .. MaxStaff + 1] /\ orders \in 0 .. MaxOrders

(* Between retries, replays and resets of calls under way a task is neither   *)
(* lost nor doubled: it is in the queue, with a worker, among the dead        *)
(* letters, ended, or dropped by a reset.                                     *)
Times(s, j) == Cardinality({i \in DOMAIN s : s[i] = j})
EachTaskOnce ==
  \A j \in Seen : Times(backlog, j) + Times(letters, j) + Cardinality({c \in handled : c.task = j})
                  + (IF j \in ended \cup dropped THEN 1 ELSE 0) = 1

(* A worker takes a second task, or one while it is paused, only if it was    *)
(* resumed while it worked or, for the latter, paused twice over one task,    *)
(* which a rolling update does to each worker it finds at work.               *)
OutOfTurnOnlyIf ==
  [][\A w \in Member0 :
       (\E c \in handled' \ handled : c.worker = w)
         => w \in doubled \/ (AtWork(w) = {} /\ pauses[w] # 1)]_poolVars
=============================================================================
