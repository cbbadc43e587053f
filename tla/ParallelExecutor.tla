-------------------------- MODULE ParallelExecutor --------------------------
(* Tasks run in parallel (src/cross-cutting/ParallelExecutor.ts): executeAll() *)
(* starts them in order as dependencies and the limit allow, and gives up on   *)
(* one after its timeout. Its fields are shared by all calls under way. Values *)
(* and durations are left out, and so is the list of executions.               *)
EXTENDS Integers, Sequences, FiniteSets, SequencesExt

CONSTANTS
  Batcher,         \* each calls executeAll() once
  Task,            \* task ids
  Needs,           \* their dependencies, in order
  Lists,           \* the lists that may be given to executeAll()
  MaxConcurrency,  \* maxConcurrency
  MaxResets        \* bound

ASSUME ExecutorAssumption ==
  /\ Needs \in [Task -> Seq(Task)] /\ Lists \subseteq Seq(Task)
  /\ MaxConcurrency \in Nat \ {0} /\ MaxResets \in Nat

VARIABLES
  turns,           \* per caller: where it is, tasks to come, those executing, those it races for
  known,           \* results: tasks of any call, ever
  running,         \* running; negative once reset() forgot tasks under way
  calledOff,       \* cancelled
  overdue,         \* perTurnTimeoutMs passed since turnStart
  detects,         \* enableDependencyDetection
  resets,          \* calls of reset() so far
  crossed          \* history: callers under way together

executorVars == <<turns, known, running, calledOff, overdue, detects, resets, crossed>>

InSync == {"loop", "slot"}
Awaiting == {"needs", "race", "stuck", "all"}
ActiveCallers == {c \in Batcher : turns[c].at \in InSync \cup Awaiting}

\* resolveDependencies: depth first, a cycle is cut where it closes; n bounds the
\* depth, and no path is longer than there are tasks.
Found == [visited : SUBSET Task, sorted : Seq(Task)]
Visit(tasks) ==
  LET visit[n \in Nat] ==
        [found \in Found |-> [task \in Task |->
          IF n = 0 \/ task \notin tasks \ found.visited THEN found
          ELSE LET deep == FoldLeft(LAMBDA f, need : visit[n - 1][f][need],
                                    [found EXCEPT !.visited = @ \cup {task}], Needs[task]) IN
               [deep EXCEPT !.sorted = Append(@, task)]]]
  IN visit[Cardinality(tasks)]
ResolveDependencies(tasks) ==
  IF ~detects THEN tasks
  ELSE FoldLeft(LAMBDA f, t : Visit(ToSet(tasks))[f][t], [visited |-> {}, sorted |-> <<>>], tasks).sorted

ExecutorInit ==
  /\ turns = [c \in Batcher |-> [at |-> "none", todo |-> <<>>, executing |-> {}, raced |-> {}]]
  /\ known = {} /\ running = 0 /\ calledOff = FALSE /\ overdue = FALSE /\ detects \in BOOLEAN
  /\ resets = 0 /\ crossed = {}

\* Between two awaits nobody else runs.
NobodyInSync == \A c \in Batcher : turns[c].at \notin InSync
Moves(c, at) == turns' = [turns EXCEPT ![c].at = at]
Skips(c) == turns' = [turns EXCEPT ![c].at = "loop", ![c].todo = Tail(@)]
Unmet(c) == ToSet(Needs[Head(turns[c].todo)]) \ known # {}

ExecuteAll(c, tasks) ==
  /\ turns[c].at = "none" /\ NobodyInSync
  /\ turns' = [turns EXCEPT ![c].at = "loop", ![c].todo = ResolveDependencies(tasks)]
  /\ calledOff' = FALSE /\ overdue' = FALSE
  /\ crossed' = IF ActiveCallers = {} THEN crossed ELSE crossed \cup ActiveCallers \cup {c}
  /\ UNCHANGED <<known, running, detects, resets>>

NextTask(c) ==
  /\ turns[c].at = "loop"
  /\ \/ turns[c].todo = <<>> /\ Moves(c, "all")
     \/ turns[c].todo # <<>> /\ (calledOff \/ overdue) /\ Skips(c)
     \/ turns[c].todo # <<>> /\ ~calledOff /\ ~overdue /\ Moves(c, IF Unmet(c) THEN "needs" ELSE "slot")
  /\ UNCHANGED <<known, running, calledOff, overdue, detects, resets, crossed>>

\* A dependency that failed has a result, too; one that is missing fails the task.
NeedsAwaited(c) ==
  /\ turns[c].at = "needs" /\ turns[c].executing = {} /\ NobodyInSync
  /\ IF Unmet(c) THEN Skips(c) ELSE Moves(c, "slot")
  /\ UNCHANGED <<known, running, calledOff, overdue, detects, resets, crossed>>

\* Waiting for a slot is racing one's own tasks: a caller without any waits for good.
TakeSlot(c) ==
  /\ turns[c].at = "slot"
  /\ IF running < MaxConcurrency
     THEN /\ turns' = [turns EXCEPT ![c] = [at |-> "loop", todo |-> Tail(@.todo),
                                            executing |-> @.executing \cup {Head(@.todo)}, raced |-> {}]]
          /\ running' = running + 1
     ELSE /\ turns' = [turns EXCEPT ![c].at = IF turns[c].executing = {} THEN "stuck" ELSE "race",
                                    ![c].raced = turns[c].executing]
          /\ UNCHANGED running
  /\ UNCHANGED <<known, calledOff, overdue, detects, resets, crossed>>

RaceWon(c) ==
  /\ turns[c].at = "race" /\ turns[c].raced \ turns[c].executing # {} /\ NobodyInSync
  /\ Moves(c, "slot")
  /\ UNCHANGED <<known, running, calledOff, overdue, detects, resets, crossed>>

\* A task succeeds, fails or runs out of time; in the last case its function goes on.
Released(n) == n - 1
TaskEnds(c, t) ==
  /\ t \in turns[c].executing /\ NobodyInSync
  /\ turns' = [turns EXCEPT ![c].executing = @ \ {t}]
  /\ running' = Released(running) /\ known' = known \cup {t}
  /\ UNCHANGED <<calledOff, overdue, detects, resets, crossed>>

AllSettled(c) ==
  /\ turns[c].at = "all" /\ turns[c].executing = {} /\ NobodyInSync
  /\ Moves(c, "done")
  /\ UNCHANGED <<known, running, calledOff, overdue, detects, resets, crossed>>

CancelAll ==
  /\ NobodyInSync /\ calledOff' = TRUE
  /\ UNCHANGED <<turns, known, running, overdue, detects, resets, crossed>>
TurnOverdue ==
  /\ NobodyInSync /\ overdue' = TRUE
  /\ UNCHANGED <<turns, known, running, calledOff, detects, resets, crossed>>
ExecutorReset ==
  /\ NobodyInSync /\ resets < MaxResets /\ resets' = resets + 1
  /\ known' = {} /\ running' = 0 /\ calledOff' = FALSE
  /\ UNCHANGED <<turns, overdue, detects, crossed>>

CallGoesOn(c) == NextTask(c) \/ NeedsAwaited(c) \/ TakeSlot(c) \/ RaceWon(c) \/ AllSettled(c)

ExecutorNext ==
  \/ CancelAll \/ TurnOverdue \/ ExecutorReset
  \/ \E c \in Batcher : \/ CallGoesOn(c)
                       \/ \E t \in Task : TaskEnds(c, t)
                       \/ \E tasks \in Lists : ExecuteAll(c, tasks)

ExecutorTypeOK ==
  /\ turns \in [Batcher -> [at : InSync \cup Awaiting \cup {"none", "done"},
                           todo : Seq(Task), executing : SUBSET Task, raced : SUBSET Task]]
  /\ known \subseteq Task /\ running \in Int /\ running <= MaxConcurrency
  /\ {calledOff, overdue, detects} \subseteq BOOLEAN /\ resets \in 0 .. MaxResets /\ crossed \subseteq Batcher

(* executeAll() returns, whatever its tasks need, however they end, and even  *)
(* if it is cancelled or the executor is reset meanwhile, unless another call *)
(* was under way with it: that one may hold the slots it waits for.           *)
EveryTurnEnds ==
  \A c \in Batcher : (turns[c].at # "none") ~> (turns[c].at = "done" \/ c \in crossed)
=============================================================================
