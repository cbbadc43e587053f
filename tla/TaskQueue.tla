------------------------------ MODULE TaskQueue ------------------------------
(* The in-memory priority queue of src/coordination/TaskQueue.ts.  It has no *)
(* behaviour of its own: its operations are conjuncts of the steps of the    *)
(* pool that calls them.  Every operation runs to its end without yielding.  *)
EXTENDS Naturals, Sequences, FiniteSets

CONSTANTS Tasks, Priority, RetryAttempts

ASSUME TasksAssumption == IsFiniteSet(Tasks)
ASSUME PriorityAssumption == Priority \in [Tasks -> Nat]
ASSUME RetryAssumption == RetryAttempts \in Nat

VARIABLES queue,      \* the tasks waiting, in the order they will be dequeued
          inProgress, \* dequeued and neither completed nor failed
          completed,
          failed,     \* out of retries
          retries     \* failed attempts of each task

queueVars == <<queue, inProgress, completed, failed, retries>>

Queued == {queue[i] : i \in DOMAIN queue}

QueueInit == /\ queue = <<>>
             /\ inProgress = {}
             /\ completed = {}
             /\ failed = {}
             /\ retries = [t \in Tasks |-> 0]

\* The orders the constructor's sort can give the tasks of `load`: by falling
\* priority, tasks of one priority in whatever order the loader had them.
Sorted(load) ==
  {s \in [1..Cardinality(load) -> load] :
     \A i, j \in DOMAIN s :
        i < j => s[i] # s[j] /\ Priority[s[i]] >= Priority[s[j]]}

\* n calls of dequeue() in a row.
Dequeue(n) ==
  /\ n <= Len(queue)
  /\ queue' = SubSeq(queue, n + 1, Len(queue))
  /\ inProgress' = inProgress \cup {queue[i] : i \in 1..n}
  /\ UNCHANGED <<completed, failed, retries>>

\* queue:drained is emitted when the last task in progress leaves and nothing
\* waits.
DrainedEarly(t) == queue = <<>> /\ t \in inProgress  \* mutant
DrainedBy(t) == queue = <<>> /\ inProgress = {t}

\* Mutant: the task is not put on the list of completed ones.
CompleteUnlisted(t) ==
  /\ inProgress' = inProgress \ {t}
  /\ UNCHANGED <<queue, completed, failed, retries>>

Complete(t) ==
  /\ inProgress' = inProgress \ {t}
  /\ completed' = completed \cup {t}
  /\ UNCHANGED <<queue, failed, retries>>

WillRetry(t) == retries[t] + 1 < RetryAttempts

\* Mutant: the task stays among those in progress.
FailKeeps(t) ==
  /\ retries' = [retries EXCEPT ![t] = @ + 1]
  /\ queue' = IF WillRetry(t) THEN Append(queue, t) ELSE queue
  /\ failed' = IF WillRetry(t) THEN failed ELSE failed \cup {t}
  /\ UNCHANGED <<inProgress, completed>>

\* fail(): to the end of the queue, or to the failed tasks.
Fail(t) ==
  /\ inProgress' = inProgress \ {t}
  /\ retries' = [retries EXCEPT ![t] = @ + 1]
  /\ queue' = IF WillRetry(t) THEN Append(queue, t) ELSE queue
  /\ failed' = IF WillRetry(t) THEN failed ELSE failed \cup {t}
  /\ UNCHANGED completed

\* What submitTask() of the pool does to the queue's private array.
Push(t) ==
  /\ queue' = Append(queue, t)
  /\ UNCHANGED <<inProgress, completed, failed, retries>>

Drained == queue = <<>> /\ inProgress = {}
=============================================================================
