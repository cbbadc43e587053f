----------------------------- MODULE WorkerPool -----------------------------
(* The worker pool of src/coordination/WorkerPool.ts: workers that take      *)
(* tasks off a shared queue and run them through the LLM provider, while the *)
(* application pauses, resumes, reconfigures, submits, waits and stops.      *)
(*                                                                           *)
(* A step runs from one await to the next.  The application's callbacks are  *)
(* called in the middle of such a step, between the end of a task and the    *)
(* assignment of the next; `callback` marks that point, and while it is set  *)
(* only calls the callback itself can make are enabled.                      *)
(*                                                                           *)
(* start() may be called again, after stop(), a failed load or the end of    *)
(* the work: the application calls it while the pool does not run and no     *)
(* worker is busy.                                                           *)
EXTENDS TaskQueue

CONSTANTS MaxConcurrent, \* the workers are Worker-1 .. Worker-MaxConcurrent
          Loads,         \* what the task loader may return
          Callers,       \* activities of the application, one call each at a time
          MaxCalls,      \* bound on the calls of one Caller
          ResumeInCallback, \* callbacks may call resume()
          StopDuringStart,  \* stop() and start() may be under way together
          SameTasks,     \* the loader returns the same objects again
          MaxLoads,      \* bound on the loads that succeed
          NoTask,
          NoWorker

ASSUME WorkerAssumption == /\ MaxConcurrent \in Nat \ {0}
                           /\ NoWorker \notin 1..MaxConcurrent
                           /\ NoTask \notin Tasks
ASSUME CallAssumption == /\ MaxCalls \in Nat
                         /\ ResumeInCallback \in BOOLEAN
                         /\ StopDuringStart \in BOOLEAN
                         /\ MaxLoads \in Nat /\ SameTasks \in BOOLEAN

\* A loader that returns no task leaves a pool that runs and is never drained.
ASSUME LoadAssumption == Loads \subseteq (SUBSET Tasks) \ {{}}

Workers == 1..MaxConcurrent

VARIABLES status, currentTask, \* of each worker
          executing,   \* <<worker, task>> for every task handed to the provider
          running, paused, stopped,
          loader,      \* of the last start(): "none", "loading", "loaded" or "failed"
          loads,       \* loads that succeeded
          call,        \* the call each Caller is waiting for
          calls,       \* calls each Caller has made
          awaited,     \* workers stop() still has to see idle
          pauseTimers, \* pending auto-resume timers
          callback,    \* worker whose task has just ended, callbacks running
          config,      \* flips with every mutation reconfigure() applies
          completions, \* calls of onComplete since the last load
          threw        \* some callback threw an error since the last load

workerVars == <<status, currentTask, executing>>
poolVars == <<running, paused, stopped, loader, loads, completions>>
callVars == <<call, calls, awaited, pauseTimers, config>>
vars == <<queueVars, workerVars, poolVars, callVars, callback, threw>>

Init ==
  /\ QueueInit
  /\ status = [w \in Workers |-> "idle"]
  /\ currentTask = [w \in Workers |-> NoTask]
  /\ executing = {}
  /\ running = FALSE /\ paused = FALSE /\ stopped = FALSE
  /\ loader = "none" /\ loads = 0
  /\ call = [c \in Callers |-> "free"]
  /\ calls = [c \in Callers |-> 0]
  /\ awaited = {}
  /\ pauseTimers = 0
  /\ callback = NoWorker
  /\ config = 0
  /\ completions = 0
  /\ threw = FALSE

Idle == {w \in Workers : status[w] = "idle"}
NobodyWorks == \A w \in Workers : status[w] # "working"

-----------------------------------------------------------------------------
(* assignNextTask                                                            *)

\* The tasks the workers of `ws` get when assignNextTask is called for them
\* one after the other, in the order of their numbers.
Place(ws, w) == Cardinality({v \in ws : v <= w})
Served(ws) == {w \in ws : Place(ws, w) <= Len(queue)}

\* Mutant: the check for an empty queue is gone.
AssignUnchecked(ws) ==
  LET served == Served(ws)
      task(w) == IF w \in served THEN queue[Place(ws, w)] ELSE NoTask
  IN /\ Dequeue(Cardinality(served))
     /\ executing' = executing \cup {<<w, task(w)>> : w \in ws}
     /\ status' = [w \in Workers |-> IF w \in ws THEN "working" ELSE status[w]]
     /\ currentTask' = [w \in Workers |-> IF w \in ws THEN task(w) ELSE currentTask[w]]

AssignNextTask(ws) ==
  LET served == Served(ws)
      task(w) == queue[Place(ws, w)]
  IN /\ Dequeue(Cardinality(served))
     /\ executing' = executing \cup {<<w, task(w)>> : w \in served}
     /\ status' = [w \in Workers |-> IF w \in served THEN "working"
                                     ELSE IF w \in ws THEN "idle" ELSE status[w]]
     /\ currentTask' = [w \in Workers |-> IF w \in served THEN task(w) ELSE currentTask[w]]

\* Mutants: resume() does not ask who is idle, or gives out no task.
ResumeAll == paused' = FALSE /\ AssignNextTask(IF running THEN Workers ELSE {})
ResumeWakesNobody == paused' = FALSE /\ AssignNextTask({})

\* resume(), after its guard: every idle worker is given a task.
ResumePool ==
  /\ paused' = FALSE
  /\ AssignNextTask(IF running THEN Idle ELSE {})

-----------------------------------------------------------------------------
(* start()                                                                   *)

Start ==
  /\ loader # "loading" /\ loads < MaxLoads
  /\ ~running /\ executing = {} /\ callback = NoWorker
  /\ StopDuringStart \/ \A c \in Callers : call[c] # "stopping"
  /\ loader' = "loading"
  /\ UNCHANGED <<queueVars, workerVars, running, paused, stopped, loads, completions,
                 callVars, callback, threw>>

\* The loader answers: the pool runs, whatever was called in the meantime, with
\* a new queue and new workers.  Tasks that are the objects of the last load keep
\* their retries; the polls of a stop() look at workers that are gone, and idle.
LoaderAnswers ==
  /\ loader = "loading"
  /\ callback = NoWorker
  /\ loader' = "loaded" /\ loads' = loads + 1
  /\ running' = TRUE
  /\ stopped' = FALSE
  /\ \E load \in Loads : \E s \in Sorted(load) :
       LET n == IF paused THEN 0 ELSE IF MaxConcurrent < Len(s) THEN MaxConcurrent ELSE Len(s)
       IN /\ queue' = SubSeq(s, n + 1, Len(s))
          /\ inProgress' = {s[w] : w \in 1..n}
          /\ executing' = {<<w, s[w]>> : w \in 1..n}
          /\ status' = [w \in Workers |-> IF w <= n THEN "working" ELSE "idle"]
          /\ currentTask' = [w \in Workers |-> IF w <= n THEN s[w] ELSE NoTask]
  /\ completed' = {} /\ failed' = {} /\ completions' = 0
  /\ retries' = IF SameTasks THEN retries ELSE [t \in Tasks |-> 0]
  /\ awaited' = {} /\ threw' = FALSE
  /\ UNCHANGED <<paused, call, calls, pauseTimers, config, callback>>

LoaderFails ==
  /\ loader = "loading"
  /\ callback = NoWorker
  /\ loader' = "failed"
  /\ UNCHANGED <<queueVars, workerVars, running, paused, stopped, loads, completions,
                 callVars, callback, threw>>

-----------------------------------------------------------------------------
(* The end of a task                                                         *)

\* queue:drained: the pool stops running, onComplete is called and whoever
\* called waitForCompletion is answered.
QueueDrained(left) ==
  /\ running' = (running /\ ~left)
  /\ completions' = IF left THEN completions + 1 ELSE completions
  /\ call' = [c \in Callers |-> IF left /\ call[c] = "waiting" THEN "free" ELSE call[c]]
  /\ UNCHANGED <<paused, stopped, loader, loads, calls, awaited, pauseTimers, config>>

WorkerFreed(w, t) ==
  /\ <<w, t>> \in executing
  /\ callback = NoWorker
  /\ executing' = executing \ {<<w, t>>}
  /\ currentTask' = [currentTask EXCEPT ![w] = NoTask]
  /\ status' = [status EXCEPT ![w] = "idle"]

TaskSucceeds(w, t) ==
  /\ WorkerFreed(w, t)
  /\ Complete(t)
  /\ QueueDrained(DrainedBy(t))
  /\ callback' = w
  /\ UNCHANGED threw

\* Mutant: the last failure does not drain the queue.
TaskFailsSilently(w, t) ==
  /\ WorkerFreed(w, t)
  /\ Fail(t)
  /\ QueueDrained(FALSE)
  /\ callback' = w
  /\ UNCHANGED threw

\* The provider rejects, or taskTimeout is over and its answer no longer counts.
TaskFails(w, t) ==
  /\ WorkerFreed(w, t)
  /\ Fail(t)
  /\ QueueDrained(~WillRetry(t) /\ DrainedBy(t))
  /\ callback' = w
  /\ UNCHANGED threw

\* onComplete throws: it is called from complete() or fail(), so neither the
\* waiters nor the other callbacks are reached.
OnCompleteThrows(w, t) ==
  /\ WorkerFreed(w, t)
  /\ DrainedBy(t)
  /\ Complete(t) \/ (~WillRetry(t) /\ Fail(t))
  /\ running' = FALSE
  /\ completions' = completions + 1
  /\ threw' = TRUE
  /\ UNCHANGED <<paused, stopped, loader, loads, callVars, callback>>

\* onTaskComplete or onTaskFailed, and onProgress, are done.
CallbackReturns ==
  /\ callback # NoWorker
  /\ callback' = NoWorker
  /\ AssignNextTask(IF running /\ ~paused THEN {callback} ELSE {})
  /\ UNCHANGED <<poolVars, callVars, threw>>

\* A callback throws: the worker's chain of assignments is broken.
CallbackThrows ==
  /\ callback # NoWorker
  /\ callback' = NoWorker
  /\ threw' = TRUE
  /\ status' = [status EXCEPT ![callback] = "idle"]
  /\ currentTask' = [currentTask EXCEPT ![callback] = NoTask]
  /\ UNCHANGED <<queueVars, executing, poolVars, callVars>>

-----------------------------------------------------------------------------
(* Calls of the application                                                  *)

Begin(c) == /\ call[c] = "free"
            /\ calls[c] < MaxCalls
            /\ calls' = [calls EXCEPT ![c] = @ + 1]

Kinds == {"pausing", "timedPausing", "reconfiguring"}

\* pause(), pause({timeout}) and the pause() inside reconfigure(): on a paused
\* pool they return at once.
Pause(c, kind) ==
  /\ Begin(c)
  /\ paused' = TRUE
  /\ call' = [call EXCEPT ![c] = IF ~paused THEN kind
                                 ELSE IF kind = "reconfiguring" THEN "mutating" ELSE "free"]
  /\ UNCHANGED <<queueVars, workerVars, running, stopped, loader, loads, completions,
                 awaited, pauseTimers, config, callback, threw>>

\* waitForIdle() finds every worker idle, and pause() resolves.
PauseResolves(c) ==
  /\ call[c] \in {"pausing", "timedPausing"}
  /\ callback = NoWorker
  /\ NobodyWorks
  /\ call' = [call EXCEPT ![c] = "free"]
  /\ pauseTimers' = IF call[c] = "timedPausing" THEN pauseTimers + 1 ELSE pauseTimers
  /\ UNCHANGED <<queueVars, workerVars, poolVars, calls, awaited, config, callback, threw>>

\* reconfigure() goes on after its pause(): the mutation, unless it throws,
\* and in any case resume().
Mutate(c) ==
  /\ \/ call[c] = "reconfiguring" /\ NobodyWorks
     \/ call[c] = "mutating"
  /\ callback = NoWorker
  /\ call' = [call EXCEPT ![c] = "free"]
  /\ config' \in {config, 1 - config}
  /\ \/ paused /\ ResumePool
     \/ ~paused /\ UNCHANGED <<paused, queueVars, workerVars>>
  /\ UNCHANGED <<running, stopped, loader, loads, completions, calls, awaited,
                 pauseTimers, callback, threw>>

Resume ==
  /\ paused
  /\ ResumeInCallback \/ callback = NoWorker
  /\ ResumePool
  /\ UNCHANGED <<running, stopped, loader, loads, completions, callVars, callback, threw>>

\* The timer of pause({timeout}), also when that pause ended long ago.
AutoResume ==
  /\ pauseTimers > 0
  /\ callback = NoWorker
  /\ pauseTimers' = pauseTimers - 1
  /\ \/ paused /\ ResumePool
     \/ ~paused /\ UNCHANGED <<paused, queueVars, workerVars>>
  /\ UNCHANGED <<running, stopped, loader, loads, completions, call, calls, awaited,
                 config, callback, threw>>

Known == Queued \cup inProgress \cup completed \cup failed

SubmitTask(t) ==
  /\ t \notin Known
  /\ running /\ ~stopped
  /\ Push(t)
  /\ UNCHANGED <<workerVars, poolVars, callVars, callback, threw>>

WaitForCompletion(c) ==
  /\ Begin(c)
  /\ ~(loads > 0 /\ Drained)
  /\ call' = [call EXCEPT ![c] = "waiting"]
  /\ UNCHANGED <<queueVars, workerVars, poolVars, awaited, pauseTimers, config, callback, threw>>

Stop(c) ==
  /\ Begin(c)
  /\ \A d \in Callers : call[d] # "stopping"
  /\ StopDuringStart \/ loader # "loading"
  /\ running' = FALSE
  /\ stopped' = TRUE
  /\ awaited' = Workers \ Idle
  /\ call' = [call EXCEPT ![c] = "stopping"]
  /\ UNCHANGED <<queueVars, workerVars, paused, loader, loads, completions, pauseTimers,
                 config, callback, threw>>

\* One of the polls of stop() finds its worker idle.
StopSeesIdle(w) ==
  /\ w \in awaited \cap Idle
  /\ callback = NoWorker
  /\ awaited' = awaited \ {w}
  /\ UNCHANGED <<queueVars, workerVars, poolVars, call, calls, pauseTimers, config,
                 callback, threw>>

StopResolves(c) ==
  /\ call[c] = "stopping"
  /\ awaited = {}
  /\ callback = NoWorker
  /\ call' = [call EXCEPT ![c] = "free"]
  /\ status' = [w \in Workers |-> "idle"]
  /\ UNCHANGED <<queueVars, currentTask, executing, poolVars, calls, awaited,
                 pauseTimers, config, callback, threw>>

-----------------------------------------------------------------------------
EndOfTask(w, t) ==
  TaskSucceeds(w, t) \/ TaskFails(w, t) \/ OnCompleteThrows(w, t)

CallOf(c) ==
  \/ \E kind \in Kinds : Pause(c, kind)
  \/ PauseResolves(c) \/ Mutate(c)
  \/ WaitForCompletion(c)
  \/ Stop(c) \/ StopResolves(c)

Next ==
  \/ Start \/ LoaderAnswers \/ LoaderFails
  \/ \E w \in Workers, t \in Tasks : EndOfTask(w, t)
  \/ CallbackReturns \/ CallbackThrows
  \/ \E c \in Callers : CallOf(c)
  \/ Resume \/ AutoResume
  \/ \E t \in Tasks : SubmitTask(t)
  \/ \E w \in Workers : StopSeesIdle(w)

Spec == Init /\ [][Next]_vars

\* Timers fire, the loader and the provider answer or are given up by
\* taskTimeout, callbacks return, and the application resumes what it paused.
Fairness ==
  /\ WF_vars(LoaderAnswers \/ LoaderFails)
  /\ \A w \in Workers, t \in Tasks : WF_vars(EndOfTask(w, t))
  /\ WF_vars(CallbackReturns \/ CallbackThrows)
  /\ \A c \in Callers : WF_vars(PauseResolves(c)) /\ WF_vars(Mutate(c))
  /\ WF_vars(Resume)

FairSpec == Spec /\ Fairness

-----------------------------------------------------------------------------
(* Properties                                                                *)

TypeOK ==
  /\ queue \in Seq(Tasks)
  /\ inProgress \subseteq Tasks /\ completed \subseteq Tasks /\ failed \subseteq Tasks
  /\ retries \in [Tasks -> Nat]
  /\ status \in [Workers -> {"idle", "working"}]
  /\ currentTask \in [Workers -> Tasks \cup {NoTask}]
  /\ executing \subseteq Workers \X Tasks
  /\ running \in BOOLEAN /\ paused \in BOOLEAN /\ stopped \in BOOLEAN
  /\ loader \in {"none", "loading", "loaded", "failed"} /\ loads \in Nat
  /\ call \in [Callers -> Kinds \cup {"free", "mutating", "waiting", "stopping"}]
  /\ calls \in [Callers -> 0..MaxCalls]
  /\ awaited \subseteq Workers
  /\ pauseTimers \in Nat
  /\ callback \in Workers \cup {NoWorker}
  /\ config \in 0..1
  /\ completions \in Nat
  /\ threw \in BOOLEAN

\* Whatever is retried, submitted, paused or stopped in whatever order, a task
\* is in exactly one of the queue's four places, and once (TaskQueue's shift,
\* push, Map.set and Map.delete are four separate steps of the code).
OnePlaceEach ==
  /\ \A i, j \in DOMAIN queue : queue[i] = queue[j] => i = j
  /\ Queued \cap (inProgress \cup completed \cup failed) = {}
  /\ inProgress \cap (completed \cup failed) = {}
  /\ completed \cap failed = {}

\* The pool never hands a task to two workers or a second task to a busy one,
\* and status and currentTask tell the truth about it: what resume(), stop()
\* and pause() read is what is running.
OneTaskPerWorker ==
  /\ \A a, b \in executing : (a[1] = b[1] \/ a[2] = b[2]) => a = b
  /\ inProgress = {e[2] : e \in executing}
  /\ \A w \in Workers : status[w] = "working" <=> \E t \in Tasks : <<w, t>> \in executing
  /\ \A e \in executing : currentTask[e[1]] = e[2]

\* A pool loses a task it has taken on only when start() is called again, which
\* replaces the queue: through failures, retries, pauses, late submissions, stops
\* and loads that fail, what was in the queue is waiting, at work or done.
Restarts == loader = "loading" /\ loader' = "loaded"
NoTaskLost == [][Restarts \/ Known \subseteq Known']_vars

\* Of each load, onComplete is called once, when nothing is left, and nothing runs after it.
CompletesOnce ==
  /\ completions <= 1
  /\ completions = 1 => Drained /\ ~running

\* Unless a callback threw, a running pool that is not paused never leaves
\* tasks waiting with nobody at work: some worker will come back for them.
WorkGoesOn ==
  running /\ ~paused /\ ~threw /\ queue # <<>> => executing # {} \/ callback # NoWorker

\* Who waits for completion is answered, through failures, retries, pauses and
\* late submissions, unless the pool is stopped, was never loaded or a callback
\* threw.
WaitersServed ==
  \A c \in Callers :
    call[c] = "waiting" ~> \/ call[c] = "free" \/ stopped \/ threw
                           \/ loader \in {"none", "failed"}

\* "Safely reconfigures the pool by pausing, applying a mutation function to
\* the config, then resuming" (WorkerPool.ts:232-233): a mutation meets no task
\* in progress.
ConfigChangesAtRest == [][config' # config => inProgress = {}]_vars
=============================================================================
