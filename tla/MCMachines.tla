------------------------------ MODULE MCMachines ------------------------------
(* The parts with timers, limits and retries that serve one caller at a time:  *)
(* each behaviour is one of them. Fairness holds for the one that runs.        *)
EXTENDS Resilience, Runner, ParallelExecutor, RateLimiters, Scheduling,
        ArtifactTransfer, Persistence, WorkflowRegistry, TurnManager, TLC

CONSTANTS k1, k2, c1, c2, q1, q2, t1, t2, t3, r1, r2, r3

MCNeeds == t1 :> <<>> @@ t2 :> <<t1>> @@ t3 :> <<t3>>
MCCallLists == {<<>>, <<k1, k1>>, <<k1, k2>>}
MCLists == {<<t2, t1>>, <<t1, t3>>}
MCOwnerOf == q1 :> c1 @@ q2 :> Nameless
MCPriority == q1 :> 1 @@ q2 :> 2
MCEstimate == r1 :> 1 @@ r2 :> 0 @@ r3 :> 0

VARIABLE focus

serving == <<resilienceVars, breakerVars, runnerVars, executorVars, bucketVars>>
timed == <<scheduleVars, pollerVars, triggerVars>>
shared == <<limiterVars, artifactVars, managerVars, checkpointVars>>
perAgent == <<registryVars, stateVars, turnVars, controllerVars>>

\* A part that does not run has one initial state.
Chosen ==
  /\ focus \in {"resilience", "breaker", "runner", "executor", "bucket", "schedule",
                "poller", "triggers", "limiter", "artifacts", "manager", "checkpoints",
                "registry", "state", "turn", "controller"}
  /\ focus = "resilience" \/ healthy
  /\ focus = "breaker" \/ sound
  /\ focus = "runner" \/ class = "thread"
  /\ focus = "executor" \/ detects
  /\ focus = "bucket" \/ fair
  /\ focus = "limiter" \/ \A limit \in TokenLimits : tpm <= limit
  /\ focus = "artifacts" \/ \A list \in AccessList : readers[list] = {}
  /\ focus = "turn" \/ hooks = {}

Init ==
  /\ ResilienceInit /\ BreakerInit /\ RunnerInit /\ ExecutorInit /\ BucketInit /\ ScheduleInit
  /\ PollerInit /\ TriggersInit /\ LimiterInit /\ ArtifactInit /\ ManagerInit
  /\ CheckpointInit /\ RegistryInit /\ StateInit /\ TurnInit /\ ControllerInit
  /\ Chosen

Serve ==
  \/ /\ focus = "resilience" /\ ResilienceNext
     /\ UNCHANGED <<breakerVars, runnerVars, executorVars, bucketVars>>
  \/ /\ focus = "breaker" /\ BreakerNext
     /\ UNCHANGED <<resilienceVars, runnerVars, executorVars, bucketVars>>
  \/ /\ focus = "runner" /\ RunnerNext
     /\ UNCHANGED <<resilienceVars, breakerVars, executorVars, bucketVars>>
  \/ /\ focus = "executor" /\ ExecutorNext
     /\ UNCHANGED <<resilienceVars, breakerVars, runnerVars, bucketVars>>
  \/ /\ focus = "bucket" /\ BucketNext
     /\ UNCHANGED <<resilienceVars, breakerVars, runnerVars, executorVars>>

KeepTime ==
  \/ focus = "schedule" /\ ScheduleNext /\ UNCHANGED <<pollerVars, triggerVars>>
  \/ focus = "poller" /\ PollerNext /\ UNCHANGED <<scheduleVars, triggerVars>>
  \/ focus = "triggers" /\ TriggersNext /\ UNCHANGED <<scheduleVars, pollerVars>>

Share ==
  \/ focus = "limiter" /\ LimiterNext /\ UNCHANGED <<artifactVars, managerVars, checkpointVars>>
  \/ focus = "artifacts" /\ ArtifactNext /\ UNCHANGED <<limiterVars, managerVars, checkpointVars>>
  \/ focus = "manager" /\ ManagerNext /\ UNCHANGED <<limiterVars, artifactVars, checkpointVars>>
  \/ focus = "checkpoints" /\ CheckpointNext /\ UNCHANGED <<limiterVars, artifactVars, managerVars>>

ServeAgent ==
  \/ focus = "registry" /\ RegistryNext /\ UNCHANGED <<stateVars, turnVars, controllerVars>>
  \/ focus = "state" /\ StateNext /\ UNCHANGED <<registryVars, turnVars, controllerVars>>
  \/ focus = "turn" /\ TurnNext /\ UNCHANGED <<registryVars, stateVars, controllerVars>>
  \/ focus = "controller" /\ ControllerNext /\ UNCHANGED <<registryVars, stateVars, turnVars>>

Next ==
  /\ UNCHANGED focus
  /\ \/ Serve /\ UNCHANGED <<timed, shared, perAgent>>
     \/ KeepTime /\ UNCHANGED <<serving, shared, perAgent>>
     \/ Share /\ UNCHANGED <<serving, timed, perAgent>>
     \/ ServeAgent /\ UNCHANGED <<serving, timed, shared>>

\* Callers call again, attempts end, timers fire, calls go on where they can, and
\* time passes. No service has to work, no worker to answer or to exit; but the
\* token bucket is refilled by nobody but those who go on asking it for tokens.
Fairness ==
  /\ \A c \in Caller : /\ WF_resilienceVars(focus = "resilience" /\ CallBegins(c))
                       /\ WF_resilienceVars(focus = "resilience" /\ SleepOver(c))
                       /\ WF_resilienceVars(focus = "resilience" /\ Answered(c))
  /\ WF_resilienceVars(focus = "resilience" /\ ResilienceTick)
  /\ WF_breakerVars(focus = "breaker" /\ Execute)
  /\ WF_breakerVars(focus = "breaker" /\ ExecuteEnds)
  /\ WF_breakerVars(focus = "breaker" /\ BreakerTick)
  /\ \A u \in User : WF_runnerVars(focus = "runner" /\ Lapses(u))
  /\ WF_runnerVars(focus = "runner" /\ ShutdownMovesOn)
  /\ WF_runnerVars(focus = "runner" /\ RunnerStopped)
  /\ \A c \in Batcher : /\ WF_executorVars(focus = "executor" /\ CallGoesOn(c))
                        /\ \A t \in Task : WF_executorVars(focus = "executor" /\ TaskEnds(c, t))
  /\ WF_bucketVars(focus = "bucket" /\ BucketTick)
  /\ WF_bucketVars(focus = "bucket" /\ \E c \in Asker : TryAcquire(c))

Spec == Init /\ [][Next]_<<focus, serving, timed, shared, perAgent>> /\ Fairness

TypeOK ==
  /\ ResilienceTypeOK /\ BreakerTypeOK /\ RunnerTypeOK /\ ExecutorTypeOK /\ BucketTypeOK
  /\ ScheduleTypeOK /\ PollerTypeOK /\ TriggersTypeOK
  /\ LimiterTypeOK /\ ArtifactTypeOK /\ ManagerTypeOK /\ CheckpointTypeOK
  /\ RegistryTypeOK /\ StateTypeOK /\ TurnTypeOK

(* A service that works again for good is called and answered again, through  *)
(* the circuit breaker with retries and through the plain one.                *)
ServedAgain == RecoveredServiceIsServed /\ SoundServiceIsServed

(* Whoever called is answered in the end: by a runner, restarted or shut down *)
(* meanwhile, by the parallel executor, by the queue of the token bucket.     *)
EverythingReturns == EveryCallReturns /\ EveryTurnEnds /\ QueuedAreAnswered

(* What was kept is found: a checkpoint that was taken, or a later one, after *)
(* a crash, too; the state that was persisted; the artifacts that are listed; *)
(* the caller that waits for a paused loop.                                   *)
KeptIsFound == TakenIsFound /\ PersistedIsKept /\ ListedIsHeld /\ WaitersAreKnown

(* What is due happens once: a poller hands out every item, twice only when   *)
(* its polls overlap; a timer runs a workflow only while it is registered,    *)
(* unless it was overwritten; an event is dropped as a repeat only of one     *)
(* that was answered, or whose transform threw; a workflow runs each of its   *)
(* steps once, but for the changes made meanwhile; a turn answers the calls   *)
(* it was asked for, or ends in an error that has its cause. And what was     *)
(* kept is found.                                                             *)
NothingMissed ==
  /\ NothingSkipped /\ OnlyOverlapRepeats
  /\ OnlyStrayTimersTick /\ DuplicatesWereAnswered
  /\ EachStepOnce /\ TurnAnswersCalls /\ KeptIsFound

(* What is shared out stays within its limits and its books: the tokens of a  *)
(* window and whom they were given to, the requests let in and what as many   *)
(* as may run at once can use, the runners lent.                              *)
WithinLimits ==
  /\ WindowBudget /\ OverrunIsBounded /\ NeverUndercounts
  /\ RunnersAreLentOnce
=============================================================================
