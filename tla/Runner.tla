------------------------------ MODULE Runner ------------------------------
(* The runners that keep an agent loop in a worker (src/threading/): a worker *)
(* thread, a web worker or a child process behind a table of requests with a  *)
(* timer each. The workers are external: they answer, fail, are slow or exit. *)
(* Heartbeats, progress and resource usage are only reported, and left out.   *)
EXTENDS Naturals, Sequences, FiniteSets, SequencesExt

CONSTANTS
  User,          \* concurrent callers of runTurn, run and getStateAsync
  MaxWorkers,    \* bound: workers created
  MaxRestarts    \* of a child process

ASSUME RunnerAssumption == {MaxWorkers, MaxRestarts} \subseteq Nat

VARIABLES
  class,         \* of the runner
  born, alive,   \* number of workers created; those that run
  port,          \* this.worker or this.process; 0 when there is none
  ready,         \* isInitialized
  closing,       \* where shutdown() is; "no" when not isShuttingDown
  table,         \* pendingMessages
  user,          \* what each caller awaits
  restart        \* child process: autoRestart, restartCount, timers set

runnerVars == <<class, born, alive, port, ready, closing, table, user, restart>>

Stopper == "shutdown"
Restarter == "restart"

RunnerInit ==
  /\ class \in {"thread", "web", "child"}
  /\ born = 0 /\ alive = {} /\ port = 0
  /\ ready = FALSE /\ closing = "no" /\ table = {}
  /\ user = [u \in User |-> "idle"]
  /\ restart = [auto |-> TRUE, count |-> 0, timers |-> 0]

\* sendMessage needs a worker; a child process must be connected as well.
ThreadCanSend == class = "thread" /\ port # 0
WebCanSend == class = "web" /\ port # 0
ChildCanSend == class = "child" /\ port \in alive
CanSend == ThreadCanSend \/ WebCanSend \/ ChildCanSend

Posted(what, by) == {[what |-> what, by |-> by, to |-> port]}
Awaits(by, what) == user' = [u \in User |-> IF u = by THEN what ELSE user[u]]

\* initialize: every call that finds isInitialized unset makes a worker.
Create(by) ==
  /\ born < MaxWorkers
  /\ born' = born + 1 /\ port' = born' /\ alive' = alive \cup {born'}
  /\ table' = table \cup {[what |-> "init", by |-> by, to |-> born']}
  /\ Awaits(by, "init")
  /\ UNCHANGED <<class, closing>>

ThreadInitialize(u) == class = "thread" /\ Create(u)
WebInitialize(u) == class = "web" /\ Create(u)
ChildInitialize(u) == class = "child" /\ Create(u)
CallUnready(u) ==
  /\ user[u] = "idle" /\ ~ready
  /\ ThreadInitialize(u) \/ WebInitialize(u) \/ ChildInitialize(u)
  /\ UNCHANGED <<ready, restart>>

CallReady(u) ==
  /\ user[u] = "idle" /\ ready /\ CanSend
  /\ table' = table \cup Posted("turn", u)
  /\ Awaits(u, "turn")
  /\ UNCHANGED <<class, born, alive, port, ready, closing, restart>>

(* A request leaves the table and whoever awaits it goes on: an initialised *)
(* runner gets the turn that made it so, which throws without a worker.     *)
GoesOn(q, ok) ==
  /\ q.what # "stop"
  /\ LET inits == ok /\ q.what = "init" IN
       /\ ready' = (ready \/ inits)
       /\ restart' = IF inits THEN [restart EXCEPT !.count = 0] ELSE restart
       /\ IF inits /\ q.by \in User /\ CanSend
          THEN table' = (table \ {q}) \cup Posted("turn", q.by) /\ Awaits(q.by, "turn")
          ELSE table' = table \ {q} /\ Awaits(q.by, "idle")
  /\ UNCHANGED <<class, born, alive, port, closing>>

Answers(q) == q.to \in alive /\ \E ok \in BOOLEAN : GoesOn(q, ok)
ThreadAnswers(q) == class = "thread" /\ Answers(q)
WebAnswers(q) == class = "web" /\ Answers(q)
ChildAnswers(q) == class = "child" /\ Answers(q)
TimesOutAt(q) == q \in table /\ GoesOn(q, FALSE)

\* A thread that exits is only reported: its requests wait for their timers.
ThreadExits(w) ==
  /\ class = "thread" /\ w \in alive /\ alive' = alive \ {w}
  /\ UNCHANGED <<class, born, port, ready, closing, table, user, restart>>

\* Mutant: the requests of a child process that exits are forgotten.
ForgetAll == table' = {} /\ UNCHANGED user
RejectPending == table' = {} /\ user' = [u \in User |-> "idle"]

\* handleProcessExit, whichever process it was that exited.
ChildExits(w) ==
  /\ class = "child" /\ w \in alive /\ alive' = alive \ {w}
  /\ IF closing # "no" THEN UNCHANGED <<table, user, restart>>
     ELSE /\ RejectPending
          /\ restart' = IF restart.auto /\ restart.count < MaxRestarts
                        THEN [restart EXCEPT !.count = @ + 1, !.timers = @ + 1] ELSE restart
  /\ UNCHANGED <<class, born, port, ready, closing>>

\* The timer of a restart looks at nothing: it fires after a shutdown, too.
RestartFires ==
  /\ restart.timers > 0
  /\ restart' = [restart EXCEPT !.timers = @ - 1]
  /\ ready' = FALSE
  /\ Create(Restarter)

\* shutdown: a child process that is not connected is killed at once.
RunnerShutdown ==
  /\ closing = "no" /\ port # 0
  /\ IF CanSend THEN closing' = "asked" /\ table' = table \cup Posted("stop", Stopper)
     ELSE closing' = "killing" /\ UNCHANGED table
  /\ restart' = [restart EXCEPT !.auto = FALSE]
  /\ UNCHANGED <<class, born, alive, port, ready, user>>

Stopped(q) == q \in table /\ q.what = "stop"
Emptied == port' = 0 /\ ready' = FALSE /\ closing' = "no"

\* Answered or not, a thread is terminated, and forgotten once it has ended;
ThreadTerminates(q) ==
  /\ class = "thread" /\ Stopped(q)
  /\ closing' = "terminating" /\ alive' = alive \ {port} /\ table' = table \ {q}
  /\ UNCHANGED <<class, born, port, ready, user, restart>>

\* a web worker is gone at once, and all that still waits for it rejected;
WebTerminates(q) ==
  /\ class = "web" /\ Stopped(q)
  /\ alive' = alive \ {port} /\ Emptied
  /\ RejectPending
  /\ UNCHANGED <<class, born, restart>>

\* a child process is given time to exit, and killed if it did not answer.
ChildWaits(q) ==
  /\ class = "child" /\ Stopped(q)
  /\ closing' \in {"killing"} \cup (IF q.to \in alive THEN {"waiting"} ELSE {})
  /\ table' = table \ {q}
  /\ UNCHANGED <<class, born, alive, port, ready, user, restart>>

RunnerStopped ==
  /\ closing \in {"terminating", "waiting", "killing"} /\ Emptied
  /\ UNCHANGED <<class, born, alive, table, user, restart>>

RunnerNext ==
  \/ \E u \in User : CallUnready(u) \/ CallReady(u)
  \/ \E q \in table : ThreadAnswers(q) \/ WebAnswers(q) \/ ChildAnswers(q) \/ TimesOutAt(q)
                      \/ ThreadTerminates(q) \/ WebTerminates(q) \/ ChildWaits(q)
  \/ \E w \in 1 .. MaxWorkers : ThreadExits(w) \/ ChildExits(w)
  \/ RestartFires \/ RunnerShutdown \/ RunnerStopped

\* Steps that come by themselves: the timers of a request, the ends of shutdown().
Lapses(u) == \E q \in table : q.by = u /\ TimesOutAt(q)
ShutdownMovesOn == \E q \in table : ThreadTerminates(q) \/ WebTerminates(q) \/ ChildWaits(q)

RunnerTypeOK ==
  /\ class \in {"thread", "web", "child"} /\ born \in 0 .. MaxWorkers
  /\ alive \subseteq 1 .. born /\ port \in 0 .. born
  /\ ready \in BOOLEAN /\ closing \in {"no", "asked", "terminating", "waiting", "killing"}
  /\ table \subseteq [what: {"init", "turn", "stop"}, by: User \cup {Stopper, Restarter}, to: 1 .. MaxWorkers]
  /\ user \in [User -> {"idle", "init", "turn"}]
  /\ restart \in [auto: BOOLEAN, count: 0 .. MaxRestarts, timers: 0 .. MaxWorkers]

(* Every call of a runner comes back, with a result or an error, and so does  *)
(* shutdown(), whatever workers exit, hang or are replaced in between and     *)
(* whichever of several calls made them.                                      *)
EveryCallReturns == (\A u \in User : []<>(user[u] = "idle")) /\ []<>(closing = "no")

-----------------------------------------------------------------------------
(* The pool of runners (src/threading/ThreadingManager.ts): runners are made and *)
(* shut down asynchronously, lent to one user at a time, and released by id. The *)
(* runners are those of Runner and BroadcastCoordinator. The health check only   *)
(* reports; the environment and the modes decide which runner is made.           *)
CONSTANTS
  RunnerId,    \* runners, each made once
  Borrower,    \* callers of getRunner()
  NoRunner

ASSUME ManagerAssumption == NoRunner \notin RunnerId /\ IsFiniteSet(RunnerId) /\ IsFiniteSet(Borrower)

VARIABLES
  infos,       \* runnerInfo, in order: id, status, workload
  making,      \* runners whose initialize() is under way
  made,        \* ids that were used
  lent,        \* runner that each borrower holds
  stopping,    \* shutdownRunner() under way for these runners
  wanted,      \* shutdownAll() under way: the runners it waits for, or NoRunner alone
  revived      \* history: runners released while they were shut down

managerVars == <<infos, making, made, lent, stopping, wanted, revived>>

Pooled == {infos[i].id : i \in DOMAIN infos}
At(r) == CHOOSE i \in DOMAIN infos : infos[i].id = r
Without(r) == RemoveAt(infos, At(r))
NotAll == {NoRunner}

ManagerInit ==
  /\ infos = <<>> /\ making = {} /\ made = {} /\ lent = [b \in Borrower |-> NoRunner]
  /\ stopping = {} /\ wanted = NotAll /\ revived = {}

\* createRunner and createBroadcastChannelCoordinator: the runner is known once it is ready.
CreateRunner(r) ==
  /\ r \notin made /\ made' = made \cup {r} /\ making' = making \cup {r}
  /\ UNCHANGED <<infos, lent, stopping, wanted, revived>>
RunnerReady(r) ==
  /\ r \in making /\ making' = making \ {r}
  /\ infos' = Append(infos, [id |-> r, status |-> "idle", workload |-> 0])
  /\ UNCHANGED <<made, lent, stopping, wanted, revived>>
RunnerFailed(r) == r \in making /\ making' = making \ {r} /\ UNCHANGED <<infos, made, lent, stopping, wanted, revived>>

\* Idle runners have no workload: the first of them is taken.
FirstIdle == SelectInSeq(infos, LAMBDA info : info.status = "idle")
GetRunner(b) ==
  /\ lent[b] = NoRunner /\ FirstIdle # 0
  /\ lent' = [lent EXCEPT ![b] = infos[FirstIdle].id]
  /\ infos' = [infos EXCEPT ![FirstIdle].status = "busy", ![FirstIdle].workload = @ + 1]
  /\ UNCHANGED <<making, made, stopping, wanted, revived>>

\* A runner that is being shut down is idle again, or gone.
ReleaseRunner(b) ==
  /\ lent[b] # NoRunner /\ lent' = [lent EXCEPT ![b] = NoRunner]
  /\ IF lent[b] \in Pooled
     THEN LET i == At(lent[b])
              load == IF infos[i].workload = 0 THEN 0 ELSE infos[i].workload - 1 IN
          /\ infos' = [infos EXCEPT ![i].workload = load, ![i].status = IF load = 0 THEN "idle" ELSE "busy"]
          /\ revived' = IF infos[i].status = "shutdown" THEN revived \cup {lent[b]} ELSE revived
     ELSE UNCHANGED <<infos, revived>>
  /\ UNCHANGED <<making, made, stopping, wanted>>

ShutsDown(info) == [info EXCEPT !.status = "shutdown"]
Shut(rs) ==
  /\ infos' = [i \in DOMAIN infos |-> IF infos[i].id \in rs THEN ShutsDown(infos[i]) ELSE infos[i]]
  /\ stopping' = stopping \cup rs /\ revived' = revived \ rs
ShutdownRunner(r) == r \in Pooled /\ Shut({r}) /\ UNCHANGED <<making, made, lent, wanted>>
ShutdownAll == wanted = NotAll /\ wanted' = Pooled /\ Shut(Pooled) /\ UNCHANGED <<making, made, lent>>

RunnerDown(r) ==
  /\ r \in stopping /\ stopping' = stopping \ {r}
  /\ infos' = Without(r) /\ revived' = revived \ {r}
  /\ wanted' = IF wanted = NotAll THEN NotAll ELSE wanted \ {r}
  /\ UNCHANGED <<making, made, lent>>
\* It rejects: the runner stays, shut down or not, and shutdownAll() rejects, too.
RunnerStaysUp(r) ==
  /\ r \in stopping /\ stopping' = stopping \ {r}
  /\ wanted' = IF r \in wanted THEN NotAll ELSE wanted
  /\ UNCHANGED <<infos, making, made, lent, revived>>
AllDown == wanted = {} /\ wanted' = NotAll /\ UNCHANGED <<infos, making, made, lent, stopping, revived>>

ManagerNext ==
  \/ ShutdownAll \/ AllDown
  \/ \E r \in RunnerId : \/ CreateRunner(r) \/ RunnerReady(r) \/ RunnerFailed(r) \/ ShutdownRunner(r)
                         \/ RunnerDown(r) \/ RunnerStaysUp(r)
  \/ \E b \in Borrower : GetRunner(b) \/ ReleaseRunner(b)

ManagerTypeOK ==
  /\ infos \in BoundedSeq([id : RunnerId, status : {"idle", "busy", "shutdown"}, workload : 0 .. 1], Cardinality(RunnerId))
  /\ making \subseteq made /\ made \subseteq RunnerId /\ lent \in [Borrower -> RunnerId \cup {NoRunner}]
  /\ stopping \subseteq Pooled /\ wanted \subseteq RunnerId \cup {NoRunner} /\ revived \subseteq RunnerId

(* A runner is lent to one user at a time, however releases and shutdowns     *)
(* interleave, and while it is shut down it is lent to nobody new, unless the *)
(* user it was lent to released it meanwhile: that makes it idle again.       *)
Holders(r) == {b \in Borrower : lent[b] = r}
RunnersAreLentOnce ==
  \A i \in DOMAIN infos :
    /\ infos[i].workload = Cardinality(Holders(infos[i].id)) /\ infos[i].workload <= 1
    /\ infos[i].id \in stopping /\ infos[i].id \notin revived => infos[i].status = "shutdown"
=============================================================================
