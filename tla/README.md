# TLA+ specifications of iteratio

iteratio is a TypeScript library for LLM agents: a loop that lets a model call
tools, and around it the machinery to run many agents: worker pools, leases and
elections, registries, message buses, limiters, schedulers. This directory holds
TLA+ modules translated from its source, TLC configurations that check them on
small instances, and proofs that TLAPS checks for every value of the constants.
`PROJECT.json` maps every definition to the source lines it stands for; paths
below are relative to `src/src`.

Contents: 1 inventory of the system, 2 plan, 3 what is modelled and how it
corresponds to the code, 4 runs and bounds, 5 fairness and time, 6 proofs,
7 disagreements found, 8 what is not modelled.

## 1. Inventory

The library is single-threaded JavaScript: nothing is interrupted, and all
concurrency lies between an `await` (or a callback, or a timer) and what
follows it. Every component below keeps its state in fields of an object; what
is shared between processes is a Redis or etcd store, or a message broker.

| component | state | operations | hard behaviour | what makes it correct |
|---|---|---|---|---|
| lease store (`hub/LeaseBackends.ts`) | current lease, fencing counter, watchers | acquire, renew, release, getLease, close | expiry against renewal in one millisecond | one lease at a time, tokens grow, an old lease never comes back |
| hub election (`hub/LeaseBasedElection.ts`) | state, currentLease, interval and timers | campaign, renewLease/tryRenew, releaseLease, start/stop | late and lost answers, renewal attempts against the grace timer, restarts | holders are fenced; a leader has the live lease; campaigns end |
| fencing guard (`hub/FencingTokenGuard.ts`) | none | executeWithToken | the lease moves between check and use | an older token never runs after a newer one |
| task queue, worker pool (`coordination/`) | queue, inFlight, completed, deadLettered; worker status; running, paused, completionResolve | start, submitTask, pause, resume, reconfigure, waitForCompletion, stop | pause, reconfigure and auto-resume at once; callbacks that call back or throw; retries | each task in one place, one task per worker, nothing lost, waiters answered |
| agent loop, step pipeline, tool executor, message manager (`core/`) | messages, snapshots, isRunning; per call a context | runTurn, run, shutdown; compress, autoCompact, takeSnapshot, rewind, clear | overlapping turns over one history, timeouts that abandon a call, compaction during a turn | results stand behind their calls and reach the LLM; nothing said is lost |
| turn manager, turn executor, interruption (`core/`) | registered hooks, pause state, one resume slot | execute, pause, resume, cancel, reset | two waiters on one slot; cancel against resume | whoever waits is resumed or rejected |
| event bus, event log (`core/`) | listener lists | on, emit | none (synchronous) | - |
| leader election over Redis (`distributed/LeaderElection.ts`, `RedisElectionBackend.ts`) | activeCampaigns, refresh timers; the key and the term in Redis | campaign, resign, refresh, getNextTerm, watch | get-then-write over the store, expiry between the two, refresh against resign | the key's holder leads, terms grow |
| work coordinator (`distributed/WorkCoordinator.ts`) | workItems; one lock key per item | register, claim, release, extend, abandon, recover, cleanup | the same races; recovery of an agent that is alive | an item has one worker at a time |
| distributed lock (`cross-cutting/DistributedLock.ts`) | locks, a local token counter; lock keys | acquire, release, extend, cleanupExpired | the same races; tokens of two processes | mutual exclusion up to expiry, fencing |
| agent registry, health monitor (`distributed/`) | agents in a store with TTL; health checks, failure history | register, heartbeat, update, unregister; check, recover | read-modify-write, stale clocks in a round of checks | an agent that lives is not recovered from, one that died is, once |
| agent message bus, in-memory transport (`distributed/`) | subscriptions, pendingRequests with timers | publish, request, respond, shutdown | timeout against a late reply, shutdown | a request is settled exactly once |
| circuit breakers, retry (`distributed/`, `cross-cutting/`) | state, counters, timestamps | execute, record, reset | results that arrive in another state than they left in | opens after failures, closes only after successful probes |
| limiters (`hub/RateLimiter.ts`, `cross-cutting/RateLimiter.ts`) | usage windows, concurrent; tokens, queue | check, track, start, end; acquire, enqueue, refill | check and count in different calls; a queue nobody serves | limits hold, waiters are served |
| agent hierarchy (`distributed/DistributedHierarchy.ts`) | parent and children maps over the registry | spawn, remove, orphans | several awaits per change | a forest |
| scheduling (`coordination/Scheduled..., Workflow..., External...`) | workflows, timers, executions, cursors | register, start, pause, resume, trigger, poll | overlapping runs and polls, timers nobody can clear | one timer per workflow, a stopped one does not run |
| versioned pool (`cross-cutting/WorkerPoolManager.ts`) | workers, queue, dlq | processNext, pauseWorker, resumeWorker, rollingUpdate, replayDLQ | status changes under a running task | one task per worker |
| parallel executor, agent graph (`cross-cutting/`) | results, edges, pause slot | executeAll, walk, pause, resume | failed dependencies; two walks on one slot | a task runs after its dependencies |
| memory, checkpoints, workflow registry (`cross-cutting/`), state manager (`core/`) | entries, offline queue, saves, steps; a file | set, merge, save, restore, add, remove, execute; persist, load | order of asynchronous saves, crashes between two writes, steps changed while they run | what was saved is found, each step runs once |
| runners, coordinator (`threading/`) | request tables, workers, message ports | spawn, call, terminate | exit against an answer | every call is settled |
| transports (`transports/`) | subscriptions, queues, connection state | publish, subscribe, close | reconnects, redelivery | subscribers get what is published |
| hub registries, tool security, sanitising, RBAC, sandbox, observability | maps, rule lists, counters | lookups and checks | none across awaits, or strings only | - |
| builders, container, adapters | configuration | build | none | - |

How they interact: `LeaseBasedElection` calls a lease backend and is told of
lost leases by its watchers; `FencingTokenGuard` asks the same backend before it
runs an operation. `WorkerPool` owns a `TaskQueue`, is driven by callbacks it is
configured with and drives the application through others. `AgentLoop` runs
`StepPipeline`, whose default steps share the `MessageManager` and call the LLM
provider and the `ToolExecutor`. `HealthMonitor` reads the `AgentRegistry` and has
the `WorkCoordinator` take work away from the dead; `LeaderElection`,
`WorkCoordinator` and `DistributedLock` meet only in Redis; registry, election and
monitor announce on the `AgentMessageBus`.

`PROJECT.json` lists each component with its files and status, and the hazards,
each at its line.

## 2. Plan

| step | modules | composes | questions (run) | theorems |
|---|---|---|---|---|
| 1, done | `FencedLock`, `LeaseBackend`, `LeaseElection` | backend + instances; refines `FencedLock` | fencing under any order of answers (`election`) | types, fencing, latest lease, refinement |
| 2, done | `LeaseTiming` | `LeaseElection` with clocks | who leads when (`timing`, `split_brain`) | types, a leader holds the live lease, one leader at a time |
| 3, done | `FencingGuard` | guard + backend | check against use (`locks`) | no older token after a newer one |
| 4, done | `TaskQueue`, `WorkerPool` | pool + queue | loss, double assignment, waiters (`pool`, `reconfigure`) | types, one place each, one task per worker, done once, work goes on, nothing lost |
| 5, done | `MessageManager`, `AgentLoop` | loop + pipeline + steps + history | overlapping turns, compaction, abandoned calls (`conversation`, `summary`) | types, results answer calls, cuts at the head, results are seen |
| 6, done | `RedisElection`, `WorkCoordinator`, `DistributedLock` | each with its keys in Redis; the last two share a run with the guard | what exclusion is left between expiry and non-atomic writes (`redis`, `redis_stray`, `locks`) | types, leaders have the key, items follow their locks, stale tokens refused |
| 7, done | `AgentRegistry`, `HealthMonitor`, `AgentMessageBus`, `DistributedHierarchy`, `RedisTransport`, `MemoryTransport`, `TabTransport`, `BroadcastCoordinator`, `VersionedPool`, `AgentGraph`, `MemoryStore` | the monitor over the registry; the others one at a time, several instances each (`MCFleet`) | who is gone stays gone, requests and messages are settled, orphans, replicas, work in hand (`fleet`) | types, all seven safety properties of `fleet` |
| 8, done | `Resilience`, `Runner`, `ParallelExecutor`, `RateLimiters`, `Scheduling`, `ArtifactTransfer`, `Persistence`, `WorkflowRegistry`, `TurnManager` | one at a time (`MCMachines`) | callers are answered, services served again, limits kept, nothing due is missed (`machines`) | types, all safety properties of `machines` |

Abstract specifications: `FencedLock` (done). The clients of step 6 get none: what they
promise together is less than a lock with lapses (section 7).

## 3. Modules

### Lease election

`LeaseBackend` is `InMemoryLeaseBackend`: one lease record, the fencing counter,
and what its watchers were told. Whether a lease is live, at the very
millisecond of its expiry, or past is its *phase*, because `acquire` and `renew`
use `<=` and `>` differently; `Age` is the passing of time. `Acquire`, `Renew`,
`Release`, `GetLease`, `Close` are the methods, used as conjuncts.

`LeaseElection` is `LeaseBasedElection`, several instances over one backend. A
call of the backend takes effect when it is issued; its answer is a *job* in a
slot of the instance until it is handled, lost, or turned into an exception.
Retry, attempt and grace timers are jobs too, so any order of answers and timers
is explored. The interval is the flag `ticking`. One action per method up to its
await, one per answer, one per timer, and `Restart` for a process that dies and
comes back under its `instanceId`. Time is not restricted here: a lease may age
at any moment. What holds here holds for every configuration.

`LeaseTiming` adds countdowns for the lease, the interval and every timer, and
bounds how late an answer is handled (`Latency`). The application may call
`releaseLease`, `stop` and `campaign` on an object in use (`Interrupts`): it is
`interrupted` then until it is at rest again or its process restarts, for the code itself
says it leads while the release is under way, and after one that failed.

`FencedLock` is what a backend promises in terms of owner, number of grants and
status; `LeaseElection` implements it under the mapping at its end.

`FencingGuard` is `executeWithToken` in three steps (call, the answer of
`getLease`, the operation) over `LeaseBackend`, with any number of clients.

### Clients of Redis

A command is executed when it is sent; what follows its answer comes later, after
anything else. Keys expire.

`RedisElection` is `LeaderElection` for one role with `RedisElectionBackend` and a
clock. An instance has its call (`call`), its refresh loop (`refresh`) and a
cancelled refresh that still has commands to send (`late`); each is a *job*: what it
waits for, the answer, the time left. `Campaign` to `Announced` are `campaign()`,
with `TriesAgain` and `WaitTimesOut` for `waitForLeadership()` (a plain `campaign()`
is a wait that times out at once); `RefreshFires` to `LeadershipLost` the loop of
`startLeadershipRefresh`; `Resign` to `ResignationKnown` and `Shutdown` the end. The
backend's two methods are `Ahead` (the command that follows an answer), `Won` and
`Lost`. A failing command may or may not have been executed; an answer may take
ticks, and so may an announcement, which may also fail (a handler of the bus or a
listener throws): the leader that announced itself then leads on without a refresh
(`unrefreshed`). All of these, and crashes, count as faults. Left out: watchers, queries, and the
value of the term, which nothing compares.

`WorkCoordinator` is one coordinator on one connection, on which answers come in
the order of the commands (`pipe`). An action per operation up to its first
command and one per answer; recovery and cleanup send a command for each item that
qualifies when they reach it (`Visit`). A command may reject, executed or not
(`Executes`, `Failing`): its operation, or the cleanup cycle, ends there
(`OperationFails`), and a lock that such a claim took is one its item knows nothing of
(`untold`) until it lapses or is deleted. Statuses `completed`, `failed` and `abandoned`
are one, `closed`. Locks lapse, and claims pass, at any moment.

`DistributedLock` is one key and an instance in each process, each on its own
connection, with one owner per process.

### Worker pool

`TaskQueue` has the queue, inFlight, completed and dead-lettered tasks and
attempts; `Dequeue`, `Complete`, `Fail`, `Push` are its methods. The queue is
sorted once, in the constructor; `submitTask` and retries push to its tail.

`WorkerPool` has a worker's place in its chain (idle, running a provider call, in
a callback after it), the flags of the pool, and the application's pending
calls. `AssignNextTask` is `assignNextTask` up to the provider call;
`TaskSucceeds` and `TaskFails` its continuation up to the user callback,
`CallbackReturns` and `CallbackThrows` the rest. Polling loops with a sleep
(`pause`, `stop`) are actions enabled by the condition they poll for. Constants
describe the environment: whether callbacks call `resume`, whether `stop` may be
called during `start`, what a loader may return. `start` may be called again, after a
stop, the end of the work or a load that failed (`loads` counts those that succeeded):
a new queue and new workers take the place of the old, and the tasks that waited are
dropped, which `NoTaskLost` excepts (`Restarts`). Left out is a `start` of a pool that runs
or has a busy worker (a `todo` in `WorkerPool.test.ts:595`): tasks under way would end on
the new queue.

### Conversation

`MessageManager` has the messages, each known by role, by the call and iteration
it belongs to, and by its place among the tool calls; snapshots; and what a
running summary has split off. Token counts are left open, so compaction may
happen at any moment. `AgentLoop` has calls of `runTurn` and `run`, each between
one await on the outside world and the next: `BeginIteration` covers the new
context, add-user-message and call-llm up to the provider; `LLMAnswers`,
`LLMFails` and `LLMTimesOut` the pipeline's reaction with retries and error mode;
`LateAnswer` an attempt the timeout abandoned, which still has the context in its
closure; `RecordResults` the return of all tools and add-tool-results. The
operations of the application come in between.

### Agents and what joins them

In the modules of this part and the next an action is what runs from one await, timer
or call from outside to the next, and whatever an await waits for is in a variable of
its own: a set or a function of calls under way.

`AgentRegistry` has the records in a backend with a time to live, and the registries
that share it, each with its heartbeat loops and its watch; a heartbeat or an update is a
read and a later write of what was read. `HealthMonitor` adds rounds, which judge agents by what they
read at their beginning, and the recoveries they wait for one after the other.
`DistributedHierarchy` has agents' parents, and spawns and reassignments of orphans,
each a record with the step it has reached: registering the child, taking the parent
out, putting it back. The registry may be shut down in between, and any announcement may
be rejected; the call then ends where it is.

`AgentMessageBus` has several buses over one in-memory transport: what each has
subscribed to and buffered for an agent, requests with their timers (`pending`), and
what is on its way (`sending`). `RedisTransport` has the kept messages, the connect()
and publish() calls that hold one while Redis is asked, and a connection that comes and
goes. `MemoryTransport` has patterns of topics and the publish() calls that call the
handlers in turn. `TabTransport` has each page's channels, of which every one hears all
others, those of its own page included; `BroadcastCoordinator` the tabs' views of each
other, their messages on the channel (in order per sender), and the leader's work.

`VersionedPool`, `AgentGraph` and `MemoryStore` are the pool with pausing and rolling
updates, walks along a graph that share one pause, and two stores that merge each
other's entries late, passing over those of the same version and value.

### Callers, timers, limits and files

`Resilience` is the shared breaker around retried calls whose lost attempts end late, and
the plain one beside it. `Runner` is all three runners behind their request tables:
`class` in the initial state says which, and an action that only one of them has is
guarded by it; the manager that lends them follows in the same module. `ParallelExecutor`
has the executeAll() calls under way over one count of running tasks. `RateLimiters` is
the token bucket and the hub's limiter, with windows as ages in ticks: the bucket also
serves those who give no agent id (`Nameless`), and at the hub a request may use any of
`Spent` tokens, whatever its estimate; all the hub's limits are set.

`Scheduling` has three parts: the scheduler's map from workflows to timers and, beside it,
the timers that tick, since a timer that is overwritten goes on; the service poller's
polls that overlap and outlive their registration; and the triggers' limits, deduplication
and debouncing with ages in ticks, and transforms that may throw (`Fumbles`). `ArtifactTransfer` has uploads, whose data is stored
before and listed after their await, and cleanups.

`Persistence` has the session's checkpoints, written under their version and then as the
latest, with a process that may die in between; and the state manager's file, which is
emptied when it is opened. `WorkflowRegistry` is an execution over the array of steps that
other calls sort and splice. `TurnManager` is a turn with its tools and hooks, any of
which may be missing or throw, null too, and results that JSON.stringify may throw at
(`TurnEnds`), and the controller of pauses.

## 4. Runs and bounds

| run | shows | bounds |
|---|---|---|
| `election` | tokens unique and ordered, stored lease is the latest, refinement of `FencedLock` | 2 instances (symmetric), 2 slots each, 2 grants, 2 renewal attempts, at most 3 jobs outstanding when a step is taken (`Bounded`), faults on |
| `timing` | a leader holds the live lease; campaigns end with a leader | 2 instances, 2 slots, 3 grants, TTL 8, interval 2, grace 3, 1 attempt, backoff 2, latency 1, one interruption of one of the instances |
| `split_brain` | two leaders at once (expected violation) | grace period 4, so an attempt can outlive it |
| `redis` | whoever leads holds the key but for the gaps of section 5; no key blocks the role; waiting candidates get a leader | 2 candidates, TTL 6, refresh 3, pause 1, 2 faults, no campaign by a leader |
| `redis_stray` | a leader without the key (expected violation) | as `redis` |
| `locks` | the guard never runs an older token after a newer one; a process refuses the tokens of its earlier grants; work items follow their locks; lapsed work is offered again | guard: 2 holders, 3 grants, 2 clients; lock: 2 processes with 2 and 1 acquisitions and commands under way; coordinator: 2 items, 2 agents, 2 commands under way; commands reject (2 of them while it matters) in behaviours where one command is under way at a time, or two of a single item |
| `pool` | one place per task, one task per worker, done once, work goes on, nothing lost, waiters answered | 2 workers, 3 tasks (loads of one or all three), 2 attempts, two callers of one call each, no callback that calls `resume()`, no `stop()` during `start()`, 2 loads, of new task objects |
| `reconfigure` | the configuration changes under a running task (expected violation) | as `pool` |
| `conversation` | results carry their call's id, cuts only at the head, the LLM sees the results | a turn of 2 iterations and a run of 1, 2 tool calls, 1 retry, 2 failing attempts (in the turn only), 1 operation of the application, or 2 if the first is a snapshot, 1 summary at a time, window of 2 |
| `summary` | a message lost to a summary (expected violation) | as `conversation` |
| `fleet` | agents, buses, transports, tabs, pool, graph and stores keep what several of them share right: see below | 1 agent and 1 answer under way, at 2 registries with their watches, or at one under a monitor with 2 overlapping rounds; 2 buses, 1 message, 1 request; 4 agents in a tree, 3 operations; 2 messages, 2 connects and 2 listeners on one Redis channel; 2 patterned subscriptions; 2 pages; 2 tabs, 1 item of work; 2 jobs on 2 workers with 2 tries; 4 nodes, 3 walks; 2 stores, 1 key, 3 writes of 2 values, or by 2 agents under vector clocks |
| `machines` | callers are answered, limits and books kept, nothing due is missed: see below | 2 callers, users or batchers each; thresholds of 2; 3 tasks; 2 requests in the queue of the bucket, 3 at the hub; 1 workflow with 3 timers; 2 polls over 2 items; 2 events; 2 artifacts; 2 runners; 3 saves and 1 crash; 3 steps; 2 persist() calls; 2 tool calls; 2 waiting loops |

`fleet` and `machines` choose one component in the initial state (`focus`), since their
components share no state; the states of the run are the sum of theirs. Their
properties:

- `GoneStaysGone`, `SilenceRecoveredOnce`: an unregistered agent is not revived by a
  heartbeat of the registry it was unregistered at (one of another registry under way may
  revive it, see section 7); a silence is recovered from once, however rounds overlap.
- `RequestsAreAnswered`: an unsettled request has a timer that settles it.
- `NobodyFallsOut`: whatever spawns and reassignments do side by side, an agent that
  nobody unregistered has a record, or is in the hands of a call that puts it back, unless
  the registry rejected its rewriting half way (section 7).
- `ReplicasAgree`: two tabs lead only while an announcement is under way; stores that
  have merged each other's entries hold the same value and version, but where their times
  and versions disagree, and the same entry unless both wrote that value as that version.
- `DeliveredAsDue`: no message vanishes from a bus or the Redis transport while it is
  kept or sent; who matches a topic hears it; nobody hears a message twice.
- `WorkStaysInHand`: a worker is given work out of turn only in the two ways of section
  7; no job is lost or doubled; a walk is stranded only when two waited at once.
- `ServedAgain`, `EverythingReturns`: see section 5.
- `NothingMissed`: pollers, timers, triggers, step executions and turns do what is due
  once, and checkpoints, persisted states, listed artifacts and waiting loops are found,
  but where calls overlap in a way the property names. A repeat of an event is dropped
  only if the event fired, waits, gave way to a later one, or had its transform throw; a
  turn ends in an error only for a cause the property names, and says which of its calls
  are answered by then.
- `WithinLimits`: the bucket's budget of a window, agents or not, and the account of each
  agent; the hub's tokens of a window, which pass the limit by no more than what as many
  requests can use as may run at once (`Concurrent * Max(Spent)`: the estimates bound
  nothing), and its count of requests under way; and the lending of runners.

Why they are enough: two instances and three grants give every order of losing,
regaining and overtaking a lease; two slots give two answers, or an answer and a
timer, in either order. The third outstanding job of the other instance is
enough for each pair of handlers to meet; the proofs of section 6 have no such
bound. Three tasks over two workers have a task waiting while both work, and a
retry overtaking it. In the conversation a window of 2 cuts between an assistant
message and each of its 2 results, and an overlapping run puts its messages
between the iterations of the turn; the run's initial messages are always one.

Two faults give a crash and a late answer, or a lost one that was executed and one
that was not; the TTL of 6 is the smallest that leaves a refresh of TTL/2 room for
both. Two commands under way on a connection are what it takes for an answer to be
overtaken by another operation's command; `locks` chooses one of its machines in
the initial state, since they share no state.

What the components of `fleet` and `machines` get wrong or right depends on two calls,
timers or instances that meet: each has two of whatever may overlap, and a third where
one must come between two others (timers of a workflow, requests at the hub's limit,
tasks that need each other, walks that share a pause, writes of two stores). Bounds on
operations are bounds in guards, all named as such in the modules' CONSTANTS.

The pool's queue and the lease's counter are exact; nothing is taken modulo
anything because the code's numbers do not get near 2^53.

Deadlock is checked where the system cannot stop (`timing`, `split_brain`); the
other systems come to rest, or run into their bounds.

## 5. Fairness and time

`timing`: what is due runs (the event loop), the clock ticks, and nothing is
promised of the application or of a holder that hangs: `CampaignsSucceed` holds
because leases age and refused campaigns are retried. The safety property of that
run needs `RenewalInterval + 2 * Latency + GracePeriod < LeaseTTL` and renewal
attempts that are over before the grace period is; timers are punctual in the
model. These two are `DurationsFit` of section 6. The property is about instances that
the application left alone: one whose lease is being released, or whose release failed,
answers true to `isLeader()` beside the next leader whatever the durations are, and so
may one whose campaign, release or stop crossed an answer under way. What is done to them
harms no other. `CampaignsSucceed` excepts the time in which some instance is
interrupted: the calls pile up more jobs than the slots of the run hold. The code's defaults (TTL 30 s, interval 10 s, grace 5 s, 5 attempts 1 s
apart) meet them as long as an answer takes less than 200 ms. With attempts that outlast
the grace period `split_brain` shows what goes wrong.

`redis`: answers come and what is due runs; time passes however often the
application calls (strong fairness of `Tick`); nothing is promised of the
application. `OnlyStrayLeadersMislead` needs TTL/2 to be longer than the delays of a
refresh, or of the announcement that comes before the first one (`PeriodsFit` of section 6,
with a unit for each fault); in the code TTL is 30 s. It excepts the leaders whose
announcement failed when no refresh ran (`unrefreshed`: `campaign()` rejects and
`isLeader()` stays true while the key runs out), those that asked to resign (of whom one
whose announcement fails answers true to `isLeader()` for good), and those whose key went
by an EXPIRE or DEL sent after a GET that was true no more (`strayed`).
`SomeoneLeads` rests on expiry, whoever crashed.

`locks`: `LapsedWorkReturns` assumes answers, a cleanup timer that fires, and clocks
that pass a claim's time; only while neither `stopCleanup()` nor a rejected command has
ended the cleanup cycle. `ItemFollowsLock` excepts locks taken by a claim that was told it
failed.

`pool`: `WaitersServed` assumes that provider calls and callbacks end (the pool's
own timeout sees to the first), that polling loops see a condition that stays
true, and that the application resumes what it paused; no task is submitted to a
pool nobody resumes. It is stated for callbacks that do not throw.

`machines`: fairness is stated in the run's module, action by action, and only for the
component in focus. Callers go on calling and attempts end (RetryStrategy's own timeout
sees to it), and ticks pass; nothing says that the service works, but `ServedAgain` is
about one that works from some time on. Of a runner only its own timers and the steps of
its own shutdown are fair, never an answer or an exit of the worker: `EverythingReturns`
rests on the request timers. Tasks of the parallel executor end, by their timeout at the
latest, and its calls go on where they can. The token bucket is refilled by whoever calls
tryAcquire(), so the run assumes that somebody does; without it queued requests wait for
good, as the code has no timer.

`conversation` and `fleet` have safety properties only.

## 6. Proofs

`LeaseTiming_proofs` proves first, of the election without clocks, for any sets of
instances and slots and any number of retries and attempts,

- `TypeCorrect`: the type invariant;
- `FencingSafety`: no two instances hold one token, and an instance whose lease
  passed to another has the smaller one;
- `LatestLeaseIsStored`: the stored lease is the latest grant;
- `ElectionImplementsFencedLock`: every step is a step of `FencedLock` or stutters.

The argument: `FencingSafe` says nothing about answers on their way, so it is not
inductive. `IInv` adds that the store is well-formed (`StoreOK`: the lease's token
is at most the counter and the latest grant's is the counter), that no token known
or under way exceeds the counter, and that a token is known to one instance only,
whether it holds it or waits for the answer that brings it. A grant gives a number
above all of these, and all other handlers only forget tokens or move them from
a job to `cur`. The store's steps are dealt with once (`StoreStep`), and one lemma
covers each handler. Constants are assumed only what the modules' ASSUMEs say.

`WorkerPool_proofs` proves, for any number of workers, tasks, attempts, callers
and calls,

- `PoolTypes`: the type invariant;
- `TasksInOnePlace`, `WorkersHaveOneTask`, `PoolCompletesOnce`, `NoTaskIsLeft`:
  the four safety invariants of the run `pool`;
- `PoolLosesNoTask`: its action property, restarts excepted.

Each assumes `~ResumeInCallback` and `~StopDuringStart`: a callback that calls
`resume()` and a `stop()` that meets `start()` break them in the code (section 7).
The invariants lean on each other and on four more facts, together `IInv`: the
worker whose callbacks run is idle (`CallbackIdle`), so it may be given a task;
nobody works until the loader has answered (`RestsUnlessLoaded`), so the load can
replace everything; while `stop()` waits nobody begins to work (`StopWaits`), so its
reset of the workers changes nothing; a running pool has tasks left (`RunsForWork`),
so a submitted task never waits alone. `assignNextTask` for several workers is dealt
with once: the served workers map one to one onto the first places of the queue
(`ServedPlaces`, by counting), so `AssignKeepsPlaces` holds for every set of idle
workers, and one lemma covers each action.

and then, with clocks, for any durations and any number of instances and slots,

- `TimedTypeCorrect`: the types, the countdowns' ranges among them;
- `LeadersHaveTheLease`: a leader that was left alone holds the stored lease, and it is
  live;
- `NoSplitBrain`: of the instances left alone one leads at a time.

The last two assume `DurationsFit` (section 5), which the constants of `timing` meet and
those of `split_brain` do not. The invariant is the election's `IInv` with `CourseInv`:
wherever a leader is between two renewals (waiting for the interval, for an answer, for
the next attempt, in its grace period), the time left to the lease exceeds what may still
pass until the instance renews or steps down. Nothing is said of an interrupted instance,
only that its calls leave a live lease of another as it is (`OthersAreSpared`). `AttemptsFit` turns the number of attempts
into the time they take.

`RedisElection_proofs` proves, for any candidates, periods and number of faults,

- `ElectionIsOfItsTypes`: the types;
- `LeadersHaveTheKey`: who leads without the key got there through one of the gaps
  that `OnlyStrayLeadersMislead` names, if `PeriodsFit`: a refresh period and the
  faults there may be are less than the TTL.

Its invariant `Courses` says for each instance that its refresh loop sends the next
command before the key's end whatever is still to be delayed, that the key of a winning
call or announcement lasts to the first refresh, that who is elected or leads has the key
but for strays, and that a leader has its refresh loop or is about to start it.

`Locks_proofs` proves the safety properties of `locks`, for any clients, processes, items
and agents: `LocksAreTyped`; `StaleLeadersAreFenced` (an action property: the guard runs
no older token after a newer one); `EarlierTokensAreRefused`; `LockedWorkIsNotOffered`.
Behind them: what a request found is a token of the store, no older than any an operation
had run with when it asked (`RequestsFoundNewest`); the tokens granted to a process, those
in its commands under way and its counter are in order (`TokensInOrder`); and the last
answer under way about a locked item is the one that gives it to the lock's owner, or the
item is already in progress for it (`LocksAreFollowed`), which rests on the order of
answers on the one connection.

`AgentLoop_proofs` proves the invariants of `conversation`, for any runs, calls,
iterations, retries, windows and error modes: `LoopIsTyped`, `ResultsAreTheirCalls`,
`CutsAreAtTheHead`, `ResultsAreSeen`. `LoopInv` is the types with what holds of the
history (`ConversationInv`: what the system says comes first, a tool result stands behind
its call or the call's earlier results and carries its id, in the messages, the snapshots
and what a summary under way keeps alike) and of each call (`RunOK`: what it waits for
against its context and against the results recorded so far). The lemmas about
`MessageManager` say what its cuts, compressions and rewinds keep.

`Agents_proofs` and `Fleet_proofs` prove the properties of `fleet`, each for the module
it is about, and then together for the run's specification:

- `GoneAgentsStayGone`, `RecoveredOncePerSilence`: registries and monitor, for any
  registries, agents, rounds and times to live; the heartbeats under way of an agent were
  cancelled at the registry it was unregistered at (`GoneBeatsAreCancelled`);
- `RequestsAreNeverForgotten`, `MessagesAreKept`: message bus;
- `AgentsStayInHierarchy`: hierarchy;
- `AcceptedMessagesAreKept`, `MatchingSubscriptionsHear`, `NotesAreHeardOnce`: Redis,
  in-memory and tab transports; `TabsAgreeOnALeader`: coordinator of tabs;
- `PoolKeepsTasks`, `WorkersTakeTurns`: versioned pool; `WalksAloneGoOn`: graph;
  `MergedStoresAgree`: stores, where a store under a key is the newer of what the two
  last wrote once it has merged (`OneStepBehind`), and the newer of two is the same
  either way round, or one the merge does not tell from it (`MergeIsJoin`);
- `FleetIsTyped`, `ReplicasConverge`, `MessagesAreDelivered`, `WorkGoesOnInHand`: the
  run's own properties, since a step of the run is a step of one part and leaves the
  others alone (`PartsOfTheFleet`).

Assumptions on constants are those of the modules' ASSUMEs: message kinds that are
disjoint (`PageAssumption`), finite sets where the code counts or waits for them
(`LinkAssumption`, `PoolAssumption`, `GraphAssumption`), patterns whose `>` comes last
(`MemoryAssumption`), sentinels that are no one's name (`HierarchyAssumption`), the two
stores that meet (`StoreAssumption`), and the role of the prompt and of a summary
(`SystemAssumption`).

`Machines_proofs` proves the safety properties of `machines`, each for its component, for
any numbers of callers, tasks, runners, requests, items, saves and steps, and then for the
run's specification, a step of which is a step of one part (`PartsOfTheMachines`):

- `BudgetIsKept`, `LimiterIsBounded`, `LentToOneAtATime`: token bucket, hub limiter, runner
  manager; together `LimitsAreKept`;
- `OnlyStraysTick`, `PollerSkipsNothing`, `RepeatsHadTheirSay`: scheduler, poller, triggers;
  `ListedArtifactsAreHeld`, `TakenCheckpointsAreFound`, `PersistedStateIsKept`: stores;
  `StepsAreRunOnce`: step registry; `TurnsAnswerCalls`, `WaitersHoldTheSlot`: turns and
  pauses; together `NothingIsMissed`;
- `MachinesAreTyped`: the types of all parts, breakers, runner and executor included.

What the invariants add to the properties:

- bucket: the line holds queued tickets only, each once, and the books
  (tokens given, accounts, age of the window) balance in the middle of a step, too;
- limiter: what a window holds and the most that the requests under way may still add to
  it stay within the bound (`Overrun`); when a request is let in, what counts is within the
  limit, and at most one fewer than may run at once are under way;
- runner manager: each entry's workload is the number of its users, and a runner is listed
  once (`BooksAreKept`); runner: each restart that is due has a worker that exited
  (`RestartsAreDue`), so the counts of restarts and of live workers stay bounded;
- scheduler: a timer that has not gone astray is the one in the map of a registered
  workflow (`TimersAreMapped`); poller: no two polls of a term run beside each other unless
  the term is marked, and what a poll starts from was handed over (`Accounted`);
  triggers: a repeat had its say while the service is stopped, too (`HadTheirSay`);
- checkpoints: what is under a version or the latest is the save itself, a later one, or
  one whose commands crossed it (`VersionsCover`, `LatestCovers`), and a write on its way
  crossed all later saves (`Crossed0`);
- state file: a call that still waits overlaps every later one begun meanwhile (`Calls`),
  and nobody writes who was not called (`Written`);
- turns: each result was booked for the call at its place, under what the hooks did by then
  (`Booked`, `Excused`, `InTurn`), and nothing that ends a turn in an error has happened while
  it runs (`NothingEnded`);
- step registry: `FairWalk` counts the members the walk passed without running them (at most
  one for each removal) and the steps it ran that are ahead of it again (at most one for
  each addition): an edit shifts every step by at most one place.

Under these lie lemmas about the operators of the community modules, which have recursive
definitions: a function defined by recursion on numbers or finite sets exists and unfolds
(`RecursionOnNat`, `RecursionOnSets`), so a sum unfolds, grows, and changes with one summand
(`SumUnfolds`, `SumOfOneChange`, `SumIsBounded`), a fold whose step stays in a set stays in
it (`FoldStays`), and a list sorted by counting who goes ahead of each is a rearrangement in
order (`RanksSort`, for `ByUrgency` and `ByPriority`). Induction is done on sets of numbers
or of sets (`NatUpwards`, `SetsUpwards`), elsewhere in the project by a least
counterexample. Assumed of the constants is what the modules' ASSUMEs say: finite sets where
the code counts or sorts their members (`ManagerAssumption`, `BucketAssumption`,
`LimiterAssumption`, `SchedulerAssumption`), sentinels that are no
one's name (`ManagerAssumption`, `SchedulerAssumption`, `TriggerAssumption`,
`TurnAssumption`, and `ArtifactAssumption`, where "no" marks what is not listed), and
numbers where the code has numbers.

Only model-checked: `CampaignsSucceed`, `KeyHolderLeads`, `SomeoneLeads`,
`LapsedWorkReturns`, `WaitersServed`, `ServedAgain` and `EverythingReturns`, which are
liveness and beyond the prover with their fairness and ENABLED. Every safety property of
the passing runs is stated by a theorem. Of the executor's order of tasks
(`ResolveDependencies`) it is proved that it is a list of tasks (`VisitStays`), not that
dependencies come first: the code does not promise that for cycles, and `executeAll` waits
for what is unmet wherever it stands.

## 7. Disagreements with the repository's own words

Shown by runs (see `findings`): `split_brain`, `redis_stray`, `reconfigure`,
`summary`. Noticed without a run:

- A guarded operation may be a former leader's when the lease moves between the
  guard's query and its answer, although `hub/FencingTokenGuard.ts:8-9` has only
  the current leader's accepted; `FencedAfterNewerRan` is what holds.
- `RedisElectionBackend.resign` may delete the next leader's key; a refresh that
  fails after it was cancelled unhooks its successor; an announcement that fails leaves
  a leader without a refresh, and one that asked to resign leading for good; a campaign under way during
  `resign()` or `shutdown()` leads afterwards; a term may be given twice; with a
  `value` other than the agent's id a leader neither refreshes nor resigns.
- `WorkCoordinator.releaseWork`, `abandonWork` and `recoverWorkFromDeadAgent` may
  delete a lock another agent was just granted, who is told so; `claimWork` takes
  completed items; a Redis error ends the cleanup cycle, and one after SET NX leaves an
  item on offer with its lock taken.
- `DistributedLock`'s tokens count the attempts of one process, so across processes
  they are not "monotonically increasing" (`cross-cutting/DistributedLock.ts:23`);
  `extend` overwrites, and `cleanupExpired` deletes, a lock that has changed hands.

- `getLease()` and `getFencingToken()` answer in state 'campaigning' too
  (`hub/LeaseBasedElection.ts`), and a refused campaign without retries stays in
  it, although `hub/LeaseTypes.ts` describes it as under way.
- `getLease()` of the backend deletes an expired lease without telling watchers.
- `stop()` cancels neither retry nor attempt timers; a stopped instance may
  campaign again. When a release fails, the instance leads on with no renewal.
- `onTaskFailed` is documented for a task that "fails permanently"
  (`coordination/WorkerPool.ts:35`) and is called for every failed attempt (344).
- `dequeue` promises the highest-priority task; submitted and retried tasks go
  to the tail whatever their priority.
- `start()` again drops the tasks that still wait, and one of a running pool leaves the
  tasks under way to end on the new queue, which does not know them.
- A loader that returns nothing leaves waiters unanswered; `stop()` during
  `start()` is undone; a callback that calls `resume()` gets a worker two tasks; an
  auto-resume timer of an earlier pause ends a later one; abandoned provider
  calls run on beside `maxConcurrent` others.
- An LLM answer that arrives after its step's timeout replaces the response the
  tools of a retry are being run for; results are then filed under its ids.
- The first `run()` to end, and `shutdown()`, end all other `run()` calls.


Registry, bus, hierarchy:

- Records expire after their time to live, and the watch reports an agent only after
  twice that; the health monitor's default timeout (60 s) is beyond the registry's
  default time to live (30 s). An update under way brings an unregistered agent back, and
  so does a heartbeat under way at another registry of the same backend
  (`distributed/AgentRegistry.ts:302`), where unregister() does not reach its loop: from
  then on that loop keeps the agent alive.
- A bus's handlers on the transport survive unsubscribe() and shutdown(); a message that
  the transport delivers elsewhere is also buffered at its sender.
- Two spawns of one parent at once lose a child from its list of children, and the
  second throws although its child is registered. `unregister()` deletes before it
  announces, and `register()` throws after a shutdown: a spawn then ends with the parent
  without a record, and a reassignment with the orphan without one
  (`distributed/DistributedHierarchy.ts:119`, `256`); nobody puts it back.

Transports and tabs:

- Connecting again wires only the last of several subscriptions of a channel; ending one
  ends the others; new messages overtake those kept (`transports/RedisPubSubTransport.ts`).
- A tab subscribed to a topic takes its own request for the answer to it
  (`transports/BroadcastChannelTransport.ts:156-165`).
- A leading tab never hears its own claims; its queue is never drained; when it leaves
  nobody is elected, and a tab newly opened leads until it hears of another.

Runners and execution:

- Overlapping or failing initialize() calls leave a worker nobody ends; a restart timer
  set before shutdown() starts a process after it; a child that answers SHUTDOWN and
  stays is not killed, although `threading/ChildProcessRunner.ts:242-245` promises it.
- releaseRunner() during a shutdown makes the runner idle again; a failed shutdown leaves
  it in status "shutdown".
- rollingUpdate() marks a worker and pauseWorker() overwrites the mark, so it is idle
  again when its task ends; resumeWorker() gives a working worker a second task.
- One resolver serves all walks of an agent graph: the first of two that wait is
  stranded. executeAll() may wait for good for slots another call holds; failed
  dependencies count as met.
- Removing the step that runs, or one before it, makes `WorkflowRegistry.execute` skip the
  next; adding one before it runs it twice.
- In `core/TurnManager.ts` a hook that throws after its tool has worked makes the LLM hear
  of an error; what onError returns is not used, although line 69 says it is; two calls of
  one id get one answer. A result that JSON.stringify throws at (`147`) ends the turn with
  the calls before it answered, a thrown null or undefined (`45`) or an onError that throws with
  none, and a response without usage (`126`) fails. Of two loops waiting in `core/InterruptionController.ts` one is
  forgotten, and reset() forgets the other.

Timers, limits, stores:

- A second register() or resume() leaves a timer of a workflow that nobody can stop.
  Overlapping polls deliver twice and move the cursor back; a handler that throws never
  counts towards maxErrors. Repeats use up a trigger's rate limit, and an event that was
  replaced while it waited still makes its repeats be dropped, and so does one whose
  transform threw and that never fired (`coordination/WorkflowTriggerManager.ts:211`, `214`).
- The plain circuit breaker counts successes in every state. A queued request of the token
  bucket waits for somebody else's tryAcquire(); reset() drops it unanswered.
- The hub limiter counts a request twice and takes it off once, so `concurrent` only grows;
  it checks estimates, which are 0 by default, and never what will be used.
- Uploads share the caller's accessibleBy array. Merges undo deletions, and two merges that
  cross with tied times swap the stores' entries; stores that wrote the same value as the same version
  keep different entries of it, with another agent and time
  (`cross-cutting/MemoryStore.ts:166-168`). A hub started during a stop() is
  named after it failed (`hub/HubElection.ts`).
- A restarted process numbers its checkpoints from 1 again, over the old ones in Redis;
  restore() prefers what Redis has, even a transient or older checkpoint; failed writes
  are not reported. persist() calls that cross leave the older state; load() overwrites
  what was set while it waited. `core/TurnExecutor.ts` drops the errors of tools.

Hazards no property covers: a refresh that fails after it was
cancelled (`distributed/LeaderElection.ts:273`), extend() of a lock that has changed hands
(`cross-cutting/DistributedLock.ts:123`), a release that fails
(`hub/LeaseBasedElection.ts:161`), the flag that run() calls share
(`core/AgentLoop.ts:187`), and callbacks, empty loads and stops at the worker pool
(`coordination/WorkerPool.ts:334`, `110`, `102`).

## 8. Not modelled

Builders, dependency injection, registries of models and tools, role checks, string
matching (tool security, sandbox, validators, sanitiser), schemas, the event bus and log,
error tables and metrics: they have no state that outlives a call, or synchronous maps,
lists and counters. `HubElection` is a facade whose operations mostly throw; the turn
executor is a straight line. The NATS transport is a stub that throws.
In the modelled components: token estimates and contents of messages, wording of
errors, events nobody in the library listens to, statistics, timestamps that only report,
cron expressions, and the operations named in `PROJECT.json` as left out.
`MessageManager.importState` and `setMaxSnapshots`, and registration and reordering
of steps and tools, are configuration done before the first turn.

Error paths left out because no property rests on them or tells them apart: a Redis command
of the lock that rejects (`cross-cutting/DistributedLock.ts:70`, `101`, `127`: no token is
granted); a subscription that fails and a disconnect half done
(`transports/RedisPubSubTransport.ts:63`, `93`); a second rollingUpdate() while one runs
(`cross-cutting/WorkerPoolManager.ts:212`); a task that rejects with no Error, at which
executeTask() itself throws (`cross-cutting/ParallelExecutor.ts:175`); a listener of
'upload-progress' that throws (`hub/ArtifactTransfer.ts:343`); an event that cannot be
written down as the key of its repeats (`coordination/WorkflowTriggerManager.ts:205`).
