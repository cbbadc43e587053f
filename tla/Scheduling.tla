------------------------------ MODULE Scheduling ------------------------------
(* What starts workflows (src/coordination/): timers, polls and event triggers. *)
EXTENDS Naturals, FiniteSets, FiniteSetsExt

-----------------------------------------------------------------------------
(* Scheduled workflows (src/coordination/ScheduledWorkflowRunner.ts): one timer *)
(* per workflow is kept in a map, which register() and resume() overwrite; a    *)
(* timer runs the definition it was made for. Results and events are left out;  *)
(* a cron expression is an interval.                                            *)
CONSTANTS
  Workflow,     \* workflow ids
  Handle,       \* timers; one is made anew when it is over and forgotten
  NoHandle,
  MaxHistory,   \* maxHistoryPerWorkflow
  MaxRuns       \* bound: runs of a workflow under way

ASSUME SchedulerAssumption ==
  /\ NoHandle \notin Handle /\ {MaxHistory, MaxRuns} \subseteq Nat
  /\ IsFiniteSet(Workflow) /\ IsFiniteSet(Handle)

VARIABLES
  defined,      \* workflows: id -> type and enabled, or "no"
  handles,      \* timers: id -> handle, which may have fired
  ticking,      \* timers that will fire: handle -> workflow and type, or "no"
  scheduling,   \* running
  halted,       \* paused
  underWay,     \* runs under way of each workflow
  recorded,     \* history: its length for each workflow
  astray        \* history: timers overwritten in the map, or set for a paused workflow

scheduleVars == <<defined, handles, ticking, scheduling, halted, underWay, recorded, astray>>

Schedule == [type : {"interval", "once"}, enabled : BOOLEAN]
No == [type |-> "no", enabled |-> FALSE]
Idle == [of |-> "no", type |-> "no"]
Known == {w \in Workflow : defined[w] # No}
Ticking == {h \in Handle : ticking[h] # Idle}
FreeHandle == {h \in Handle \ astray : ticking[h] = Idle /\ \A w \in Workflow : handles[w] # h}

ScheduleInit ==
  /\ defined = [w \in Workflow |-> No] /\ handles = [w \in Workflow |-> NoHandle]
  /\ ticking = [h \in Handle |-> Idle] /\ scheduling = FALSE /\ halted = {}
  /\ underWay = [w \in Workflow |-> 0] /\ recorded = [w \in Workflow |-> 0] /\ astray = {}

\* scheduleWorkflow for each of ws, with its definition, in a new timer.
ScheduleWorkflows(ws, definition) ==
  \E hs \in kSubset(Cardinality(ws), FreeHandle) :
    LET of == CHOOSE f \in [ws -> hs] : \A h \in hs : \E w \in ws : f[w] = h IN
    /\ handles' = [w \in Workflow |-> IF w \in ws THEN of[w] ELSE handles[w]]
    /\ ticking' = [h \in Handle |-> IF \E w \in ws : of[w] = h
                     THEN LET w == CHOOSE w \in ws : of[w] = h IN [of |-> w, type |-> definition[w].type]
                     ELSE ticking[h]]
    /\ astray' = astray \cup ({handles[w] : w \in ws} \cap Ticking) \cup {of[w] : w \in ws \cap halted}

\* clearTimer for each of ws.
Clears(ws) == [h \in Handle |-> IF \E w \in ws : handles[w] = h THEN Idle ELSE ticking[h]]
ClearTimers(ws) ==
  /\ ticking' = Clears(ws)
  /\ handles' = [w \in Workflow |-> IF w \in ws THEN NoHandle ELSE handles[w]]
  /\ astray' = astray

\* An id that is registered again gets a second timer, and an empty history.
RegisterWorkflow(w, d) ==
  /\ defined' = [defined EXCEPT ![w] = d] /\ recorded' = [recorded EXCEPT ![w] = 0]
  /\ IF scheduling /\ d.enabled THEN ScheduleWorkflows({w}, defined') ELSE UNCHANGED <<handles, ticking, astray>>
  /\ UNCHANGED <<scheduling, halted, underWay>>
UnregisterWorkflow(w) ==
  /\ w \in Known /\ ClearTimers({w})
  /\ defined' = [defined EXCEPT ![w] = No] /\ halted' = halted \ {w}
  /\ UNCHANGED <<scheduling, underWay, recorded>>

StartRunner ==
  /\ ~scheduling /\ scheduling' = TRUE
  /\ ScheduleWorkflows({w \in Known \ halted : defined[w].enabled}, defined)
  /\ UNCHANGED <<defined, halted, underWay, recorded>>
StopRunner ==
  /\ scheduling /\ scheduling' = FALSE /\ ClearTimers(Workflow)
  /\ UNCHANGED <<defined, halted, underWay, recorded>>
PauseWorkflow(w) ==
  /\ w \in Known /\ halted' = halted \cup {w} /\ ClearTimers({w})
  /\ UNCHANGED <<defined, scheduling, underWay, recorded>>

\* Whether it was paused, or enabled, is not asked.
ResumeWorkflow(w) ==
  /\ w \in Known
  /\ halted' = halted \ {w}
  /\ IF scheduling
     THEN \E h \in FreeHandle :
            /\ handles' = [handles EXCEPT ![w] = h]
            /\ ticking' = [ticking EXCEPT ![h] = [of |-> w, type |-> defined[w].type]]
            /\ astray' = astray \cup ({handles[w]} \cap Ticking)
     ELSE UNCHANGED <<handles, ticking, astray>>
  /\ UNCHANGED <<defined, scheduling, underWay, recorded>>

StartsRun(w) == underWay[w] < MaxRuns /\ underWay' = [underWay EXCEPT ![w] = @ + 1]
RunNow(w) ==
  /\ w \in Known /\ StartsRun(w)
  /\ UNCHANGED <<defined, handles, ticking, scheduling, halted, recorded, astray>>

\* Runs overlap; an interval of a paused workflow does nothing.
TimerRuns(h) ==
  /\ h \in Ticking
  /\ IF ticking[h].type = "interval" /\ ticking[h].of \in halted THEN UNCHANGED underWay ELSE StartsRun(ticking[h].of)
  /\ IF ticking[h].type = "once"
     THEN ticking' = [ticking EXCEPT ![h] = Idle] /\ astray' = astray \ {h}
     ELSE UNCHANGED <<ticking, astray>>
  /\ UNCHANGED <<defined, handles, scheduling, halted, recorded>>

\* Mutant: the history is not cut.
Uncut(n) == n + 1
Recorded(n) == IF n < MaxHistory THEN n + 1 ELSE n
\* The run is recorded for an unregistered workflow, too.
RunEnds(w) ==
  /\ underWay[w] > 0 /\ underWay' = [underWay EXCEPT ![w] = @ - 1]
  /\ recorded' = [recorded EXCEPT ![w] = Recorded(@)]
  /\ UNCHANGED <<defined, handles, ticking, scheduling, halted, astray>>

ScheduleNext ==
  \/ StartRunner \/ StopRunner
  \/ \E w \in Workflow : \/ UnregisterWorkflow(w) \/ PauseWorkflow(w) \/ ResumeWorkflow(w) \/ RunNow(w) \/ RunEnds(w)
                         \/ \E d \in Schedule : RegisterWorkflow(w, d)
  \/ \E h \in Handle : TimerRuns(h)

ScheduleTypeOK ==
  /\ defined \in [Workflow -> Schedule \cup {No}] /\ handles \in [Workflow -> Handle \cup {NoHandle}]
  /\ \A h \in Handle : ticking[h] = Idle \/ (ticking[h].of \in Workflow /\ ticking[h].type \in {"interval", "once"})
  /\ scheduling \in BOOLEAN /\ halted \subseteq Workflow /\ astray \subseteq Handle
  /\ underWay \in [Workflow -> 0 .. MaxRuns] /\ recorded \in [Workflow -> 0 .. MaxHistory]

(* No timer of a workflow ticks once the runner was stopped or the workflow   *)
(* unregistered or paused, whatever the order of those calls, but for one     *)
(* that a second register() or resume() pushed out of the map, or that was    *)
(* set by registering a paused workflow again: nothing stops those any more.  *)
OnlyStrayTimersTick ==
  \A h \in Ticking : ~scheduling \/ ticking[h].of \in halted \/ ticking[h].of \notin Known => h \in astray

-----------------------------------------------------------------------------
(* Polling an external service (src/coordination/ExternalServicePoller.ts), one *)
(* poller whose source lists the items 1, 2, ...: a poll that is still under    *)
(* way when the interval fires again overlaps with the next, and outlives       *)
(* stop(), unregister() and a new registration of the same id. Every answer has *)
(* a cursor. Counts for the status, other than that of errors, are left out.    *)
CONSTANTS
  Poll,        \* calls of poll()
  MaxItems,    \* bound: items the source ever has
  MaxErrors,   \* maxErrors
  MaxTerms     \* bound: registrations

ASSUME PollerAssumption == MaxErrors \in Nat \ {0} /\ {MaxItems, MaxTerms} \subseteq Nat

VARIABLES
  source,      \* items of the service so far
  status,      \* of the registered poller: its registration (0: none), cursor, errors; running
  clocked,     \* its interval timer
  polling,     \* running
  polls,       \* calls of poll() under way: the status object they write, the cursor they passed
  olds,        \* status objects of former registrations: cursor and errors
  handed,      \* history: items given to onItems, per registration
  twice        \* history: registrations with overlapping polls or a handler that threw

pollerVars == <<source, status, clocked, polling, polls, olds, handed, twice>>

Term == 1 .. MaxTerms
Fresh1 == [cursor |-> 0, errors |-> 0]
NotPolling == [term |-> 0, from |-> 0]
UnderWay == {p \in Poll : polls[p] # NotPolling}
ObjectOf(t) == IF t = status.term THEN [cursor |-> status.cursor, errors |-> status.errors] ELSE olds[t]

PollerInit ==
  /\ source = 0 /\ status = [term |-> 0, cursor |-> 0, errors |-> 0, running |-> FALSE]
  /\ clocked = FALSE /\ polling = FALSE /\ polls = [p \in Poll |-> NotPolling]
  /\ olds = [t \in Term |-> Fresh1] /\ handed = [t \in Term |-> {}] /\ twice = {}

\* executePoll up to its await.
ExecutePoll(s) ==
  \E p \in Poll \ UnderWay :
    /\ polls' = [polls EXCEPT ![p] = [term |-> s.term, from |-> s.cursor]]
    /\ twice' = IF \E q \in UnderWay : polls[q].term = s.term THEN twice \cup {s.term} ELSE twice
StartPoller(s) == status' = [s EXCEPT !.running = TRUE] /\ clocked' = TRUE /\ ExecutePoll(s)
StopPoller == status' = [status EXCEPT !.running = FALSE] /\ clocked' = FALSE

RegisterPoller ==
  /\ status.term = 0
  /\ \E t \in Term :
       /\ handed[t] = {} /\ t \notin twice /\ olds[t] = Fresh1 /\ \A p \in UnderWay : polls[p].term # t
       /\ LET new == [term |-> t, cursor |-> 0, errors |-> 0, running |-> FALSE] IN
          IF polling THEN StartPoller(new) ELSE status' = new /\ UNCHANGED <<clocked, polls, twice>>
  /\ UNCHANGED <<source, polling, olds, handed>>

UnregisterPoller ==
  /\ status.term # 0
  /\ status' = [term |-> 0, cursor |-> 0, errors |-> 0, running |-> FALSE] /\ clocked' = FALSE
  /\ olds' = [olds EXCEPT ![status.term] = ObjectOf(status.term)]
  /\ UNCHANGED <<source, polling, polls, handed, twice>>

StartService ==
  /\ ~polling /\ polling' = TRUE
  /\ IF status.term = 0 THEN UNCHANGED <<status, clocked, polls, twice>> ELSE StartPoller(status)
  /\ UNCHANGED <<source, olds, handed>>
StopService ==
  /\ polling /\ polling' = FALSE /\ StopPoller
  /\ UNCHANGED <<source, polls, olds, handed, twice>>

IntervalFires ==
  /\ clocked /\ ExecutePoll(status)
  /\ UNCHANGED <<source, status, clocked, polling, olds, handed>>

SourceGrows == source < MaxItems /\ source' = source + 1 /\ UNCHANGED <<status, clocked, polling, polls, olds, handed, twice>>

Writes(t, object) ==
  IF t = status.term
  THEN status' = [status EXCEPT !.cursor = object.cursor, !.errors = object.errors] /\ UNCHANGED olds
  ELSE olds' = [olds EXCEPT ![t] = object] /\ UNCHANGED status
PollOver(p) == polls' = [polls EXCEPT ![p] = NotPolling] /\ UNCHANGED <<source, polling>>

\* The source answers with some items after the cursor it was asked with: they
\* are handed over, and then the cursor moves, wherever it is by now.
PollAnswered(p) ==
  /\ p \in UnderWay
  /\ \E last \in polls[p].from .. source :
       /\ handed' = [handed EXCEPT ![polls[p].term] = @ \cup (polls[p].from + 1 .. last)]
       /\ Writes(polls[p].term, [cursor |-> last, errors |-> 0])
  /\ PollOver(p) /\ UNCHANGED <<clocked, twice>>

\* An error is counted; too many disable the poller that has the id by now.
ErrorCounted(t, before) ==
  LET n == before + 1
      counted == IF n > MaxErrors THEN MaxErrors ELSE n IN
  IF n < MaxErrors THEN Writes(t, [ObjectOf(t) EXCEPT !.errors = counted]) /\ UNCHANGED clocked
  ELSE /\ clocked' = FALSE
       /\ status' = IF t = status.term THEN [status EXCEPT !.errors = counted, !.running = FALSE]
                    ELSE [status EXCEPT !.running = FALSE]
       /\ olds' = IF t = status.term THEN olds ELSE [olds EXCEPT ![t].errors = counted]

PollFails(p) ==
  /\ p \in UnderWay /\ ErrorCounted(polls[p].term, ObjectOf(polls[p].term).errors)
  /\ PollOver(p) /\ UNCHANGED <<handed, twice>>

\* onItems throws over the items: all of them come again. The errors were set to
\* zero before, so that this alone disables no poller with a limit above one.
\* Mutant: the cursor has moved by then.
MovedOn(p, last) ==
  Writes(polls[p].term, [cursor |-> last, errors |-> 1]) /\ UNCHANGED clocked
StaysBehind(p, last) == ErrorCounted(polls[p].term, 0)
HandlerThrows(p) ==
  /\ p \in UnderWay /\ source > polls[p].from
  /\ StaysBehind(p, source) /\ twice' = twice \cup {polls[p].term}
  /\ PollOver(p) /\ UNCHANGED handed

PollerNext ==
  \/ RegisterPoller \/ UnregisterPoller \/ StartService \/ StopService \/ IntervalFires \/ SourceGrows
  \/ \E p \in Poll : PollAnswered(p) \/ PollFails(p) \/ HandlerThrows(p)

PollerTypeOK ==
  /\ source \in 0 .. MaxItems /\ {clocked, polling} \subseteq BOOLEAN /\ twice \subseteq Term
  /\ status \in [term : 0 .. MaxTerms, cursor : 0 .. MaxItems, errors : 0 .. MaxErrors, running : BOOLEAN]
  /\ polls \in [Poll -> [term : 0 .. MaxTerms, from : 0 .. MaxItems]]
  /\ olds \in [Term -> [cursor : 0 .. MaxItems, errors : 0 .. MaxErrors]]
  /\ handed \in [Term -> SUBSET (1 .. MaxItems)]

(* Polls overlap, answer late and out of order, fail, and their handler may   *)
(* throw: the cursor never stands past an item that was not handed over.      *)
NothingSkipped == status.term # 0 => 1 .. status.cursor \subseteq handed[status.term]
(* It may stand before one that was, which then comes again, only if polls    *)
(* overlapped or the handler threw.                                           *)
OnlyOverlapRepeats ==
  status.term # 0 /\ status.term \notin twice => handed[status.term] \subseteq 1 .. status.cursor

-----------------------------------------------------------------------------
(* Event triggers (src/coordination/WorkflowTriggerManager.ts): an event that  *)
(* passes a binding's limit and its deduplication fires at once or, after a    *)
(* delay, instead of the one that waited before. A transform may throw, into   *)
(* the source's emit(). Filters are left out, as an event that is filtered     *)
(* changes nothing, and so is what a transform returns.                        *)
CONSTANTS
  Binding,     \* binding ids
  Debounced,   \* those with debounceMs
  Transformed, \* those with a transform
  Event,       \* event data
  Nothing,     \* no event waits
  Debounce,    \* debounceMs, in ticks
  Dedupe,      \* deduplicateMs
  Minute,      \* the window of maxTriggersPerMinute
  MaxTriggers  \* maxTriggersPerMinute

ASSUME TriggerAssumption ==
  /\ {Debounced, Transformed} \subseteq SUBSET Binding /\ Nothing \notin Event
  /\ {Debounce, Dedupe, Minute, MaxTriggers} \subseteq Nat \ {0}

VARIABLES
  bound,       \* bindings; those not in use are unbound or not yet bound
  listening,   \* running
  pending,     \* debounceTimers: the event that waits and its ticks to go
  seenAt,      \* dedupeCache: ticks since, up to Dedupe for none
  counted,     \* triggerCounts: count and ticks since the window began
  answered,    \* history: events that fired since they were cached, or that a later one replaced
  fumbled      \* history: events whose transform threw when they were cached

triggerVars == <<bound, listening, pending, seenAt, counted, answered, fumbled>>

NoEvent == [event |-> Nothing, left |-> 0]
NoCount == [count |-> 0, since |-> Minute]
TriggersInit ==
  /\ bound = {} /\ listening = FALSE /\ pending = [b \in Binding |-> NoEvent]
  /\ seenAt = [b \in Binding |-> [e \in Event |-> Dedupe]] /\ counted = [b \in Binding |-> NoCount]
  /\ answered = [b \in Binding |-> {}] /\ fumbled = [b \in Binding |-> {}]

\* The caches of a binding that is gone stay behind; its id is never used again.
Bind(b) ==
  /\ b \notin bound /\ seenAt[b] = [e \in Event |-> Dedupe] /\ counted[b] = NoCount
  /\ bound' = bound \cup {b} /\ answered' = [answered EXCEPT ![b] = {}]
  /\ fumbled' = [fumbled EXCEPT ![b] = {}]
  /\ UNCHANGED <<listening, pending, seenAt, counted>>
Unbind(b) ==
  /\ b \in bound /\ bound' = bound \ {b} /\ pending' = [pending EXCEPT ![b] = NoEvent]
  /\ UNCHANGED <<listening, seenAt, counted, answered, fumbled>>

TriggersStart == ~listening /\ listening' = TRUE /\ UNCHANGED <<bound, pending, seenAt, counted, answered, fumbled>>

CacheCleared == [b \in Binding |-> [e \in Event |-> Dedupe]]
TriggersStop ==
  /\ listening /\ listening' = FALSE
  /\ pending' = [b \in Binding |-> NoEvent] /\ counted' = [b \in Binding |-> NoCount]
  /\ seenAt' = CacheCleared
  /\ UNCHANGED <<bound, answered, fumbled>>

\* The limit counts the events it lets through, those that are duplicates, too.
NewWindow(b) == counted[b].since >= Minute
CheckRateLimit(b) == NewWindow(b) \/ counted[b].count < MaxTriggers
Counts(b) ==
  counted' = [counted EXCEPT ![b] = IF NewWindow(b) THEN [count |-> 1, since |-> 0]
                                        ELSE [counted[b] EXCEPT !.count = @ + 1]]

Duplicate(b, e) == seenAt[b][e] < Dedupe
\* The transform throws; the event is in the cache by then, and no timer is touched.
Fumbles(b, e) ==
  /\ b \in Transformed /\ fumbled' = [fumbled EXCEPT ![b] = @ \cup {e}]
  /\ answered' = [answered EXCEPT ![b] = @ \ {e}] /\ UNCHANGED pending
FiresOrWaits(b, e) ==
  /\ fumbled' = [fumbled EXCEPT ![b] = @ \ {e}]
  /\ IF b \in Debounced
     THEN /\ pending' = [pending EXCEPT ![b] = [event |-> e, left |-> Debounce]]
          /\ answered' = [answered EXCEPT ![b] = (@ \cup {pending[b].event}) \ {e, Nothing}]
     ELSE answered' = [answered EXCEPT ![b] = @ \cup {e}] /\ UNCHANGED pending
HandleEvent(b, e) ==
  /\ b \in bound /\ listening /\ CheckRateLimit(b) /\ Counts(b)
  /\ \/ Duplicate(b, e) /\ UNCHANGED <<pending, seenAt, answered, fumbled>>
     \/ /\ ~Duplicate(b, e) /\ seenAt' = [seenAt EXCEPT ![b][e] = 0]
        /\ Fumbles(b, e) \/ FiresOrWaits(b, e)
  /\ UNCHANGED <<bound, listening>>

FireTrigger(b) ==
  /\ pending[b] # NoEvent /\ pending[b].left = 0
  /\ answered' = [answered EXCEPT ![b] = @ \cup {pending[b].event}]
  /\ pending' = [pending EXCEPT ![b] = NoEvent]
  /\ UNCHANGED <<bound, listening, seenAt, counted, fumbled>>

\* Time does not pass a timer that is due.
TriggersTick ==
  /\ \A b \in Binding : pending[b] = NoEvent \/ pending[b].left > 0
  /\ pending' = [b \in Binding |-> IF pending[b] = NoEvent THEN NoEvent ELSE [pending[b] EXCEPT !.left = @ - 1]]
  /\ seenAt' = [b \in Binding |-> [e \in Event |-> IF Duplicate(b, e) THEN seenAt[b][e] + 1 ELSE Dedupe]]
  /\ counted' = [b \in Binding |-> IF NewWindow(b) \/ counted[b].since + 1 = Minute THEN NoCount
                                   ELSE [counted[b] EXCEPT !.since = @ + 1]]
  /\ UNCHANGED <<bound, listening, answered, fumbled>>

TriggersNext ==
  \/ TriggersStart \/ TriggersStop \/ TriggersTick
  \/ \E b \in Binding : Bind(b) \/ Unbind(b) \/ FireTrigger(b) \/ \E e \in Event : HandleEvent(b, e)

TriggersTypeOK ==
  /\ bound \subseteq Binding /\ listening \in BOOLEAN
  /\ pending \in [Binding -> [event : Event \cup {Nothing}, left : 0 .. Debounce]]
  /\ seenAt \in [Binding -> [Event -> 0 .. Dedupe]]
  /\ counted \in [Binding -> [count : 0 .. MaxTriggers, since : 0 .. Minute]]
  /\ {answered, fumbled} \subseteq [Binding -> SUBSET Event]

(* An event that would be dropped as a duplicate has had its say: the one it  *)
(* repeats fired, or waits, or gave way to a later event, unless the          *)
(* transform threw for it, after which its repeats are dropped as well. No    *)
(* stop() between the two, no timer that stop() cleared, and no other event   *)
(* whose transform threw makes both of them vanish.                           *)
DuplicatesWereAnswered ==
  \A b \in bound, e \in Event :
    listening /\ Duplicate(b, e) => e \in answered[b] \cup fumbled[b] \/ pending[b].event = e
=============================================================================
