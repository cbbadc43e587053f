------------------------------ MODULE Resilience ------------------------------
(* Calls of one service: retries with a timeout (src/distributed/              *)
(* RetryStrategy.ts) around a circuit breaker (DistributedCircuitBreaker.ts)    *)
(* that all callers share, and the classes of errors they go by                 *)
(* (ErrorClassification.ts). Promise.race does not stop the attempt that lost:  *)
(* it ends later, and the breaker counts it then.                               *)
EXTENDS Naturals, Sequences, SequencesExt

CONSTANTS
  Caller,            \* callers of retryWithBackoff
  MaxRetries,
  FailureThreshold, SuccessThreshold,
  OpenTimeout,       \* ticks in OPEN before HALF_OPEN
  Window,            \* ticks a failure counts
  MaxStrays          \* bound: attempts that timed out and still run

ASSUME ResilienceAssumption ==
  /\ MaxRetries \in Nat /\ MaxStrays \in Nat
  /\ {FailureThreshold, SuccessThreshold, OpenTimeout, Window} \subseteq Nat \ {0}

VARIABLES
  circuit,           \* state, successes, ages of the latest failures, ticks in the state
  calls,             \* per caller: what it awaits, and its attempts
  strays,            \* attempts that lost the race
  healthy            \* the service answers

resilienceVars == <<circuit, calls, strays, healthy>>

Closed == [state |-> "closed", successes |-> 0, failures |-> <<>>, since |-> 0]
ResilienceInit ==
  /\ circuit = Closed
  /\ calls = [c \in Caller |-> [at |-> "idle", attempts |-> 0]]
  /\ strays = 0
  /\ healthy \in BOOLEAN

\* classifyError: what an error is, of all its message mentions.
Order == <<"network", "timeout", "rate_limit", "auth", "validation", "not_found", "conflict", "unavailable", "internal">>
Classify(mentioned) ==
  IF mentioned = {} THEN "unknown"
  ELSE Order[CHOOSE i \in DOMAIN Order : Order[i] \in mentioned /\ \A j \in 1 .. i - 1 : Order[j] \notin mentioned]
Category(type) ==
  IF type \in {"network", "timeout", "rate_limit", "unavailable", "conflict"} THEN "transient"
  ELSE IF type \in {"auth", "validation", "not_found"} THEN "permanent" ELSE "fatal"
RetriableErrors == {"network", "timeout", "rate_limit", "unavailable", "conflict"}
Retriable(type) == Category(type) = "transient" /\ type \in RetriableErrors
Messages == {{}, {"timeout"}, {"auth", "internal"}, {"conflict", "validation"}}

\* The ages up to a limit.
UpTo(limit, ages) ==
  FoldLeft(LAMBDA kept, age : IF age <= limit THEN Append(kept, age) ELSE kept, <<>>, ages)

\* The breaker. Only the latest FailureThreshold failures are kept: older ones
\* never decide.
TransitionTo(c, state) == [c EXCEPT !.state = state, !.since = 0]
Recent(failures) == UpTo(Window - 1, failures)
Pushed(failures) ==
  LET all == Append(failures, 0) IN IF Len(all) > FailureThreshold THEN Tail(all) ELSE all

\* Mutant: every call let through in HALF_OPEN starts the count of successes.
CheckStateResets(c) ==
  IF c.state = "open" /\ c.since >= OpenTimeout THEN TransitionTo(c, "half_open")
  ELSE IF c.state = "half_open" THEN [c EXCEPT !.successes = 0] ELSE c
CheckState(c) ==
  IF c.state = "open" /\ c.since >= OpenTimeout THEN TransitionTo(c, "half_open") ELSE c

OnSuccess(c) ==
  IF c.state = "half_open" /\ c.successes + 1 >= SuccessThreshold THEN TransitionTo(Closed, "closed")
  ELSE IF c.state = "half_open" THEN [c EXCEPT !.successes = @ + 1]
  ELSE IF c.state = "closed" THEN [c EXCEPT !.failures = Recent(@)] ELSE c

OnFailure(c) ==
  LET failed == [c EXCEPT !.failures = Pushed(@)]
      recent == [failed EXCEPT !.failures = Recent(@)] IN
  CASE c.state = "half_open" -> [TransitionTo(failed, "open") EXCEPT !.successes = 0]
    [] c.state = "closed" -> IF Len(recent.failures) >= FailureThreshold THEN TransitionTo(recent, "open") ELSE recent
    [] c.state = "open" -> failed

Ends(ok) == circuit' = IF ok THEN OnSuccess(circuit) ELSE OnFailure(circuit)

\* execute: a rejection is no retriable error, so the caller gives up.
Attempt(c) ==
  /\ circuit' = CheckState(circuit)
  /\ calls' = [calls EXCEPT ![c] =
       IF circuit'.state = "open" THEN [at |-> "idle", attempts |-> 0]
       ELSE [at |-> "running", attempts |-> @.attempts + 1]]
  /\ UNCHANGED <<strays, healthy>>

CallBegins(c) == calls[c].at = "idle" /\ Attempt(c)
SleepOver(c) == calls[c].at = "backoff" /\ Attempt(c)

\* The catch block: give up, or sleep before the next attempt.
AfterFailure(c, type) ==
  calls' = [calls EXCEPT ![c] =
    IF ~Retriable(type) \/ @.attempts > MaxRetries THEN [at |-> "idle", attempts |-> 0]
    ELSE [@ EXCEPT !.at = "backoff"]]

Answered(c) ==
  /\ calls[c].at = "running"
  /\ \/ Ends(TRUE) /\ calls' = [calls EXCEPT ![c] = [at |-> "idle", attempts |-> 0]]
     \/ ~healthy /\ Ends(FALSE) /\ \E m \in Messages : AfterFailure(c, Classify(m))
  /\ UNCHANGED <<strays, healthy>>

\* executeWithTimeout: the attempt goes on without its caller.
TimesOut(c) ==
  /\ calls[c].at = "running" /\ strays < MaxStrays
  /\ AfterFailure(c, Classify({"timeout"}))
  /\ strays' = strays + 1
  /\ UNCHANGED <<circuit, healthy>>

StrayEnds ==
  /\ strays > 0 /\ strays' = strays - 1
  /\ Ends(TRUE) \/ (~healthy /\ Ends(FALSE))
  /\ UNCHANGED <<calls, healthy>>

Reset ==
  /\ circuit # Closed /\ circuit' = Closed
  /\ UNCHANGED <<calls, strays, healthy>>

ServiceChanges ==
  /\ healthy' = ~healthy
  /\ UNCHANGED <<circuit, calls, strays>>

Elapsed(age) == IF age < Window THEN age + 1 ELSE age
ResilienceTick ==
  /\ circuit' = [circuit EXCEPT !.since = IF @ < OpenTimeout THEN @ + 1 ELSE @,
                                !.failures = [i \in DOMAIN @ |-> Elapsed(@[i])]]
  /\ circuit' # circuit
  /\ UNCHANGED <<calls, strays, healthy>>

ResilienceNext ==
  \/ \E c \in Caller : CallBegins(c) \/ SleepOver(c) \/ Answered(c) \/ TimesOut(c)
  \/ StrayEnds \/ Reset \/ ServiceChanges \/ ResilienceTick

ResilienceTypeOK ==
  /\ circuit.state \in {"closed", "open", "half_open"}
  /\ circuit.successes \in 0 .. SuccessThreshold - 1
  /\ circuit.since \in 0 .. OpenTimeout
  /\ circuit.failures \in BoundedSeq(0 .. Window, FailureThreshold)
  /\ calls \in [Caller -> [at: {"idle", "running", "backoff"}, attempts: 0 .. MaxRetries + 1]]
  /\ strays \in 0 .. MaxStrays /\ healthy \in BOOLEAN

(* A service that came back to stay is served again: whatever attempts of the *)
(* bad times still end late in whatever state of the breaker, it does not     *)
(* stay open, or half open, for good.                                         *)
RecoveredServiceIsServed == []<>(circuit.state = "closed" \/ ~healthy)

-----------------------------------------------------------------------------
(* The circuit breaker of one process (src/cross-cutting/CircuitBreaker.ts).   *)
(* Calls that were let through end in whatever state it is by then. Unlike in  *)
(* the distributed breaker successes are counted in every state, and what      *)
(* forceState() sets keeps the counts. Totals and times for metrics are left   *)
(* out, and so are failures older than the failureThreshold latest.            *)
CONSTANTS
  TripAfter,      \* failureThreshold
  CloseAfter,     \* successThreshold
  ResetTimeout,   \* ticks in open before half-open
  FailureWindow,  \* ticks a failure counts
  MaxThrough,     \* bound: calls let through and not ended
  MaxForced       \* bound: calls of forceState() and reset()

ASSUME BreakerAssumption ==
  /\ {MaxThrough, MaxForced} \subseteq Nat
  /\ {TripAfter, CloseAfter, ResetTimeout, FailureWindow} \subseteq Nat \ {0}

VARIABLES
  breaker,        \* state, successCount (up to CloseAfter), failures' ages, ticks in the state
  through,        \* calls under way
  sound,          \* the function that is called succeeds
  forced          \* calls of forceState() and reset() made

breakerVars == <<breaker, through, sound, forced>>

Fresh0 == [state |-> "closed", successes |-> 0, failures |-> <<>>, since |-> 0]
BreakerInit == breaker = Fresh0 /\ through = 0 /\ sound \in BOOLEAN /\ forced = 0

Turned(b, state) == IF b.state = state THEN b ELSE [b EXCEPT !.state = state, !.since = 0]

Succeeded(b) ==
  LET counted == [b EXCEPT !.successes = IF @ < CloseAfter THEN @ + 1 ELSE @] IN
  IF b.state = "half-open" /\ counted.successes >= CloseAfter
  THEN [Turned(counted, "closed") EXCEPT !.failures = <<>>] ELSE counted

Failed(b) ==
  LET all == Append(UpTo(FailureWindow, b.failures), 0)
      failed == [b EXCEPT !.failures = IF Len(all) > TripAfter THEN Tail(all) ELSE all] IN
  IF b.state = "half-open" \/ (b.state = "closed" /\ Len(failed.failures) >= TripAfter)
  THEN [Turned(failed, "open") EXCEPT !.successes = 0] ELSE failed

Probed(b) == IF b.state = "open" /\ b.since >= ResetTimeout THEN Turned(b, "half-open") ELSE b

\* execute
Execute ==
  /\ through < MaxThrough
  /\ breaker' = Probed(breaker)
  /\ through' = IF breaker'.state = "open" THEN through ELSE through + 1
  /\ UNCHANGED <<sound, forced>>

ExecuteEnds ==
  /\ through > 0 /\ through' = through - 1
  /\ breaker' = Succeeded(breaker) \/ (~sound /\ breaker' = Failed(breaker))
  /\ UNCHANGED <<sound, forced>>

\* The getter turns an open breaker half-open, too.
CurrentState ==
  /\ breaker' = Probed(breaker)
  /\ UNCHANGED <<through, sound, forced>>

ForceState(state) ==
  /\ forced < MaxForced /\ forced' = forced + 1
  /\ breaker' = Turned(breaker, state)
  /\ UNCHANGED <<through, sound>>
BreakerReset ==
  /\ forced < MaxForced /\ forced' = forced + 1
  /\ breaker' = Fresh0
  /\ UNCHANGED <<through, sound>>

SoundChanges == sound' = ~sound /\ UNCHANGED <<breaker, through, forced>>

BreakerTick ==
  /\ breaker' = [breaker EXCEPT !.since = IF @ < ResetTimeout THEN @ + 1 ELSE @,
       !.failures = [i \in DOMAIN @ |-> IF @[i] <= FailureWindow THEN @[i] + 1 ELSE @[i]]]
  /\ UNCHANGED <<through, sound, forced>>

BreakerNext ==
  \/ Execute \/ ExecuteEnds \/ CurrentState \/ BreakerReset \/ SoundChanges \/ BreakerTick
  \/ \E state \in {"closed", "open", "half-open"} : ForceState(state)

BreakerTypeOK ==
  /\ breaker.state \in {"closed", "open", "half-open"} /\ breaker.successes \in 0 .. CloseAfter
  /\ breaker.failures \in BoundedSeq(0 .. FailureWindow + 1, TripAfter) /\ breaker.since \in 0 .. ResetTimeout
  /\ through \in 0 .. MaxThrough /\ sound \in BOOLEAN /\ forced \in 0 .. MaxForced

(* Where calls succeed for good the breaker closes, whatever late failures,   *)
(* half-counted successes and forced states it went through.                  *)
SoundServiceIsServed == []<>(breaker.state = "closed" \/ ~sound)
=============================================================================
