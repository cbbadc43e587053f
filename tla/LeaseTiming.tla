----------------------------- MODULE LeaseTiming ----------------------------
(***************************************************************************)
(* LeaseElection with durations: every step of the untimed specification   *)
(* is taken under a clock, so that the lease ages and the timers fire when *)
(* the configuration of LeaseBasedElectionConfig says they do.             *)
(*                                                                         *)
(* Time is counted in ticks.  Each duration is a countdown: left to the    *)
(* lease's expiresAt, due to a job's timer or to the deadline of a call's  *)
(* answer, tickDue to the next renewal.  Timers are punctual; an answer    *)
(* takes between no time and Latency.  The application may call releaseLease, *)
(* stop and campaign at any time; an object it interrupted in this way is  *)
(* told apart until it has come to rest.                                   *)
(***************************************************************************)
EXTENDS LeaseElection

CONSTANTS LeaseTTL, RenewalInterval, GracePeriod, RetryBackoff,
          AttemptDelay,   \* the 1000 ms between two tryRenew
          Latency,        \* bound: how long a backend's answer takes
          Handled,        \* bound: the instances that the application interrupts
          MaxInterrupts   \* bound: how often it does so

ASSUME DurationsAssumption ==
  /\ {LeaseTTL, RenewalInterval, GracePeriod, RetryBackoff, AttemptDelay}
       \subseteq Nat \ {0}
  /\ Latency \in Nat /\ MaxInterrupts \in Nat /\ Handled \subseteq Holder
  /\ MaxAttempts = GracePeriod \div AttemptDelay

VARIABLES left, due, tickDue,
          interrupted, \* called upon while in use, and not at rest since
          interrupts   \* how often the application has done so

clockVars == <<left, due, tickDue>>
timedVars == <<vars, clockVars, interrupted, interrupts>>

TimedTypeOK ==
  /\ TypeOK
  /\ left \in 0 .. LeaseTTL
  /\ due \in [Holder -> [Slot -> Nat]]
  /\ tickDue \in [Holder -> 0 .. RenewalInterval]
  /\ lease.phase = "live" <=> left > 0
  /\ interrupted \subseteq Handled /\ interrupts \in 0 .. MaxInterrupts

TimedInit ==
  /\ Init
  /\ left = 0
  /\ due = [i \in Holder |-> [s \in Slot |-> 0]]
  /\ tickDue = [i \in Holder |-> 0]
  /\ interrupted = {} /\ interrupts = 0

Delay(job) ==
  CASE job.kind \in Calls -> Latency
    [] job.kind = "retryTimer" -> RetryBackoff
    [] job.kind = "graceTimer" -> GracePeriod
    [] job.kind = "tryTimer" -> AttemptDelay
    [] OTHER -> 0

\* A job's countdown starts when the job does.
JobClocks ==
  due' = [i \in Holder |-> [s \in Slot |->
            IF jobs'[i][s] = jobs[i][s] THEN due[i][s] ELSE Delay(jobs'[i][s])]]

\* The slots in which i starts to wait for the answer of a renewal.
RenewalsAsked(i) ==
  {s \in Slot : /\ jobs'[i][s] # jobs[i][s]
                /\ jobs'[i][s].kind \in {"renew", "try"}}

\* Mutation: a renewal adds the TTL to what is left.
LeaseClockAdds(i) ==
  \/ counter' # counter /\ left' = LeaseTTL
  \/ /\ counter' = counter
     /\ \A s \in RenewalsAsked(i) : jobs'[i][s].result = "fail"
     /\ lease' \in {lease, NoLease}
     /\ left' = IF lease' = lease THEN left ELSE 0
  \/ /\ counter' = counter
     /\ \E s \in RenewalsAsked(i) : jobs'[i][s].result = "ok" \/ Faults
     /\ Renewable(i)
     /\ lease'.phase = "live"
     /\ left' = left + LeaseTTL

\* expiresAt after a step of i.  A renewal that answers with an exception may
\* or may not have been executed.
LeaseClock(i) ==
  \/ counter' # counter /\ left' = LeaseTTL
  \/ /\ counter' = counter
     /\ \A s \in RenewalsAsked(i) : jobs'[i][s].result = "fail"
     /\ lease' \in {lease, NoLease}
     /\ left' = IF lease' = lease THEN left ELSE 0
  \/ /\ counter' = counter
     /\ \E s \in RenewalsAsked(i) : jobs'[i][s].result = "ok" \/ Faults
     /\ Renewable(i)
     /\ lease'.phase = "live"
     /\ left' = LeaseTTL

\* The interval starts over when startRenewal is called.
TickClock(i, restarted) ==
  tickDue' = [tickDue EXCEPT ![i] =
                IF ~ticking'[i] THEN 0
                ELSE IF restarted THEN RenewalInterval ELSE @]

\* Neither leads, campaigns nor waits for anything, as after start().
AtRest(i) ==
  /\ st[i] = "idle" /\ cur[i] = 0 /\ ~ticking[i] /\ graceTimer[i] = NoSlot
  /\ \A s \in Slot : Free(i, s)

\* campaign(), or a restart of the process.
TimedApp(i) ==
  /\ \/ AtRest(i) /\ \E s \in Slot : Campaign(i, s)
     \/ Restart(i)
  /\ interrupted' = interrupted \ {i} /\ UNCHANGED interrupts
  /\ JobClocks /\ LeaseClock(i) /\ TickClock(i, FALSE)

\* Calls of the application that an object in use has to cope with.
Interrupts(i) ==
  /\ i \in Handled /\ interrupts < MaxInterrupts
  /\ interrupted' = interrupted \cup {i} /\ interrupts' = interrupts + 1
  /\ \E s \in Slot : \/ ~AtRest(i) /\ Campaign(i, s)
                     \/ ReleaseLease(i, s) \/ Stop(i, s)
  /\ JobClocks /\ LeaseClock(i) /\ TickClock(i, FALSE)

TimedAnswer(i, s) ==
  /\ AnswerStep(i, s)
  /\ JobClocks /\ LeaseClock(i)
  /\ TickClock(i, jobs[i][s].kind \in {"campaign", "try"}
                    /\ jobs[i][s].result = "ok")
  /\ UNCHANGED <<interrupted, interrupts>>

TimedTimer(i, s) ==
  /\ due[i][s] = 0
  /\ TimerStep(i, s)
  /\ JobClocks /\ LeaseClock(i) /\ TickClock(i, FALSE)
  /\ UNCHANGED <<interrupted, interrupts>>

TimedRenewal(i) ==
  /\ tickDue[i] = 0
  /\ IntervalStep(i)
  /\ JobClocks /\ LeaseClock(i) /\ TickClock(i, TRUE)
  /\ UNCHANGED <<interrupted, interrupts>>

\* The answer to a renewal attempt never arrives: what the timer of the
\* grace period is there for.
AttemptHangs(i, s) ==
  /\ Faults
  /\ jobs[i][s].kind = "try"
  /\ Put(i, s, Empty)
  /\ UNCHANGED <<backendVars, st, cur, ticking, graceTimer, retryCount>>
  /\ JobClocks /\ UNCHANGED <<left, tickDue, interrupted, interrupts>>

TimedQuery ==
  /\ GetCurrentLeader
  /\ UNCHANGED <<clockVars, interrupted, interrupts>>

\* A countdown's next value.
Pred(n) == IF n = 0 THEN 0 ELSE n - 1

\* Time passes only when no timer is due and no answer has to arrive.
Tick ==
  /\ \A i \in Holder : ticking[i] => tickDue[i] > 0
  /\ \A i \in Holder, s \in Slot : Free(i, s) \/ due[i][s] > 0
  /\ left' = Pred(left)
  /\ \/ left > 1 /\ UNCHANGED vars
     \/ left <= 1 /\ LeaseAges
     \/ lease.phase \in {"none", "past"} /\ UNCHANGED vars
  /\ due' = [i \in Holder |-> [s \in Slot |-> Pred(due[i][s])]]
  /\ tickDue' = [i \in Holder |-> Pred(tickDue[i])]
  /\ UNCHANGED <<interrupted, interrupts>>

TimedNext ==
  \/ \E i \in Holder : TimedApp(i) \/ Interrupts(i) \/ TimedRenewal(i)
  \/ \E i \in Holder, s \in Slot : TimedAnswer(i, s) \/ TimedTimer(i, s)
                                    \/ AttemptHangs(i, s)
  \/ TimedQuery
  \/ Tick

TimedSpec == TimedInit /\ [][TimedNext]_timedVars

\* The event loop runs what is due and the clock moves; nothing is promised
\* of the application.
TimedFairSpec ==
  /\ TimedSpec
  /\ \A i \in Holder : WF_timedVars(TimedRenewal(i))
  /\ \A i \in Holder, s \in Slot :
       WF_timedVars(TimedAnswer(i, s)) /\ WF_timedVars(TimedTimer(i, s))
  /\ WF_timedVars(Tick)
-----------------------------------------------------------------------------
\* The durations fit one another: an answer comes before the next renewal; the
\* lease outlasts an interval, a renewal that fails and the grace period; and
\* the attempts of the grace period, of which the first is made in any case,
\* are over before its timer fires.
DurationsFit ==
  LET attempts == IF MaxAttempts = 0 THEN 1 ELSE MaxAttempts IN
  /\ Latency < RenewalInterval
  /\ RenewalInterval + 2 * Latency + GracePeriod < LeaseTTL
  /\ attempts * Latency + (attempts - 1) * AttemptDelay < GracePeriod

\* An instance that answers true to isLeader() has the lease that is stored,
\* with time left on it: no two instances lead at once, and the operations of
\* the leader pass FencingTokenGuard.  This needs DurationsFit, and that the
\* application left the object alone: one that released the lease says it
\* leads until the answer arrives, and goes on if none does; and answers that
\* were under way at a stop, release or campaign bring leadership back.  What is
\* done to one instance never takes the lease from under another.
LeaderIsCurrent ==
  \A i \in Holder \ interrupted : IsLeader(i) =>
    lease.holder = i /\ lease.token = cur[i] /\ left > 0

\* As long as an instance campaigns with unlimited retries, somebody gets to
\* lead: a lease whose holder died or gave up ages, and the campaign that was
\* refused is tried again.  (The store may be closed meanwhile, and the bound
\* on the number of leases may be reached.)
CampaignsSucceed ==
  \A i \in Holder :
    st[i] = "campaigning" ~> \/ \E j \in Holder : IsLeader(j)
                             \/ st[i] # "campaigning"
                             \/ interrupted # {}
                             \/ closed \/ counter = MaxToken

\* LeaseBasedElection.ts calls this "split-brain-safe leadership. Only one
\* instance holds the lease at any time.": never do two instances answer true
\* to isLeader() at once.
AtMostOneLeader ==
  \A i, j \in Holder : IsLeader(i) /\ IsLeader(j) => i = j
=============================================================================
