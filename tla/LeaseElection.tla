---------------------------- MODULE LeaseElection ---------------------------
(***************************************************************************)
(* LeaseBasedElection (src/src/hub/LeaseBasedElection.ts): instances that  *)
(* compete for one lease of a LeaseBackend.                                *)
(*                                                                         *)
(* What an instance waits for is a job in one of its slots: the answer of  *)
(* a backend call, or a one-shot timer.  A call takes effect at the        *)
(* backend when it is issued; its answer is handled in a later step, in    *)
(* any order with the other jobs, and a job may wait forever.  The renewal *)
(* setInterval is the flag ticking.  Slots bound how much one instance     *)
(* has outstanding at once.                                                *)
(***************************************************************************)
EXTENDS LeaseBackend

CONSTANTS Slot,          \* bound: places for the jobs of one instance
          NoSlot,        \* no timer handle
          MaxRetries,    \* config.maxRetries (0 when autoRetry is false)
          Unlimited,     \* maxRetries is Infinity, its default
          MaxAttempts,   \* floor(gracePeriod / 1000)
          Faults         \* whether a backend call may fail with an exception

ASSUME NoSlotAssumption == NoSlot \notin Slot
ASSUME RetriesAssumption == MaxRetries \in Nat /\ Unlimited \in BOOLEAN
ASSUME AttemptsAssumption == MaxAttempts \in Nat
ASSUME FaultsAssumption == Faults \in BOOLEAN

VARIABLES st,          \* state
          cur,         \* currentLease?.fencingToken ?? 0
          ticking,     \* renewalTimer # null
          graceTimer,  \* the slot of the pending timer graceTimer refers to
          retryCount,
          jobs         \* what each instance waits for

instVars == <<st, cur, ticking, graceTimer, retryCount, jobs>>
vars == <<backendVars, instVars>>

Calls == {"campaign", "renew", "try", "release", "stop", "close"}
Timers == {"retryTimer", "tryTimer", "graceTimer"}

\* n is the granted token of a campaign, the attempt of a try or tryTimer.
Job(kind, result, n) == [kind |-> kind, result |-> result, n |-> n]
Empty == Job("none", "none", 0)
Timer(kind) == Job(kind, "none", 0)

JobType == [kind   : Calls \cup Timers \cup {"none"},
            result : {"ok", "fail", "error", "none"},
            n      : Nat]

TypeOK ==
  /\ BackendTypeOK
  /\ st \in [Holder -> {"idle", "campaigning", "leader", "renewing",
                        "grace", "expired"}]
  /\ cur \in [Holder -> Nat]
  /\ ticking \in [Holder -> BOOLEAN]
  /\ graceTimer \in [Holder -> Slot \cup {NoSlot}]
  /\ retryCount \in [Holder -> Nat]
  /\ jobs \in [Holder -> [Slot -> JobType]]

Init ==
  /\ BackendInit
  /\ st = [i \in Holder |-> "idle"]
  /\ cur = [i \in Holder |-> 0]
  /\ ticking = [i \in Holder |-> FALSE]
  /\ graceTimer = [i \in Holder |-> NoSlot]
  /\ retryCount = [i \in Holder |-> 0]
  /\ jobs = [i \in Holder |-> [s \in Slot |-> Empty]]

IsLeader(i) == st[i] \in {"leader", "renewing", "grace"}

Free(i, s) == jobs[i][s] = Empty

\* Instance i waits for job j in slot s, and for nothing else new.
Put(i, s, j) == jobs' = [jobs EXCEPT ![i][s] = j]

\* The jobs of i once its grace timer is cleared (stopGracePeriod).
WithoutGrace(i) ==
  [s \in Slot |-> IF s = graceTimer[i] THEN Empty ELSE jobs[i][s]]

SetState(i, state) == st' = [st EXCEPT ![i] = state]
SetCur(i, token) == cur' = [cur EXCEPT ![i] = token]
SetTicking(i, on) == ticking' = [ticking EXCEPT ![i] = on]
SetGrace(i, s) == graceTimer' = [graceTimer EXCEPT ![i] = s]

-----------------------------------------------------------------------------
(* Backend calls: executed and answered, executed with the answer lost, or *)
(* lost before execution.  The code treats a refusal and an exception of   *)
(* renew and release alike, so both answer "fail".                         *)

CallAcquire(i, answer) ==
  \/ \E ok \in BOOLEAN :
       /\ Acquire(i, ok)
       /\ answer = IF ok THEN Job("campaign", "ok", counter + 1)
                         ELSE Job("campaign", "fail", 0)
  \/ /\ Faults
     /\ (\E ok \in BOOLEAN : Acquire(i, ok)) \/ UNCHANGED backendVars
     /\ answer = Job("campaign", "error", 0)

CallRenew(i, kind, attempt, answer) ==
  \/ \E ok \in BOOLEAN :
       /\ Renew(i, ok)
       /\ answer = Job(kind, IF ok THEN "ok" ELSE "fail", attempt)
  \/ /\ Faults
     /\ (\E ok \in BOOLEAN : Renew(i, ok)) \/ UNCHANGED backendVars
     /\ answer = Job(kind, "fail", attempt)

CallRelease(i, kind, answer) ==
  \/ \E ok \in BOOLEAN :
       /\ Release(i, ok)
       /\ answer = Job(kind, IF ok THEN "ok" ELSE "fail", 0)
  \/ /\ Faults
     /\ (\E ok \in BOOLEAN : Release(i, ok)) \/ UNCHANGED backendVars
     /\ answer = Job(kind, "fail", 0)

-----------------------------------------------------------------------------
(* Campaigning.                                                            *)

CanRetry(i) == Unlimited \/ retryCount[i] < MaxRetries

CountRetry(i) ==
  retryCount' = IF Unlimited THEN retryCount
                ELSE [retryCount EXCEPT ![i] = @ + 1]

\* campaign() up to its await, waiting for the answer in slot s.
BeginCampaign(i, s) ==
  /\ SetState(i, "campaigning")
  /\ \E answer \in [kind : {"campaign"}, result : {"ok", "fail", "error"},
                    n : {0, counter + 1}] :
       CallAcquire(i, answer) /\ Put(i, s, answer)
  /\ UNCHANGED <<cur, ticking, graceTimer, retryCount>>

Campaign(i, s) == Free(i, s) /\ BeginCampaign(i, s)

RetryTimerFires(i, s) ==
  /\ jobs[i][s].kind = "retryTimer"
  /\ BeginCampaign(i, s)

\* Mutation: the token is read from the store when the answer arrives.
CampaignGrantedLate(i, s) ==
  /\ jobs[i][s].kind = "campaign" /\ jobs[i][s].result = "ok"
  /\ SetCur(i, counter)
  /\ SetState(i, "leader")
  /\ SetTicking(i, TRUE)
  /\ retryCount' = [retryCount EXCEPT ![i] = 0]
  /\ Put(i, s, Empty)
  /\ UNCHANGED <<backendVars, graceTimer>>

CampaignGranted(i, s) ==
  /\ jobs[i][s].kind = "campaign" /\ jobs[i][s].result = "ok"
  /\ SetCur(i, jobs[i][s].n)
  /\ SetState(i, "leader")
  /\ SetTicking(i, TRUE)
  /\ retryCount' = [retryCount EXCEPT ![i] = 0]
  /\ Put(i, s, Empty)
  /\ UNCHANGED <<backendVars, graceTimer>>

\* Mutation: a refused campaign is not tried again.
CampaignDropped(i, s) ==
  /\ jobs[i][s].kind = "campaign" /\ jobs[i][s].result = "fail"
  /\ Put(i, s, Empty)
  /\ UNCHANGED <<backendVars, st, cur, ticking, graceTimer, retryCount>>

CampaignRefused(i, s) ==
  /\ jobs[i][s].kind = "campaign" /\ jobs[i][s].result = "fail"
  /\ \/ CanRetry(i) /\ CountRetry(i) /\ Put(i, s, Timer("retryTimer"))
     \/ ~CanRetry(i) /\ UNCHANGED retryCount /\ Put(i, s, Empty)
  /\ UNCHANGED <<backendVars, st, cur, ticking, graceTimer>>

CampaignError(i, s) ==
  /\ jobs[i][s].kind = "campaign" /\ jobs[i][s].result = "error"
  /\ SetState(i, "idle")
  /\ Put(i, s, Empty)
  /\ UNCHANGED <<backendVars, cur, ticking, graceTimer, retryCount>>

-----------------------------------------------------------------------------
(* Renewal and the grace period.                                           *)

\* The interval fires: renewLease up to its await, or its early return.
RenewTick(i, s) ==
  /\ ticking[i]
  /\ IsLeader(i) /\ cur[i] # 0
  /\ Free(i, s)
  /\ SetState(i, "renewing")
  /\ \E answer \in [kind : {"renew"}, result : {"ok", "fail"}, n : {0}] :
       CallRenew(i, "renew", 0, answer) /\ Put(i, s, answer)
  /\ UNCHANGED <<cur, ticking, graceTimer, retryCount>>

IdleTick(i) ==
  /\ ticking[i]
  /\ ~IsLeader(i) \/ cur[i] = 0
  /\ SetTicking(i, FALSE)
  /\ UNCHANGED <<backendVars, st, cur, graceTimer, retryCount, jobs>>

RenewOk(i, s) ==
  /\ jobs[i][s].kind = "renew" /\ jobs[i][s].result = "ok"
  /\ cur[i] # 0
  /\ SetState(i, "leader")
  /\ Put(i, s, Empty)
  /\ UNCHANGED <<backendVars, cur, ticking, graceTimer, retryCount>>

\* A refusal, an exception, or a success that finds no currentLease to
\* update: stopRenewal and enterGracePeriod, whose first tryRenew takes the
\* slot s and whose timer takes slot g.
RenewFails(i, s, g) ==
  /\ jobs[i][s].kind = "renew"
  /\ jobs[i][s].result = "fail" \/ cur[i] = 0
  /\ Free(i, g)
  /\ SetTicking(i, FALSE)
  /\ SetState(i, "grace")
  /\ SetGrace(i, g)
  /\ \E answer \in [kind : {"try"}, result : {"ok", "fail"}, n : {1}] :
       /\ CallRenew(i, "try", 1, answer)
       /\ jobs' = [jobs EXCEPT ![i][s] = answer,
                               ![i][g] = Timer("graceTimer")]
  /\ UNCHANGED <<cur, retryCount>>

TryTimerFires(i, s) ==
  /\ jobs[i][s].kind = "tryTimer"
  /\ LET attempt == jobs[i][s].n + 1 IN
       \E answer \in [kind : {"try"}, result : {"ok", "fail"}, n : {attempt}] :
         CallRenew(i, "try", attempt, answer) /\ Put(i, s, answer)
  /\ UNCHANGED <<st, cur, ticking, graceTimer, retryCount>>

\* handleLeaseExpiration; a retry timer takes slot s of the jobs given.
Expire(i, s, remaining) ==
  /\ SetCur(i, 0)
  /\ \/ /\ CanRetry(i)
        /\ CountRetry(i)
        /\ SetState(i, "expired")
        /\ jobs' = [jobs EXCEPT ![i] =
                      [remaining EXCEPT ![s] = Timer("retryTimer")]]
     \/ /\ ~CanRetry(i)
        /\ SetState(i, "idle")
        /\ jobs' = [jobs EXCEPT ![i] = [remaining EXCEPT ![s] = Empty]]
        /\ UNCHANGED retryCount

TryOk(i, s) ==
  /\ jobs[i][s].kind = "try" /\ jobs[i][s].result = "ok"
  /\ SetGrace(i, NoSlot)
  /\ SetState(i, "leader")
  /\ SetTicking(i, TRUE)
  /\ jobs' = [jobs EXCEPT ![i] = [WithoutGrace(i) EXCEPT ![s] = Empty]]
  /\ UNCHANGED <<backendVars, cur, retryCount>>

TryAgain(i, s) ==
  /\ jobs[i][s].kind = "try" /\ jobs[i][s].result = "fail"
  /\ jobs[i][s].n < MaxAttempts
  /\ Put(i, s, Job("tryTimer", "none", jobs[i][s].n))
  /\ UNCHANGED <<backendVars, st, cur, ticking, graceTimer, retryCount>>

TryGivesUp(i, s) ==
  /\ jobs[i][s].kind = "try" /\ jobs[i][s].result = "fail"
  /\ jobs[i][s].n >= MaxAttempts
  /\ SetGrace(i, NoSlot)
  /\ Expire(i, s, WithoutGrace(i))
  /\ UNCHANGED <<backendVars, ticking>>

\* Mutation: the timer of the grace period does not end it.
GraceTimerIgnored(i, s) ==
  /\ jobs[i][s].kind = "graceTimer"
  /\ SetGrace(i, IF graceTimer[i] = s THEN NoSlot ELSE graceTimer[i])
  /\ Put(i, s, Empty)
  /\ UNCHANGED <<backendVars, st, cur, ticking, retryCount>>

\* A timer whose handle a second grace period overwrote still fires.
GraceTimerFires(i, s) ==
  /\ jobs[i][s].kind = "graceTimer"
  /\ SetGrace(i, IF graceTimer[i] = s THEN NoSlot ELSE graceTimer[i])
  /\ Expire(i, s, jobs[i])
  /\ UNCHANGED <<backendVars, ticking>>

-----------------------------------------------------------------------------
(* Giving the lease up.                                                    *)

ReleaseLease(i, s) ==
  /\ IsLeader(i) /\ cur[i] # 0
  /\ Free(i, s)
  /\ SetTicking(i, FALSE)
  /\ \E answer \in [kind : {"release"}, result : {"ok", "fail"}, n : {0}] :
       CallRelease(i, "release", answer) /\ Put(i, s, answer)
  /\ UNCHANGED <<st, cur, graceTimer, retryCount>>

\* The rest of releaseLease; a refusal or exception changes nothing.
AfterRelease(i, result) ==
  \/ result = "ok" /\ SetCur(i, 0) /\ SetState(i, "idle")
  \/ result = "fail" /\ UNCHANGED <<cur, st>>

ReleaseAnswered(i, s) ==
  /\ jobs[i][s].kind = "release"
  /\ AfterRelease(i, jobs[i][s].result)
  /\ Put(i, s, Empty)
  /\ UNCHANGED <<backendVars, ticking, graceTimer, retryCount>>

\* stop(): as a leader it first releases the lease, else it closes the
\* backend at once.
Stop(i, s) ==
  /\ WithoutGrace(i)[s] = Empty
  /\ SetTicking(i, FALSE)
  /\ SetGrace(i, NoSlot)
  /\ \E answer \in [kind : {"stop", "close"}, result : {"ok", "fail"}, n : {0}] :
       /\ \/ IsLeader(i) /\ cur[i] # 0 /\ CallRelease(i, "stop", answer)
          \/ /\ ~(IsLeader(i) /\ cur[i] # 0)
             /\ Close
             /\ answer = Job("close", "ok", 0)
       /\ jobs' = [jobs EXCEPT ![i] = [WithoutGrace(i) EXCEPT ![s] = answer]]
  /\ UNCHANGED <<st, cur, retryCount>>

StopReleased(i, s) ==
  /\ jobs[i][s].kind = "stop"
  /\ AfterRelease(i, jobs[i][s].result)
  /\ Close
  /\ Put(i, s, Job("close", "ok", 0))
  /\ UNCHANGED <<ticking, graceTimer, retryCount>>

\* Mutation: a stopped election is in a state that LeaseState does not have.
StopClosedStopped(i, s) ==
  /\ jobs[i][s].kind = "close"
  /\ SetState(i, "stopped")
  /\ Put(i, s, Empty)
  /\ UNCHANGED <<backendVars, cur, ticking, graceTimer, retryCount>>

StopClosed(i, s) ==
  /\ jobs[i][s].kind = "close"
  /\ SetState(i, "idle")
  /\ Put(i, s, Empty)
  /\ UNCHANGED <<backendVars, cur, ticking, graceTimer, retryCount>>

\* The process dies and a new object with the same instanceId takes over.
Restart(i) ==
  /\ SetState(i, "idle")
  /\ SetCur(i, 0)
  /\ SetTicking(i, FALSE)
  /\ SetGrace(i, NoSlot)
  /\ retryCount' = [retryCount EXCEPT ![i] = 0]
  /\ jobs' = [jobs EXCEPT ![i] = [s \in Slot |-> Empty]]
  /\ UNCHANGED backendVars

\* getCurrentLeader(): only the backend can change.
GetCurrentLeader ==
  /\ \E found \in {lease, NoLease} : GetLease(found)
  /\ UNCHANGED instVars

LeaseAges == Age /\ UNCHANGED instVars
-----------------------------------------------------------------------------
\* Calls of the application.
AppStep(i) ==
  \/ \E s \in Slot : Campaign(i, s) \/ ReleaseLease(i, s) \/ Stop(i, s)
  \/ Restart(i)

AnswerStep(i, s) ==
  \/ CampaignGranted(i, s) \/ CampaignRefused(i, s) \/ CampaignError(i, s)
  \/ RenewOk(i, s) \/ \E g \in Slot : RenewFails(i, s, g)
  \/ TryOk(i, s) \/ TryAgain(i, s) \/ TryGivesUp(i, s)
  \/ ReleaseAnswered(i, s) \/ StopReleased(i, s) \/ StopClosed(i, s)

TimerStep(i, s) ==
  RetryTimerFires(i, s) \/ TryTimerFires(i, s) \/ GraceTimerFires(i, s)

IntervalStep(i) == IdleTick(i) \/ \E s \in Slot : RenewTick(i, s)

Next ==
  \/ \E i \in Holder : AppStep(i) \/ IntervalStep(i)
  \/ \E i \in Holder, s \in Slot : AnswerStep(i, s) \/ TimerStep(i, s)
  \/ GetCurrentLeader
  \/ LeaseAges

Spec == Init /\ [][Next]_vars
-----------------------------------------------------------------------------
\* Fencing safety, whatever calls are retried, lost or answered late.
\* Two instances never hold the same token.
TokensAreUnique ==
  \A i, j \in Holder : i # j /\ cur[i] # 0 => cur[i] # cur[j]

\* An instance that keeps a token after the lease went to another one keeps
\* a strictly smaller token than the stored one, so that the comparison of
\* FencingTokenGuard rejects it.
StaleTokenIsSmaller ==
  \A i \in Holder :
    lease # NoLease /\ lease.holder # i => cur[i] < lease.token

\* The two together: campaign, renewLease, enterGracePeriod, releaseLease
\* and stop, in any interleaving, never let two instances pass the guard.
FencingSafe == TokensAreUnique /\ StaleTokenIsSmaller

=============================================================================
