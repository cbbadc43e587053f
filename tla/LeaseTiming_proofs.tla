-------------------------- MODULE LeaseTiming_proofs --------------------------
(***************************************************************************)
(* The lease election. First its fencing safety, whatever time does: for   *)
(* any number of instances, slots, retries and faults, and the refinement  *)
(* of the fenced lock by the lease store. Then leadership in real time:    *)
(* when the durations of the configuration fit, an instance that answers   *)
(* true to isLeader() has the stored lease, with time left.                *)
(***************************************************************************)
EXTENDS LeaseTiming, TLAPS

-----------------------------------------------------------------------------
(* The store.                                                              *)

\* Every operation of the store that the election calls leads from a well
\* formed store to a well formed one.
StoreStep ==
  \/ \E h \in Holder, ok \in BOOLEAN :
        Acquire(h, ok) \/ Renew(h, ok) \/ Release(h, ok)
  \/ \E found \in {lease, NoLease} : GetLease(found)
  \/ Close
  \/ Age
  \/ UNCHANGED backendVars

StoreOK == BackendTypeOK /\ StoredLeaseIsLatest

LEMMA StoreInit == BackendInit => StoreOK
<1> SUFFICES ASSUME BackendInit PROVE StoreOK
  OBVIOUS
<1>1. BackendTypeOK
  BY DEF BackendInit, BackendTypeOK, NoLease
<1>2. StoredLeaseIsLatest
  BY DEF BackendInit, StoredLeaseIsLatest
<1>3. QED
  BY <1>1, <1>2 DEF StoreOK

LEMMA StoreInv == StoreOK /\ StoreStep => StoreOK'
<1> SUFFICES ASSUME StoreOK, StoreStep PROVE StoreOK'
  OBVIOUS
<1> USE NobodyAssumption
    DEF StoreOK, BackendTypeOK, StoredLeaseIsLatest, NoLease
<1>1. ASSUME NEW h \in Holder, NEW ok \in BOOLEAN, Acquire(h, ok)
      PROVE  StoreOK'
  BY <1>1 DEF Acquire, Acquirable
<1>2. ASSUME NEW h \in Holder, NEW ok \in BOOLEAN, Renew(h, ok)
      PROVE  StoreOK'
  BY <1>2 DEF Renew, Renewable, ExpiredFor
<1>3. ASSUME NEW h \in Holder, NEW ok \in BOOLEAN, Release(h, ok)
      PROVE  StoreOK'
  BY <1>3 DEF Release, Releasable
<1>4. ASSUME NEW found, GetLease(found)
      PROVE  StoreOK'
  BY <1>4 DEF GetLease
<1>5. CASE Close
  BY <1>5 DEF Close
<1>6. CASE Age
  BY <1>6 DEF Age
<1>7. CASE UNCHANGED backendVars
  BY <1>7 DEF backendVars
<1>8. QED
  BY <1>1, <1>2, <1>3, <1>4, <1>5, <1>6, <1>7 DEF StoreStep

\* A step that gives nobody a token: the stored lease is removed or kept.
StoreKeeps ==
  /\ counter' = counter
  /\ lease'.holder # Nobody => lease'.holder = lease.holder
                               /\ lease'.token = lease.token

LEMMA StoreKeepsTokens ==
  ASSUME StoreOK,
         \/ \E h \in Holder, ok \in BOOLEAN : Renew(h, ok) \/ Release(h, ok)
         \/ \E found \in {lease, NoLease} : GetLease(found)
         \/ Close
         \/ Age
         \/ UNCHANGED backendVars
  PROVE  StoreStep /\ StoreKeeps
<1>1. StoreStep
  BY DEF StoreStep
<1>2. StoreKeeps
  <2> USE NobodyAssumption DEF StoreOK, BackendTypeOK, NoLease, StoreKeeps
  <2>1. ASSUME NEW h \in Holder, NEW ok \in BOOLEAN, Renew(h, ok)
        PROVE  StoreKeeps
    BY <2>1 DEF Renew
  <2>2. ASSUME NEW h \in Holder, NEW ok \in BOOLEAN, Release(h, ok)
        PROVE  StoreKeeps
    BY <2>2 DEF Release
  <2>3. ASSUME NEW found, GetLease(found)
        PROVE  StoreKeeps
    BY <2>3 DEF GetLease
  <2>4. CASE Close
    BY <2>4 DEF Close
  <2>5. CASE Age
    BY <2>5 DEF Age
  <2>6. CASE UNCHANGED backendVars
    BY <2>6 DEF backendVars
  <2>7. QED
    BY <2>1, <2>2, <2>3, <2>4, <2>5, <2>6
<1>3. QED
  BY <1>1, <1>2

\* An acquisition gives a new token to one instance, or keeps the store.
LEMMA AcquireGives ==
  ASSUME StoreOK, NEW h \in Holder, NEW ok \in BOOLEAN, Acquire(h, ok)
  PROVE  /\ StoreStep
         /\ ok => /\ counter' = counter + 1
                  /\ lease'.holder = h /\ lease'.token = counter + 1
         /\ ~ok => StoreKeeps
<1>1. StoreStep
  BY DEF StoreStep
<1>2. ok => /\ counter' = counter + 1
            /\ lease'.holder = h /\ lease'.token = counter + 1
  BY DEF Acquire
<1>3. ~ok => StoreKeeps
  BY DEF Acquire, StoreKeeps
<1>4. QED
  BY <1>1, <1>2, <1>3

-----------------------------------------------------------------------------
(* What an instance has been told, or is about to be told.                 *)

\* Instance i was granted token t: it is its current lease, an answer on its
\* way, or the stored lease.
Knows(i, t) ==
  \/ cur[i] = t
  \/ \E s \in Slot : jobs[i][s].kind = "campaign" /\ jobs[i][s].result = "ok"
                     /\ jobs[i][s].n = t
  \/ lease.holder = i /\ lease.token = t

TokensAreBounded == \A i \in Holder, t \in Nat \ {0} : Knows(i, t) => t <= counter

KnownByOne ==
  \A i, j \in Holder, t \in Nat \ {0} : Knows(i, t) /\ Knows(j, t) => i = j

\* FencingSafe is not inductive: a grant in flight and the stored lease have
\* to be told apart from the tokens of others as well.
IInv == TypeOK /\ StoredLeaseIsLatest /\ TokensAreBounded /\ KnownByOne

LEMMA Safe == IInv => FencingSafe
<1> SUFFICES ASSUME IInv PROVE FencingSafe
  OBVIOUS
<1>1. TokensAreUnique
  BY DEF IInv, TypeOK, TokensAreUnique, KnownByOne, Knows
<1>2. StaleTokenIsSmaller
  <2> SUFFICES ASSUME NEW i \in Holder, lease # NoLease, lease.holder # i
               PROVE  cur[i] < lease.token
    BY DEF StaleTokenIsSmaller
  <2>1. cur[i] \in Nat /\ lease.token = counter /\ counter \in Nat
        /\ lease.holder \in Holder
    BY DEF IInv, TypeOK, BackendTypeOK, StoredLeaseIsLatest
  <2>2. CASE cur[i] = 0
    BY <2>1, <2>2 DEF IInv, StoredLeaseIsLatest
  <2>3. CASE cur[i] # 0
    <3>1. cur[i] <= counter
      BY <2>1, <2>3 DEF IInv, TokensAreBounded, Knows
    <3>2. cur[i] # lease.token
      BY <2>1, <2>3 DEF IInv, KnownByOne, Knows
    <3>3. QED
      BY <2>1, <3>1, <3>2
  <2>4. QED
    BY <2>2, <2>3
<1>3. QED
  BY <1>1, <1>2 DEF FencingSafe

-----------------------------------------------------------------------------
(* The calls to the store.                                                 *)

\* What campaign() may be answered, and what the store has granted by then.
Granted(i, answer) ==
  \/ StoreKeeps /\ answer.result # "ok"
  \/ /\ counter' = counter + 1
     /\ lease'.holder = i /\ lease'.token = counter + 1
     /\ answer.result = "ok" => answer.n = counter + 1

LEMMA CampaignCall ==
  ASSUME StoreOK, NEW i \in Holder, NEW answer, CallAcquire(i, answer)
  PROVE  /\ StoreStep
         /\ answer \in JobType /\ answer.kind = "campaign"
         /\ Granted(i, answer)
<1> counter \in Nat
  BY DEF StoreOK, BackendTypeOK
<1> USE DEF Job, JobType, Calls, Granted
<1>1. CASE \E ok \in BOOLEAN :
             /\ Acquire(i, ok)
             /\ answer = IF ok THEN Job("campaign", "ok", counter + 1)
                               ELSE Job("campaign", "fail", 0)
  <2>1. PICK ok \in BOOLEAN :
             /\ Acquire(i, ok)
             /\ answer = IF ok THEN Job("campaign", "ok", counter + 1)
                               ELSE Job("campaign", "fail", 0)
    BY <1>1
  <2>2. StoreStep /\ (ok => counter' = counter + 1 /\ lease'.holder = i
                            /\ lease'.token = counter + 1)
        /\ (~ok => StoreKeeps)
    BY <2>1, AcquireGives
  <2>3. QED
    BY <2>1, <2>2
<1>2. CASE /\ (\E ok \in BOOLEAN : Acquire(i, ok)) \/ UNCHANGED backendVars
           /\ answer = Job("campaign", "error", 0)
  <2>1. ASSUME NEW ok \in BOOLEAN, Acquire(i, ok)
        PROVE  StoreStep /\ Granted(i, answer)
    BY <1>2, <2>1, AcquireGives
  <2>2. CASE UNCHANGED backendVars
    BY <1>2, <2>2, StoreKeepsTokens
  <2>3. QED
    BY <1>2, <2>1, <2>2
<1>3. QED
  BY <1>1, <1>2 DEF CallAcquire

LEMMA RenewalCall ==
  ASSUME StoreOK, NEW i \in Holder, NEW kind \in {"renew", "try"},
         NEW attempt \in Nat, NEW answer, CallRenew(i, kind, attempt, answer)
  PROVE  /\ StoreStep /\ StoreKeeps
         /\ answer \in JobType /\ answer.kind = kind
<1>1. answer \in JobType /\ answer.kind = kind
  BY DEF CallRenew, Job, JobType, Calls
<1>2. \/ \E h \in Holder, ok \in BOOLEAN : Renew(h, ok) \/ Release(h, ok)
      \/ UNCHANGED backendVars
  BY DEF CallRenew
<1>3. QED
  BY <1>1, <1>2, StoreKeepsTokens

LEMMA ReleaseCall ==
  ASSUME StoreOK, NEW i \in Holder, NEW kind \in {"release", "stop"},
         NEW answer, CallRelease(i, kind, answer)
  PROVE  /\ StoreStep /\ StoreKeeps
         /\ answer \in JobType /\ answer.kind = kind
<1>1. answer \in JobType /\ answer.kind = kind
  BY DEF CallRelease, Job, JobType, Calls
<1>2. \/ \E h \in Holder, ok \in BOOLEAN : Renew(h, ok) \/ Release(h, ok)
      \/ UNCHANGED backendVars
  BY DEF CallRelease
<1>3. QED
  BY <1>1, <1>2, StoreKeepsTokens

-----------------------------------------------------------------------------
(* What the instances learn in a step.                                     *)

\* Nobody learns of a token in a step of i, but i of the one after counter.
Learns(i) ==
  /\ counter' \in {counter, counter + 1}
  /\ \A j \in Holder, t \in Nat \ {0} :
       Knows(j, t)' => \/ Knows(j, t)
                       \/ j = i /\ t = counter + 1 /\ counter' = counter + 1

LEMMA LearningIsSafe ==
  ASSUME TypeOK, TokensAreBounded, KnownByOne, NEW i \in Holder, Learns(i)
  PROVE  TokensAreBounded' /\ KnownByOne'
<1> counter \in Nat
  BY DEF TypeOK, BackendTypeOK
<1>1. TokensAreBounded'
  BY DEF TokensAreBounded, Learns
<1>2. ASSUME NEW j \in Holder, NEW k \in Holder, NEW t \in Nat \ {0},
             Knows(j, t)', Knows(k, t)'
      PROVE  j = k
  BY <1>2 DEF TokensAreBounded, KnownByOne, Learns
<1>3. QED
  BY <1>1, <1>2 DEF KnownByOne

\* No campaign is answered with a grant that was not on its way before.
NoNewGrants ==
  \A j \in Holder, s \in Slot :
    jobs'[j][s].kind = "campaign" /\ jobs'[j][s].result = "ok"
      => jobs'[j][s] = jobs[j][s]

LEMMA QuietStep ==
  ASSUME TypeOK, NEW i \in Holder, StoreKeeps, NoNewGrants,
         \A j \in Holder : cur'[j] \in {cur[j], 0}
  PROVE  Learns(i)
<1> counter \in Nat
  BY DEF TypeOK, BackendTypeOK
<1>1. counter' = counter
  BY DEF StoreKeeps
<1>2. ASSUME NEW j \in Holder, NEW t \in Nat \ {0}, Knows(j, t)'
      PROVE  Knows(j, t)
  BY <1>2, NobodyAssumption DEF Knows, StoreKeeps, NoNewGrants
<1>3. QED
  BY <1>1, <1>2 DEF Learns

\* The part of the invariant that a step can break: the types of the
\* instances' variables, the store, and what is learned.
StepOK(i) == StoreStep /\ TypeOK' /\ Learns(i)

LEMMA StepOKPreservesIInv ==
  ASSUME IInv, NEW i \in Holder, StepOK(i)
  PROVE  IInv'
<1>1. StoreOK'
  BY StoreInv DEF IInv, TypeOK, StoreOK, StepOK
<1>2. TokensAreBounded' /\ KnownByOne'
  BY LearningIsSafe DEF IInv, StepOK
<1>3. QED
  BY <1>1, <1>2 DEF IInv, StoreOK, StepOK

-----------------------------------------------------------------------------
(* The steps of an instance.                                               *)

\* Every call of the store leaves its variables typed.
LEMMA StoreTyped == ASSUME StoreOK, StoreStep PROVE BackendTypeOK'
BY StoreInv DEF StoreOK

\* Waiting for one job that is no granted campaign teaches nothing.
LEMMA PutQuiet ==
  ASSUME TypeOK, NEW i \in Holder, NEW s \in Slot, NEW j \in JobType,
         j.kind # "campaign" \/ j.result # "ok", Put(i, s, j)
  PROVE  jobs' \in [Holder -> [Slot -> JobType]] /\ NoNewGrants
BY DEF TypeOK, Put, NoNewGrants

LEMMA JobsTyped ==
  /\ Empty \in JobType /\ Empty.kind = "none"
  /\ \A kind \in Timers : Timer(kind) \in JobType /\ Timer(kind).kind = kind
  /\ \A n \in Nat : /\ Job("tryTimer", "none", n) \in JobType
                    /\ Job("tryTimer", "none", n).kind = "tryTimer"
  /\ Job("close", "ok", 0) \in JobType /\ Job("close", "ok", 0).kind = "close"
BY DEF Empty, Timer, Job, JobType, Timers, Calls

LEMMA CountTyped ==
  ASSUME TypeOK, NEW i \in Holder, CountRetry(i)
  PROVE  retryCount' \in [Holder -> Nat]
BY DEF TypeOK, CountRetry

LEMMA CampaignStep ==
  ASSUME IInv, NEW i \in Holder, NEW s \in Slot, BeginCampaign(i, s)
  PROVE  StepOK(i)
<1> DEFINE J == jobs'[i][s]
<1> StoreOK /\ counter \in Nat
  BY DEF IInv, TypeOK, StoreOK, BackendTypeOK
<1>1. PICK answer : CallAcquire(i, answer) /\ Put(i, s, answer)
  BY DEF BeginCampaign
<1>2. /\ StoreStep
      /\ answer \in JobType /\ answer.kind = "campaign"
      /\ Granted(i, answer)
  BY <1>1, CampaignCall
<1>3. TypeOK'
  BY <1>1, <1>2, StoreTyped DEF IInv, TypeOK, BeginCampaign, SetState, Put
<1>4. Learns(i)
  <2>1. CASE StoreKeeps /\ answer.result # "ok"
    <3>1. NoNewGrants
      BY <1>1, <2>1 DEF IInv, TypeOK, Put, NoNewGrants
    <3>2. QED
      BY <2>1, <3>1, QuietStep DEF IInv, BeginCampaign
  <2>2. CASE /\ counter' = counter + 1
             /\ lease'.holder = i /\ lease'.token = counter + 1
             /\ answer.result = "ok" => answer.n = counter + 1
    <3>1. ASSUME NEW j \in Holder, NEW t \in Nat \ {0}, Knows(j, t)',
                 ~Knows(j, t)
          PROVE  j = i /\ t = counter + 1
      BY <1>1, <2>2, <3>1 DEF IInv, TypeOK, Put, Knows, BeginCampaign
    <3>2. QED
      BY <2>2, <3>1 DEF Learns
  <2>3. QED
    BY <1>2, <2>1, <2>2 DEF Granted
<1>5. QED
  BY <1>2, <1>3, <1>4 DEF StepOK

\* The answer of a campaign: the token of a grant becomes the current one.
LEMMA CampaignAnswers ==
  ASSUME IInv, NEW i \in Holder, NEW s \in Slot,
         \/ CampaignGranted(i, s) \/ CampaignRefused(i, s)
         \/ CampaignError(i, s)
  PROVE  StepOK(i)
<1> StoreOK /\ counter \in Nat
  BY DEF IInv, TypeOK, StoreOK, BackendTypeOK
<1>1. UNCHANGED backendVars
  BY DEF CampaignGranted, CampaignRefused, CampaignError
<1>2. StoreStep /\ StoreKeeps
  BY <1>1, StoreKeepsTokens
<1> USE DEF IInv, TypeOK, SetState, SetCur, SetTicking
<1>3. CASE CampaignGranted(i, s)
  <2>1. TypeOK'
    <3>1. jobs' \in [Holder -> [Slot -> JobType]]
      BY <1>3, PutQuiet, JobsTyped DEF CampaignGranted
    <3>2. jobs[i][s].n \in Nat
      BY DEF JobType
    <3>3. QED
      BY <1>2, <1>3, <3>1, <3>2, StoreTyped DEF CampaignGranted
  <2>2. Learns(i)
    <3>1. ASSUME NEW j \in Holder, NEW t \in Nat \ {0}, Knows(j, t)'
          PROVE  Knows(j, t)
      <4>1. lease' = lease
        BY <1>1 DEF backendVars
      <4>2. CASE j = i /\ cur'[j] = t
        BY <1>3, <4>2 DEF CampaignGranted, Knows
      <4>3. CASE \E r \in Slot : /\ jobs'[j][r].kind = "campaign"
                                 /\ jobs'[j][r].result = "ok"
                                 /\ jobs'[j][r].n = t
        BY <1>3, <4>3 DEF CampaignGranted, Knows, Put, Empty, Job
      <4>4. QED
        BY <1>3, <3>1, <4>1, <4>2, <4>3 DEF CampaignGranted, Knows
    <3>2. counter' = counter
      BY <1>1 DEF backendVars
    <3>3. QED
      BY <3>1, <3>2 DEF Learns
  <2>3. QED
    BY <1>2, <2>1, <2>2 DEF StepOK
<1>4. CASE CampaignRefused(i, s)
  <2>1. jobs' \in [Holder -> [Slot -> JobType]] /\ NoNewGrants
    BY <1>4, PutQuiet, JobsTyped DEF CampaignRefused, Timers
  <2>2. retryCount' \in [Holder -> Nat]
    BY <1>4, CountTyped DEF CampaignRefused
  <2>3. TypeOK' /\ \A j \in Holder : cur'[j] \in {cur[j], 0}
    BY <1>2, <1>4, <2>1, <2>2, StoreTyped DEF CampaignRefused
  <2>4. QED
    BY <1>2, <2>1, <2>3, QuietStep DEF StepOK
<1>5. CASE CampaignError(i, s)
  <2>1. jobs' \in [Holder -> [Slot -> JobType]] /\ NoNewGrants
    BY <1>5, PutQuiet, JobsTyped DEF CampaignError
  <2>2. TypeOK' /\ \A j \in Holder : cur'[j] \in {cur[j], 0}
    BY <1>2, <1>5, <2>1, StoreTyped DEF CampaignError
  <2>3. QED
    BY <1>2, <2>1, <2>2, QuietStep DEF StepOK
<1>6. QED
  BY <1>3, <1>4, <1>5

\* A step of i in which nobody learns of a token.
LEMMA QuietStepOK ==
  ASSUME IInv, NEW i \in Holder, StoreStep, StoreKeeps, NoNewGrants,
         st' \in [Holder -> {"idle", "campaigning", "leader", "renewing",
                             "grace", "expired"}],
         cur' \in [Holder -> Nat],
         \A j \in Holder : cur'[j] \in {cur[j], 0},
         ticking' \in [Holder -> BOOLEAN],
         graceTimer' \in [Holder -> Slot \cup {NoSlot}],
         retryCount' \in [Holder -> Nat],
         jobs' \in [Holder -> [Slot -> JobType]]
  PROVE  StepOK(i)
<1>1. TypeOK'
  BY StoreTyped DEF IInv, TypeOK, StoreOK
<1>2. Learns(i)
  BY QuietStep DEF IInv
<1>3. QED
  BY <1>1, <1>2 DEF StepOK

LEMMA UnchangedStore ==
  ASSUME IInv, UNCHANGED backendVars
  PROVE  StoreStep /\ StoreKeeps
BY StoreKeepsTokens DEF IInv, TypeOK, StoreOK

\* Steps that ask for a renewal and wait for the answer in one slot.
LEMMA RenewalSteps ==
  ASSUME IInv, NEW i \in Holder, NEW s \in Slot,
         RenewTick(i, s) \/ TryTimerFires(i, s)
  PROVE  StepOK(i)
<1> StoreOK
  BY DEF IInv, TypeOK, StoreOK
<1>1. CASE RenewTick(i, s)
  <2>1. PICK answer : CallRenew(i, "renew", 0, answer) /\ Put(i, s, answer)
    BY <1>1 DEF RenewTick
  <2>2. StoreStep /\ StoreKeeps /\ answer \in JobType /\ answer.kind = "renew"
    BY <2>1, RenewalCall
  <2>3. jobs' \in [Holder -> [Slot -> JobType]] /\ NoNewGrants
    BY <2>1, <2>2, PutQuiet DEF IInv
  <2>4. QED
    BY <1>1, <2>2, <2>3, QuietStepOK DEF RenewTick, SetState, IInv, TypeOK
<1>2. CASE TryTimerFires(i, s)
  <2>1. PICK answer :
          CallRenew(i, "try", jobs[i][s].n + 1, answer) /\ Put(i, s, answer)
    BY <1>2 DEF TryTimerFires
  <2>2. jobs[i][s].n + 1 \in Nat
    BY DEF IInv, TypeOK, JobType
  <2>3. StoreStep /\ StoreKeeps /\ answer \in JobType /\ answer.kind = "try"
    BY <2>1, <2>2, RenewalCall
  <2>4. jobs' \in [Holder -> [Slot -> JobType]] /\ NoNewGrants
    BY <2>1, <2>3, PutQuiet DEF IInv
  <2>5. QED
    BY <1>2, <2>3, <2>4, QuietStepOK DEF TryTimerFires, IInv, TypeOK
<1>3. QED
  BY <1>1, <1>2

\* Entering the grace period: an attempt and a timer.
LEMMA GraceStep ==
  ASSUME IInv, NEW i \in Holder, NEW s \in Slot, NEW g \in Slot,
         RenewFails(i, s, g)
  PROVE  StepOK(i)
<1> StoreOK
  BY DEF IInv, TypeOK, StoreOK
<1>1. PICK answer :
        /\ CallRenew(i, "try", 1, answer)
        /\ jobs' = [jobs EXCEPT ![i][s] = answer,
                                ![i][g] = Timer("graceTimer")]
  BY DEF RenewFails
<1>2. StoreStep /\ StoreKeeps /\ answer \in JobType /\ answer.kind = "try"
  BY <1>1, RenewalCall
<1>3. Timer("graceTimer") \in JobType /\ Timer("graceTimer").kind = "graceTimer"
  BY JobsTyped DEF Timers
<1>4. jobs' \in [Holder -> [Slot -> JobType]] /\ NoNewGrants
  BY <1>1, <1>2, <1>3 DEF IInv, TypeOK, NoNewGrants
<1>5. QED
  BY <1>2, <1>4, QuietStepOK
     DEF RenewFails, SetState, SetTicking, SetGrace, IInv, TypeOK

LEMMA AfterReleaseTyped ==
  ASSUME IInv, NEW i \in Holder, NEW result, AfterRelease(i, result)
  PROVE  /\ cur' \in [Holder -> Nat]
         /\ \A j \in Holder : cur'[j] \in {cur[j], 0}
         /\ st' \in [Holder -> {"idle", "campaigning", "leader", "renewing",
                                "grace", "expired"}]
<1> USE DEF IInv, TypeOK, AfterRelease, SetCur, SetState
<1>1. CASE result = "ok"
  BY <1>1
<1>2. CASE result = "fail"
  BY <1>2
<1>3. QED
  BY <1>1, <1>2

\* Answers that free or reuse their slot.
LEMMA AnswerSteps ==
  ASSUME IInv, NEW i \in Holder, NEW s \in Slot,
         \/ RenewOk(i, s) \/ TryAgain(i, s)
         \/ ReleaseAnswered(i, s) \/ StopClosed(i, s)
  PROVE  StepOK(i)
<1>1. StoreStep /\ StoreKeeps
  BY UnchangedStore DEF RenewOk, TryAgain, ReleaseAnswered, StopClosed
<1>2. jobs[i][s].n \in Nat
  BY DEF IInv, TypeOK, JobType
<1>3. jobs' \in [Holder -> [Slot -> JobType]] /\ NoNewGrants
  <2>1. PICK j \in JobType : j.kind # "campaign" /\ Put(i, s, j)
    BY <1>2, JobsTyped DEF RenewOk, TryAgain, ReleaseAnswered, StopClosed
  <2>2. QED
    BY <2>1, PutQuiet DEF IInv
<1> USE <1>1, <1>3, QuietStepOK DEF IInv, TypeOK, SetState, SetCur
<1>4. CASE RenewOk(i, s)
  BY <1>4 DEF RenewOk
<1>5. CASE TryAgain(i, s)
  BY <1>5 DEF TryAgain
<1>6. CASE ReleaseAnswered(i, s)
  <2>1. /\ cur' \in [Holder -> Nat]
        /\ \A j \in Holder : cur'[j] \in {cur[j], 0}
        /\ st' \in [Holder -> {"idle", "campaigning", "leader", "renewing",
                               "grace", "expired"}]
    BY <1>6, AfterReleaseTyped DEF ReleaseAnswered
  <2>2. QED
    BY <1>6, <2>1 DEF ReleaseAnswered
<1>7. CASE StopClosed(i, s)
  BY <1>7 DEF StopClosed
<1>8. QED
  BY <1>4, <1>5, <1>6, <1>7

\* The jobs that are left once the grace timer is cleared.
LEMMA WithoutGraceTyped ==
  ASSUME IInv, NEW i \in Holder
  PROVE  /\ WithoutGrace(i) \in [Slot -> JobType]
         /\ \A s \in Slot : WithoutGrace(i)[s] \in {jobs[i][s], Empty}
BY JobsTyped DEF WithoutGrace, IInv, TypeOK

\* Replacing the jobs of i by fewer ones and one that is no grant.
LEMMA ReplaceQuiet ==
  ASSUME IInv, NEW i \in Holder, NEW s \in Slot, NEW j \in JobType,
         j.kind # "campaign", NEW remaining \in [Slot -> JobType],
         \A r \in Slot : remaining[r] \in {jobs[i][r], Empty},
         jobs' = [jobs EXCEPT ![i] = [remaining EXCEPT ![s] = j]]
  PROVE  jobs' \in [Holder -> [Slot -> JobType]] /\ NoNewGrants
BY JobsTyped DEF IInv, TypeOK, NoNewGrants

\* handleLeaseExpiration: the lease is dropped and a retry may be scheduled.
LEMMA ExpireTyped ==
  ASSUME IInv, NEW i \in Holder, NEW s \in Slot,
         NEW remaining \in [Slot -> JobType],
         \A r \in Slot : remaining[r] \in {jobs[i][r], Empty},
         Expire(i, s, remaining)
  PROVE  /\ jobs' \in [Holder -> [Slot -> JobType]] /\ NoNewGrants
         /\ cur' \in [Holder -> Nat]
         /\ \A j \in Holder : cur'[j] \in {cur[j], 0}
         /\ st' \in [Holder -> {"idle", "campaigning", "leader", "renewing",
                                "grace", "expired"}]
         /\ retryCount' \in [Holder -> Nat]
<1>1. jobs' \in [Holder -> [Slot -> JobType]] /\ NoNewGrants
  <2>1. PICK j \in JobType :
          /\ j.kind # "campaign"
          /\ jobs' = [jobs EXCEPT ![i] = [remaining EXCEPT ![s] = j]]
    BY JobsTyped DEF Expire, Timers
  <2>2. QED
    BY <2>1, ReplaceQuiet
<1>2. cur' \in [Holder -> Nat] /\ \A j \in Holder : cur'[j] \in {cur[j], 0}
  BY DEF Expire, SetCur, IInv, TypeOK
<1>3. st' \in [Holder -> {"idle", "campaigning", "leader", "renewing",
                          "grace", "expired"}]
  BY DEF Expire, SetState, IInv, TypeOK
<1>4. retryCount' \in [Holder -> Nat]
  BY CountTyped DEF Expire, IInv, TypeOK
<1>5. QED
  BY <1>1, <1>2, <1>3, <1>4

\* The steps that end a grace period.
LEMMA GraceEnds ==
  ASSUME IInv, NEW i \in Holder, NEW s \in Slot,
         TryOk(i, s) \/ TryGivesUp(i, s) \/ GraceTimerFires(i, s)
  PROVE  StepOK(i)
<1>1. StoreStep /\ StoreKeeps
  BY UnchangedStore DEF TryOk, TryGivesUp, GraceTimerFires
<1>2. CASE TryOk(i, s)
  <2>1. jobs' \in [Holder -> [Slot -> JobType]] /\ NoNewGrants
    BY <1>2, JobsTyped, WithoutGraceTyped, ReplaceQuiet DEF TryOk
  <2>2. QED
    BY <1>1, <1>2, <2>1, QuietStepOK
       DEF TryOk, SetGrace, SetState, SetTicking, IInv, TypeOK
<1>3. CASE TryGivesUp(i, s)
  <2>1. Expire(i, s, WithoutGrace(i)) /\ ticking' = ticking
        /\ graceTimer' \in [Holder -> Slot \cup {NoSlot}]
    BY <1>3 DEF TryGivesUp, SetGrace, IInv, TypeOK
  <2>2. QED
    BY <1>1, <2>1, WithoutGraceTyped, ExpireTyped, QuietStepOK
       DEF IInv, TypeOK
<1>4. CASE GraceTimerFires(i, s)
  <2>1. Expire(i, s, jobs[i]) /\ ticking' = ticking
        /\ graceTimer' \in [Holder -> Slot \cup {NoSlot}]
    BY <1>4 DEF GraceTimerFires, SetGrace, IInv, TypeOK
  <2>2. jobs[i] \in [Slot -> JobType]
    BY DEF IInv, TypeOK
  <2>3. QED
    BY <1>1, <2>1, <2>2, ExpireTyped, QuietStepOK DEF IInv, TypeOK
<1>5. QED
  BY <1>2, <1>3, <1>4

\* Giving up the lease, and the restart of the process.
LEMMA ReleaseStep ==
  ASSUME IInv, NEW i \in Holder, NEW s \in Slot, ReleaseLease(i, s)
  PROVE  StepOK(i)
<1> StoreOK
  BY DEF IInv, TypeOK, StoreOK
<1>1. PICK answer : CallRelease(i, "release", answer) /\ Put(i, s, answer)
  BY DEF ReleaseLease
<1>2. StoreStep /\ StoreKeeps /\ answer \in JobType /\ answer.kind = "release"
  BY <1>1, ReleaseCall
<1>3. jobs' \in [Holder -> [Slot -> JobType]] /\ NoNewGrants
  BY <1>1, <1>2, PutQuiet DEF IInv
<1>4. QED
  BY <1>2, <1>3, QuietStepOK DEF ReleaseLease, SetTicking, IInv, TypeOK

LEMMA StopStep ==
  ASSUME IInv, NEW i \in Holder, NEW s \in Slot, Stop(i, s)
  PROVE  StepOK(i)
<1> StoreOK
  BY DEF IInv, TypeOK, StoreOK
<1>1. PICK answer :
        /\ \/ CallRelease(i, "stop", answer)
           \/ Close /\ answer = Job("close", "ok", 0)
        /\ jobs' = [jobs EXCEPT ![i] = [WithoutGrace(i) EXCEPT ![s] = answer]]
  BY DEF Stop
<1>2. StoreStep /\ StoreKeeps /\ answer \in JobType
      /\ answer.kind # "campaign"
  <2>1. CASE CallRelease(i, "stop", answer)
    BY <2>1, ReleaseCall
  <2>2. CASE Close /\ answer = Job("close", "ok", 0)
    BY <2>2, StoreKeepsTokens, JobsTyped
  <2>3. QED
    BY <1>1, <2>1, <2>2
<1>3. jobs' \in [Holder -> [Slot -> JobType]] /\ NoNewGrants
  BY <1>1, <1>2, WithoutGraceTyped, ReplaceQuiet
<1>4. QED
  BY <1>2, <1>3, QuietStepOK DEF Stop, SetTicking, SetGrace, IInv, TypeOK

LEMMA StopReleasedStep ==
  ASSUME IInv, NEW i \in Holder, NEW s \in Slot, StopReleased(i, s)
  PROVE  StepOK(i)
<1>1. StoreStep /\ StoreKeeps
  BY StoreKeepsTokens DEF StopReleased, IInv, TypeOK, StoreOK
<1>2. jobs' \in [Holder -> [Slot -> JobType]] /\ NoNewGrants
  BY PutQuiet, JobsTyped DEF StopReleased, IInv
<1>3. QED
  BY <1>1, <1>2, AfterReleaseTyped, QuietStepOK DEF StopReleased, IInv, TypeOK

LEMMA RestartStep ==
  ASSUME IInv, NEW i \in Holder, Restart(i)
  PROVE  StepOK(i)
<1>1. StoreStep /\ StoreKeeps
  BY UnchangedStore DEF Restart
<1>2. jobs' \in [Holder -> [Slot -> JobType]] /\ NoNewGrants
  BY JobsTyped DEF Restart, IInv, TypeOK, NoNewGrants
<1>3. QED
  BY <1>1, <1>2, QuietStepOK
     DEF Restart, SetState, SetCur, SetTicking, SetGrace, IInv, TypeOK

LEMMA IdleTickStep ==
  ASSUME IInv, NEW i \in Holder, IdleTick(i)
  PROVE  StepOK(i)
<1>1. StoreStep /\ StoreKeeps
  BY UnchangedStore DEF IdleTick
<1>2. NoNewGrants
  BY DEF IdleTick, NoNewGrants
<1>3. QED
  BY <1>1, <1>2, QuietStepOK DEF IdleTick, SetTicking, IInv, TypeOK

\* Steps of the store alone, and stuttering.
LEMMA StoreOnlyStep ==
  ASSUME IInv, GetCurrentLeader \/ LeaseAges \/ UNCHANGED vars
  PROVE  IInv'
<1>1. UNCHANGED instVars
  BY DEF GetCurrentLeader, LeaseAges, vars
<1>2. StoreStep /\ StoreKeeps
  BY StoreKeepsTokens
     DEF GetCurrentLeader, LeaseAges, vars, IInv, TypeOK, StoreOK
<1>3. NoNewGrants
  BY <1>1 DEF instVars, NoNewGrants
<1>4. ASSUME NEW i \in Holder PROVE StepOK(i)
  BY <1>1, <1>2, <1>3, QuietStepOK DEF instVars, IInv, TypeOK
<1>5. CASE Holder = {}
  <2>1. StoreOK'
    BY <1>2, StoreInv DEF IInv, TypeOK, StoreOK
  <2>2. TypeOK'
    BY <1>1, <2>1 DEF instVars, IInv, TypeOK, StoreOK
  <2>3. QED
    BY <1>5, <2>1, <2>2 DEF IInv, StoreOK, TokensAreBounded, KnownByOne
<1>6. CASE Holder # {}
  BY <1>4, <1>6, StepOKPreservesIInv
<1>7. QED
  BY <1>5, <1>6

-----------------------------------------------------------------------------
(* The theorems.                                                           *)

LEMMA InitIInv == Init => IInv
<1> SUFFICES ASSUME Init PROVE IInv
  OBVIOUS
<1>1. StoreOK
  BY StoreInit DEF Init
<1>2. TypeOK
  BY <1>1, JobsTyped DEF Init, TypeOK, StoreOK
<1>3. \A i \in Holder, t \in Nat \ {0} : ~Knows(i, t)
  BY JobsTyped, NobodyAssumption DEF Init, BackendInit, NoLease, Knows
<1>4. QED
  BY <1>1, <1>2, <1>3 DEF IInv, StoreOK, TokensAreBounded, KnownByOne

LEMMA NextIInv == IInv /\ [Next]_vars => IInv'
<1> SUFFICES ASSUME IInv, [Next]_vars PROVE IInv'
  OBVIOUS
<1>1. ASSUME NEW i \in Holder, AppStep(i)
      PROVE  IInv'
  BY <1>1, CampaignStep, ReleaseStep, StopStep, RestartStep,
     StepOKPreservesIInv DEF AppStep, Campaign
<1>2. ASSUME NEW i \in Holder, IntervalStep(i)
      PROVE  IInv'
  BY <1>2, IdleTickStep, RenewalSteps, StepOKPreservesIInv DEF IntervalStep
<1>3. ASSUME NEW i \in Holder, NEW s \in Slot, AnswerStep(i, s)
      PROVE  IInv'
  BY <1>3, CampaignAnswers, AnswerSteps, GraceStep, GraceEnds,
     StopReleasedStep, StepOKPreservesIInv DEF AnswerStep
<1>4. ASSUME NEW i \in Holder, NEW s \in Slot, TimerStep(i, s)
      PROVE  IInv'
  BY <1>4, CampaignStep, RenewalSteps, GraceEnds, StepOKPreservesIInv
     DEF TimerStep, RetryTimerFires
<1>5. CASE GetCurrentLeader \/ LeaseAges \/ UNCHANGED vars
  BY <1>5, StoreOnlyStep
<1>6. QED
  BY <1>1, <1>2, <1>3, <1>4, <1>5 DEF Next

\* Every instance's state, timers and answers on their way stay in the
\* domains LeaseBasedElection.ts and LeaseBackends.ts declare, however the
\* calls, answers and timers interleave.
THEOREM TypeCorrect == Spec => []TypeOK
<1>1. IInv => TypeOK
  BY DEF IInv
<1>2. QED
  BY <1>1, InitIInv, NextIInv, PTL DEF Spec

\* Fencing safety: for any number of instances and outstanding calls, with
\* calls lost or answered late and processes restarting, no two instances
\* hold the same token, and who lost the lease to another holds a smaller one.
THEOREM FencingSafety == Spec => []FencingSafe
BY InitIInv, NextIInv, Safe, PTL DEF Spec

\* No operation of the election keeps or revives a superseded lease.
THEOREM LatestLeaseIsStored == Spec => []StoredLeaseIsLatest
<1>1. IInv => StoredLeaseIsLatest
  BY DEF IInv
<1>2. QED
  BY <1>1, InitIInv, NextIInv, PTL DEF Spec

-----------------------------------------------------------------------------
(* The election uses its store as a fenced lock.                           *)

LEMMA NextStore == IInv /\ [Next]_vars => StoreStep
<1> SUFFICES ASSUME IInv, [Next]_vars PROVE StoreStep
  OBVIOUS
<1>1. ASSUME NEW i \in Holder, AppStep(i) \/ IntervalStep(i)
      PROVE  StoreStep
  BY <1>1, CampaignStep, ReleaseStep, StopStep, RestartStep, IdleTickStep,
     RenewalSteps DEF AppStep, IntervalStep, Campaign, StepOK
<1>2. ASSUME NEW i \in Holder, NEW s \in Slot,
             AnswerStep(i, s) \/ TimerStep(i, s)
      PROVE  StoreStep
  BY <1>2, CampaignAnswers, AnswerSteps, GraceStep, GraceEnds,
     StopReleasedStep, CampaignStep, RenewalSteps
     DEF AnswerStep, TimerStep, RetryTimerFires, StepOK
<1>3. CASE GetCurrentLeader \/ LeaseAges \/ UNCHANGED vars
  BY <1>3, StoreKeepsTokens
     DEF GetCurrentLeader, LeaseAges, vars, IInv, TypeOK, StoreOK
<1>4. QED
  BY <1>1, <1>2, <1>3 DEF Next

LEMMA StoreRefines == StoreOK /\ StoreStep => [Lock!Next]_(Lock!lockVars)
<1> SUFFICES ASSUME StoreOK, StoreStep PROVE [Lock!Next]_(Lock!lockVars)
  OBVIOUS
<1> USE NobodyAssumption
    DEF StoreOK, BackendTypeOK, StoredLeaseIsLatest, NoLease,
        Lock!Next, Lock!lockVars
<1>1. ASSUME NEW h \in Holder, NEW ok \in BOOLEAN, Acquire(h, ok)
      PROVE  Lock!Grant(h) \/ UNCHANGED Lock!lockVars
  BY <1>1 DEF Acquire, Acquirable, Lock!Grant
<1>2. ASSUME NEW h \in Holder, NEW ok \in BOOLEAN, Renew(h, ok)
      PROVE  Lock!Revive \/ UNCHANGED Lock!lockVars
  BY <1>2 DEF Renew, Renewable, ExpiredFor, Lock!Revive
<1>3. ASSUME NEW h \in Holder, NEW ok \in BOOLEAN, Release(h, ok)
      PROVE  Lock!Free \/ UNCHANGED Lock!lockVars
  BY <1>3 DEF Release, Releasable, Lock!Free
<1>4. ASSUME NEW found, GetLease(found)
      PROVE  UNCHANGED Lock!lockVars
  BY <1>4 DEF GetLease
<1>5. CASE Close
  BY <1>5 DEF Close
<1>6. CASE Age
  BY <1>6 DEF Age, Lock!Lapse, Lock!Free
<1>7. CASE UNCHANGED backendVars
  BY <1>7 DEF backendVars
<1>8. QED
  BY <1>1, <1>2, <1>3, <1>4, <1>5, <1>6, <1>7 DEF StoreStep

\* Under every interleaving of the election the store behaves as the fenced
\* lock: it is granted only when it is not held, under a new number each
\* time, and revived only for the holder of the latest grant.
THEOREM ElectionImplementsFencedLock == Spec => ImplementsFencedLock
<1>1. Init => Lock!Init
  BY DEF Init, BackendInit, NoLease, Lock!Init
<1>2. IInv /\ [Next]_vars => [Lock!Next]_(Lock!lockVars)
  BY NextStore, StoreRefines DEF IInv, TypeOK, StoreOK
<1>3. QED
  BY <1>1, <1>2, InitIInv, NextIInv, PTL DEF Spec, ImplementsFencedLock, Lock!Spec


-----------------------------------------------------------------------------
(* Where an instance stands, and how long its lease has to last.           *)

\* The stored lease is i's, under token t, and outlasts the time given.
Holds(i, t, time) ==
  t # 0 /\ lease.holder = i /\ lease.token = t /\ time < left

\* What the lease has to outlast when i becomes leader: an interval, the answer
\* to a renewal, and the grace period.
Margin == RenewalInterval + Latency + GracePeriod

\* How long the attempts after the n-th may take.
Rest(n) == IF n < MaxAttempts
           THEN (MaxAttempts - n) * (Latency + AttemptDelay) ELSE 0

\* Waiting in slot s for the answer to a campaign, or to make the next.
Asks(i, s) ==
  \/ jobs[i][s].kind = "retryTimer"
  \/ /\ jobs[i][s].kind = "campaign"
     /\ jobs[i][s].result = "ok" => Holds(i, jobs[i][s].n, due[i][s] + Margin)

\* An instance that does not lead waits for one thing at most.
Aside(i) ==
  /\ st[i] \in {"idle", "campaigning", "expired"}
  /\ cur[i] = 0 /\ ~ticking[i] /\ graceTimer[i] = NoSlot
  /\ \A s \in Slot : Free(i, s) \/ Asks(i, s)
  /\ \A r, s \in Slot : Free(i, r) \/ Free(i, s) \/ r = s

\* A leader waits for the interval alone.
Leads(i) ==
  /\ st[i] = "leader"
  /\ ticking[i] /\ graceTimer[i] = NoSlot
  /\ \A s \in Slot : Free(i, s)
  /\ Holds(i, cur[i], tickDue[i] + Latency + GracePeriod)

\* A renewal is under way in slot s and answered before the interval is over.
RenewsIn(i, s) ==
  /\ st[i] = "renewing"
  /\ ticking[i] /\ graceTimer[i] = NoSlot
  /\ jobs[i][s].kind = "renew"
  /\ \A r \in Slot \ {s} : Free(i, r)
  /\ due[i][s] < tickDue[i]
  /\ IF jobs[i][s].result = "ok"
     THEN Holds(i, cur[i], tickDue[i] + Latency + GracePeriod)
     ELSE Holds(i, cur[i], due[i][s] + GracePeriod)

\* The attempts of a grace period, the one in slot s and those to come, are
\* over before the given time.
Tries(i, s, time) ==
  \/ /\ jobs[i][s].kind = "try"
     /\ due[i][s] + Rest(jobs[i][s].n) < time
     /\ jobs[i][s].result = "ok" => Holds(i, cur[i], due[i][s] + Margin)
  \/ /\ jobs[i][s].kind = "tryTimer"
     /\ jobs[i][s].n < MaxAttempts
     /\ due[i][s] + Latency + Rest(jobs[i][s].n + 1) < time

\* The grace period, with its timer in slot g and one attempt beside it at most.
InGrace(i, g) ==
  /\ st[i] = "grace"
  /\ ~ticking[i] /\ graceTimer[i] = g
  /\ jobs[i][g].kind = "graceTimer" /\ due[i][g] <= GracePeriod
  /\ Holds(i, cur[i], due[i][g])
  /\ \A s \in Slot \ {g} : Free(i, s) \/ Tries(i, s, due[i][g])
  /\ \A r, s \in Slot \ {g} : Free(i, r) \/ Free(i, s) \/ r = s

Course(i) ==
  \/ Aside(i)
  \/ Leads(i)
  \/ \E s \in Slot : RenewsIn(i, s)
  \/ \E g \in Slot : InGrace(i, g)

\* Of an instance that the application interrupted nothing is said until it
\* is at rest.
CourseInv == \A i \in Holder \ interrupted : Course(i)

TimedInv == IInv /\ TimedTypeOK /\ CourseInv

LEMMA Durations ==
  /\ LeaseTTL \in Nat /\ RenewalInterval \in Nat /\ GracePeriod \in Nat
  /\ RetryBackoff \in Nat /\ AttemptDelay \in Nat /\ Latency \in Nat
  /\ MaxAttempts \in Nat /\ Margin \in Nat
  /\ LeaseTTL > 0 /\ MaxInterrupts \in Nat
BY DurationsAssumption, AttemptsAssumption DEF Margin

LEMMA RestUnfolds ==
  ASSUME NEW n \in Nat
  PROVE  /\ Rest(n) \in Nat
         /\ n < MaxAttempts => Rest(n) = Latency + AttemptDelay + Rest(n + 1)
<1> DEFINE each == Latency + AttemptDelay
<1> each \in Nat /\ MaxAttempts \in Nat
  BY Durations
<1>1. Rest(n) = IF n < MaxAttempts THEN (MaxAttempts - n) * each ELSE 0
  BY DEF Rest
<1>2. Rest(n + 1) = IF n + 1 < MaxAttempts THEN (MaxAttempts - (n + 1)) * each ELSE 0
  BY DEF Rest
<1> HIDE DEF each
<1>3. ASSUME n < MaxAttempts PROVE (MaxAttempts - n) * each \in Nat
  <2>1. MaxAttempts - n \in Nat
    BY <1>3
  <2>2. QED
    BY <2>1
<1>4. ASSUME n < MaxAttempts
      PROVE  (MaxAttempts - n) * each = each + (MaxAttempts - (n + 1)) * each
  <2>1. PICK m \in Nat : MaxAttempts - n = m + 1 /\ MaxAttempts - (n + 1) = m
    <3>1. MaxAttempts - (n + 1) \in Nat
      BY <1>4
    <3>2. QED
      BY <1>4, <3>1
  <2>2. (m + 1) * each = each + m * each
    BY <2>1
  <2>3. QED
    BY <2>1, <2>2
<1>5. ASSUME n < MaxAttempts, ~(n + 1 < MaxAttempts)
      PROVE  (MaxAttempts - n) * each = each
  <2>1. MaxAttempts - n = 1
    BY <1>5
  <2>2. QED
    BY <2>1
<1>6. QED
  BY <1>1, <1>2, <1>3, <1>4, <1>5 DEF each

LEMMA AttemptsFit == DurationsFit => Latency + Rest(1) < GracePeriod
<1> SUFFICES ASSUME DurationsFit PROVE Latency + Rest(1) < GracePeriod
  OBVIOUS
<1>1. CASE MaxAttempts <= 1
  BY <1>1, Durations DEF DurationsFit, Rest
<1>2. CASE MaxAttempts > 1
  <2>1. PICK m \in Nat : m = MaxAttempts - 1
    BY <1>2, Durations
  <2>2. MaxAttempts * Latency = m * Latency + Latency
    BY <2>1, Durations
  <2>3. m * (Latency + AttemptDelay) = m * Latency + m * AttemptDelay
    BY Durations
  <2>4. Rest(1) = m * (Latency + AttemptDelay)
    BY <1>2, <2>1, Durations DEF Rest
  <2>5. MaxAttempts * Latency + m * AttemptDelay < GracePeriod
    BY <1>2, <2>1, Durations DEF DurationsFit
  <2>6. m * Latency \in Nat /\ m * AttemptDelay \in Nat
    BY Durations
  <2>7. QED
    BY <2>2, <2>3, <2>4, <2>5, <2>6, Durations
<1>3. QED
  BY <1>1, <1>2, Durations

-----------------------------------------------------------------------------
(* Types, and the steps as steps of the untimed election.                  *)

\* An attempt that hangs leaves everything else as it is.
LEMMA HangStep ==
  ASSUME IInv, NEW i \in Holder, NEW s \in Slot, AttemptHangs(i, s)
  PROVE  IInv'
<1>1. UNCHANGED backendVars /\ Put(i, s, Empty)
  BY DEF AttemptHangs
<1>2. StoreStep /\ StoreKeeps
  BY <1>1, UnchangedStore
<1>3. jobs' \in [Holder -> [Slot -> JobType]] /\ NoNewGrants
  BY <1>1, PutQuiet, JobsTyped DEF IInv
<1>4. StepOK(i)
  BY <1>2, <1>3, QuietStepOK DEF AttemptHangs, IInv, TypeOK
<1>5. QED
  BY <1>4, StepOKPreservesIInv

\* Whatever the clock says, every other step is one of the untimed election.
LEMMA TimedIsUntimed ==
  ASSUME [TimedNext]_timedVars
  PROVE  \/ [Next]_vars
         \/ \E i \in Holder, s \in Slot : AttemptHangs(i, s)
<1>1. ASSUME NEW i \in Holder, TimedApp(i) \/ Interrupts(i) \/ TimedRenewal(i)
      PROVE  Next
  BY <1>1 DEF TimedApp, Interrupts, TimedRenewal, Next, AppStep
<1>2. ASSUME NEW i \in Holder, NEW s \in Slot,
             TimedAnswer(i, s) \/ TimedTimer(i, s)
      PROVE  Next
  BY <1>2 DEF TimedAnswer, TimedTimer, Next
<1>3. CASE TimedQuery
  BY <1>3 DEF TimedQuery, Next
<1>4. CASE Tick
  BY <1>4 DEF Tick, Next
<1>5. CASE UNCHANGED timedVars
  BY <1>5 DEF timedVars
<1>6. QED
  BY <1>1, <1>2, <1>3, <1>4, <1>5 DEF TimedNext

LEMMA TimedIInv == IInv /\ [TimedNext]_timedVars => IInv'
BY TimedIsUntimed, NextIInv, HangStep

LEMMA DelayTyped == \A job : Delay(job) \in Nat
BY Durations DEF Delay

LEMMA JobClocksTyped ==
  ASSUME JobClocks, due \in [Holder -> [Slot -> Nat]]
  PROVE  due' \in [Holder -> [Slot -> Nat]]
BY DelayTyped DEF JobClocks

\* Tokens are granted, and kept alive, by what the clock takes for it.
LEMMA LeaseClockTyped ==
  ASSUME TimedTypeOK, NEW i \in Holder, LeaseClock(i),
         counter' # counter => lease'.phase = "live"
  PROVE  left' \in 0 .. LeaseTTL /\ (lease'.phase = "live" <=> left' > 0)
<1>1. left \in 0 .. LeaseTTL /\ (lease.phase = "live" <=> left > 0)
  BY DEF TimedTypeOK
<1>2. NoLease.phase = "none"
  BY DEF NoLease
<1>3. QED
  BY <1>1, <1>2, Durations DEF LeaseClock

\* What a step of an instance may do at the store: one call, or nothing.
AnyCall(i) ==
  \/ \E ok \in BOOLEAN : Acquire(i, ok) \/ Renew(i, ok) \/ Release(i, ok)
  \/ Close
  \/ UNCHANGED backendVars

\* One that is left alone neither releases its lease nor closes the store.
OneCall(i) ==
  \/ \E ok \in BOOLEAN : Acquire(i, ok) \/ Renew(i, ok)
  \/ UNCHANGED backendVars

LEMMA GrantsAreLive ==
  ASSUME BackendTypeOK, NEW i \in Holder, AnyCall(i)
  PROVE  counter' # counter => lease'.phase = "live"
<1>1. ASSUME NEW ok \in BOOLEAN, Acquire(i, ok)
      PROVE  counter' # counter => lease'.phase = "live"
  BY <1>1 DEF Acquire
<1>2. ASSUME NEW ok \in BOOLEAN, Renew(i, ok) \/ Release(i, ok)
      PROVE  counter' = counter
  BY <1>2 DEF Renew, Release
<1>3. CASE Close
  BY <1>3 DEF Close
<1>4. QED
  BY <1>1, <1>2, <1>3 DEF AnyCall, backendVars

\* Every step of an instance is one call, made and timed by it.
AnyStep(i) == AnyCall(i) /\ JobClocks /\ LeaseClock(i)
              /\ (\E again \in BOOLEAN : TickClock(i, again))
TimedStep(i) == OneCall(i) /\ AnyStep(i)

LEMMA CampaignIsOneCall ==
  ASSUME NEW i \in Holder, NEW s \in Slot, BeginCampaign(i, s)
  PROVE  OneCall(i)
BY DEF BeginCampaign, CallAcquire, OneCall

LEMMA RenewalIsOneCall ==
  ASSUME NEW i \in Holder, NEW kind, NEW n, NEW answer,
         CallRenew(i, kind, n, answer)
  PROVE  OneCall(i)
BY DEF CallRenew, OneCall

LEMMA ReleaseIsOneCall ==
  ASSUME NEW i \in Holder, NEW kind, NEW answer, CallRelease(i, kind, answer)
  PROVE  AnyCall(i)
BY DEF CallRelease, AnyCall

LEMMA AnyStepTyped ==
  ASSUME IInv, TimedTypeOK, IInv', NEW i \in Holder, AnyStep(i),
         interrupted' \subseteq Handled /\ interrupts' \in 0 .. MaxInterrupts
  PROVE  TimedTypeOK'
<1>1. left' \in 0 .. LeaseTTL /\ (lease'.phase = "live" <=> left' > 0)
  BY LeaseClockTyped, GrantsAreLive DEF AnyStep, IInv, TypeOK
<1>2. due' \in [Holder -> [Slot -> Nat]]
  BY JobClocksTyped DEF AnyStep, TimedTypeOK
<1>3. tickDue' \in [Holder -> 0 .. RenewalInterval]
  <2>1. 0 \in 0 .. RenewalInterval /\ RenewalInterval \in 0 .. RenewalInterval
    BY Durations
  <2>2. QED
    BY <2>1 DEF AnyStep, TickClock, TimedTypeOK
<1>4. QED
  BY <1>1, <1>2, <1>3 DEF TimedTypeOK, IInv

LEMMA NoReleases ==
  ASSUME NEW i \in Holder, NEW s \in Slot, Course(i)
  PROVE  jobs[i][s].kind \notin {"release", "stop", "close"}
<1>1. ASSUME Free(i, s) PROVE jobs[i][s].kind = "none"
  BY <1>1 DEF Free, Empty, Job
<1>2. CASE Aside(i)
  BY <1>1, <1>2 DEF Aside, Asks
<1>3. CASE Leads(i)
  BY <1>1, <1>3 DEF Leads
<1>4. ASSUME NEW r \in Slot, RenewsIn(i, r)
      PROVE  jobs[i][s].kind \notin {"release", "stop", "close"}
  BY <1>1, <1>4 DEF RenewsIn
<1>5. ASSUME NEW g \in Slot, InGrace(i, g)
      PROVE  jobs[i][s].kind \notin {"release", "stop", "close"}
  BY <1>1, <1>5 DEF InGrace, Tries
<1>6. QED
  BY <1>2, <1>3, <1>4, <1>5 DEF Course

LEMMA AnswersAreCalls ==
  ASSUME NEW i \in Holder, NEW s \in Slot, AnswerStep(i, s) \/ TimerStep(i, s)
  PROVE  OneCall(i) \/ (jobs[i][s].kind \in {"release", "stop", "close"} /\ AnyCall(i))
<1>1. CASE \E g \in Slot : RenewFails(i, s, g)
  BY <1>1, RenewalIsOneCall DEF RenewFails
<1>2. CASE \/ CampaignGranted(i, s) \/ CampaignRefused(i, s)
           \/ CampaignError(i, s) \/ RenewOk(i, s)
           \/ TryOk(i, s) \/ TryAgain(i, s) \/ TryGivesUp(i, s)
  BY <1>2
     DEF CampaignGranted, CampaignRefused, CampaignError, RenewOk, TryOk,
         TryAgain, TryGivesUp, OneCall
<1>3. CASE ReleaseAnswered(i, s) \/ StopReleased(i, s) \/ StopClosed(i, s)
  BY <1>3 DEF ReleaseAnswered, StopReleased, StopClosed, AnyCall
<1>4. CASE TimerStep(i, s)
  BY <1>4, CampaignIsOneCall, RenewalIsOneCall
     DEF TimerStep, RetryTimerFires, TryTimerFires, GraceTimerFires, OneCall
<1>5. QED
  BY <1>1, <1>2, <1>3, <1>4 DEF AnswerStep

\* Every step but the clock's and getCurrentLeader() is one call, timed.
LEMMA StepsAreAny ==
  ASSUME NEW i \in Holder,
         \/ TimedApp(i) \/ Interrupts(i) \/ TimedRenewal(i)
         \/ \E s \in Slot : TimedAnswer(i, s) \/ TimedTimer(i, s)
  PROVE  AnyStep(i)
<1>1. OneCall(i) => AnyCall(i)
  BY DEF OneCall, AnyCall
<1>2. CASE TimedApp(i)
  <2>1. OneCall(i)
    BY <1>2, CampaignIsOneCall DEF TimedApp, Campaign, Restart, OneCall
  <2>2. QED
    BY <1>1, <1>2, <2>1 DEF TimedApp, AnyStep
<1>3. CASE Interrupts(i)
  <2>1. ASSUME NEW s \in Slot, Campaign(i, s) PROVE AnyCall(i)
    BY <1>1, <2>1, CampaignIsOneCall DEF Campaign
  <2>2. ASSUME NEW s \in Slot, ReleaseLease(i, s) PROVE AnyCall(i)
    BY <2>2, ReleaseIsOneCall DEF ReleaseLease
  <2>3. ASSUME NEW s \in Slot, Stop(i, s) PROVE AnyCall(i)
    <3>1. Close \/ \E answer : CallRelease(i, "stop", answer)
      BY <2>3 DEF Stop
    <3>2. QED
      BY <3>1, ReleaseIsOneCall DEF AnyCall
  <2>4. AnyCall(i)
    BY <1>3, <2>1, <2>2, <2>3 DEF Interrupts
  <2>5. QED
    BY <1>3, <2>4 DEF Interrupts, AnyStep
<1>4. CASE TimedRenewal(i)
  <2>1. OneCall(i)
    BY <1>4, RenewalIsOneCall
       DEF TimedRenewal, IntervalStep, IdleTick, RenewTick, OneCall
  <2>2. QED
    BY <1>1, <1>4, <2>1 DEF TimedRenewal, AnyStep
<1>5. ASSUME NEW s \in Slot, TimedAnswer(i, s)
      PROVE  AnyStep(i)
  <2>1. AnyCall(i)
    BY <1>1, <1>5, AnswersAreCalls DEF TimedAnswer
  <2>2. (jobs[i][s].kind \in {"campaign", "try"} /\ jobs[i][s].result = "ok")
          \in BOOLEAN
    OBVIOUS
  <2>3. QED
    BY <1>5, <2>1, <2>2 DEF TimedAnswer, AnyStep
<1>6. ASSUME NEW s \in Slot, TimedTimer(i, s)
      PROVE  AnyStep(i)
  <2>1. AnyCall(i)
    BY <1>1, <1>6, AnswersAreCalls, <1>6 DEF TimedTimer
  <2>2. QED
    BY <1>6, <2>1 DEF TimedTimer, AnyStep
<1>7. QED
  BY <1>2, <1>3, <1>4, <1>5, <1>6

\* An instance that was left alone keeps to campaigns and renewals.
LEMMA StepsAreTimed ==
  ASSUME NEW i \in Holder, Course(i),
         \/ TimedRenewal(i)
         \/ \E s \in Slot : TimedAnswer(i, s) \/ TimedTimer(i, s)
  PROVE  TimedStep(i)
<1>1. CASE TimedRenewal(i)
  <2>1. OneCall(i)
    BY <1>1, RenewalIsOneCall
       DEF TimedRenewal, IntervalStep, IdleTick, RenewTick, OneCall
  <2>2. QED
    BY <1>1, <2>1, StepsAreAny DEF TimedStep
<1>2. ASSUME NEW s \in Slot, TimedAnswer(i, s) \/ TimedTimer(i, s)
      PROVE  TimedStep(i)
  <2>1. OneCall(i)
    BY <1>2, AnswersAreCalls, NoReleases DEF TimedAnswer, TimedTimer
  <2>2. QED
    BY <1>2, <2>1, StepsAreAny DEF TimedStep
<1>3. QED
  BY <1>1, <1>2

LEMMA PredTyped ==
  ASSUME NEW n \in Nat, NEW m \in Nat, n <= m
  PROVE  Pred(n) \in 0 .. m /\ (n > 0 => Pred(n) = n - 1)
BY DEF Pred

LEMMA TickTyped ==
  ASSUME TimedTypeOK, TypeOK', Tick
  PROVE  TimedTypeOK'
<1>1. left' \in 0 .. LeaseTTL
  BY PredTyped, Durations DEF TimedTypeOK, Tick
<1>2. due' \in [Holder -> [Slot -> Nat]]
  <2>1. \A i \in Holder, s \in Slot : Pred(due[i][s]) \in Nat
    BY PredTyped DEF TimedTypeOK
  <2>2. QED
    BY <2>1 DEF Tick
<1>3. tickDue' \in [Holder -> 0 .. RenewalInterval]
  <2>1. \A i \in Holder : Pred(tickDue[i]) \in 0 .. RenewalInterval
    <3>1. TAKE i \in Holder
    <3>2. tickDue[i] \in 0 .. RenewalInterval
      BY DEF TimedTypeOK
    <3>3. QED
      BY <3>2, Durations DEF Pred
  <2>2. QED
    BY <2>1 DEF Tick
<1>4. lease'.phase = "live" <=> left' > 0
  <2>1. left \in Nat /\ (lease.phase = "live" <=> left > 0)
    BY Durations DEF TimedTypeOK
  <2>2. left' = Pred(left)
    BY DEF Tick
  <2>3. CASE left > 1 /\ UNCHANGED vars
    BY <2>1, <2>2, <2>3 DEF Pred, vars, backendVars
  <2>4. CASE left <= 1 /\ LeaseAges
    <3>1. lease'.phase \in {"edge", "past"}
      BY <2>4 DEF LeaseAges, Age, TimedTypeOK, TypeOK, BackendTypeOK
    <3>2. left' = 0
      BY <2>1, <2>2, <2>4 DEF Pred
    <3>3. QED
      BY <3>1, <3>2
  <2>5. CASE lease.phase \in {"none", "past"} /\ UNCHANGED vars
    BY <2>1, <2>2, <2>5 DEF Pred, vars, backendVars
  <2>6. QED
    BY <2>3, <2>4, <2>5 DEF Tick
<1>5. QED
  BY <1>1, <1>2, <1>3, <1>4 DEF TimedTypeOK, Tick

LEMMA QueryTyped ==
  ASSUME TimedTypeOK, TypeOK', TimedQuery
  PROVE  TimedTypeOK'
<1>1. lease'.phase = "live" <=> lease.phase = "live"
  BY DEF TimedQuery, GetCurrentLeader, GetLease, NoLease
<1>2. QED
  BY <1>1 DEF TimedQuery, clockVars, TimedTypeOK

LEMMA HangTyped ==
  ASSUME TimedTypeOK, TypeOK', NEW i \in Holder, NEW s \in Slot,
         AttemptHangs(i, s)
  PROVE  TimedTypeOK'
<1>1. due' \in [Holder -> [Slot -> Nat]]
  BY JobClocksTyped DEF TimedTypeOK, AttemptHangs
<1>2. QED
  BY <1>1 DEF TimedTypeOK, AttemptHangs, backendVars

LEMMA TimedTyped ==
  IInv /\ TimedTypeOK /\ IInv' /\ [TimedNext]_timedVars => TimedTypeOK'
<1> SUFFICES ASSUME IInv, TimedTypeOK, IInv', [TimedNext]_timedVars
             PROVE  TimedTypeOK'
  OBVIOUS
<1> TypeOK'
  BY DEF IInv
<1>1. ASSUME NEW i \in Holder, TimedApp(i) \/ Interrupts(i) \/ TimedRenewal(i)
      PROVE  TimedTypeOK'
  <2>1. interrupted \subseteq Handled /\ interrupts \in 0 .. MaxInterrupts
    BY DEF TimedTypeOK
  <2>2. \/ interrupted' \subseteq interrupted /\ interrupts' = interrupts
        \/ /\ i \in Handled /\ interrupted' = interrupted \cup {i}
           /\ interrupts < MaxInterrupts /\ interrupts' = interrupts + 1
    BY <1>1 DEF TimedApp, Interrupts, TimedRenewal
  <2>3. interrupted' \subseteq Handled
    BY <2>1, <2>2
  <2>4. interrupts' \in 0 .. MaxInterrupts
    BY <2>1, <2>2, Durations
  <2>5. QED
    BY <1>1, <2>3, <2>4, StepsAreAny, AnyStepTyped
<1>2. ASSUME NEW i \in Holder, NEW s \in Slot,
             TimedAnswer(i, s) \/ TimedTimer(i, s)
      PROVE  TimedTypeOK'
  <2>1. interrupted' \subseteq Handled /\ interrupts' \in 0 .. MaxInterrupts
    BY <1>2 DEF TimedTypeOK, TimedAnswer, TimedTimer
  <2>2. QED
    BY <1>2, <2>1, StepsAreAny, AnyStepTyped
<1>3. ASSUME NEW i \in Holder, NEW s \in Slot, AttemptHangs(i, s)
      PROVE  TimedTypeOK'
  BY <1>3, HangTyped
<1>4. CASE UNCHANGED timedVars
  BY <1>4 DEF timedVars, vars, backendVars, clockVars, TimedTypeOK
<1>5. QED
  BY <1>1, <1>2, <1>3, <1>4, TickTyped, QueryTyped DEF TimedNext

-----------------------------------------------------------------------------
(* What a step leaves as it is: the lease while it lives, and the others.  *)

\* While time is left the stored lease stays, and only its holder renews it.
LeaseKept(i) ==
  left > 0 => /\ lease'.holder = lease.holder /\ lease'.token = lease.token
              /\ left <= left'

\* Whatever a step of i asks for, the lease of another is kept.
Spared(i) == left > 0 /\ lease.holder # i => LeaseKept(i)

Others(i) ==
  \A j \in Holder \ {i} :
    /\ st'[j] = st[j] /\ cur'[j] = cur[j] /\ ticking'[j] = ticking[j]
    /\ graceTimer'[j] = graceTimer[j] /\ tickDue'[j] = tickDue[j]
    /\ \A s \in Slot : jobs'[j][s] = jobs[j][s] /\ due'[j][s] = due[j][s]

LEMMA LeaseIsKept ==
  ASSUME TimedTypeOK, NEW i \in Holder, OneCall(i), LeaseClock(i)
  PROVE  LeaseKept(i)
<1> SUFFICES ASSUME left > 0
             PROVE  /\ lease'.holder = lease.holder
                    /\ lease'.token = lease.token /\ left <= left'
  BY DEF LeaseKept
<1>1. lease.phase = "live" /\ left \in 0 .. LeaseTTL
  BY DEF TimedTypeOK
<1>2. /\ lease'.holder = lease.holder /\ lease'.token = lease.token
      /\ counter' = counter /\ lease' # NoLease
  <2>1. ASSUME NEW ok \in BOOLEAN, Acquire(i, ok)
        PROVE  lease' = lease /\ counter' = counter
    BY <1>1, <2>1 DEF Acquire, Acquirable
  <2>2. ASSUME NEW ok \in BOOLEAN, Renew(i, ok)
        PROVE  lease' = lease /\ counter' = counter
    BY <1>1, <2>2
       DEF Renew, Renewable, ExpiredFor, TimedTypeOK, TypeOK, BackendTypeOK
  <2>3. lease' = lease /\ counter' = counter
    BY <2>1, <2>2 DEF OneCall, backendVars
  <2>4. QED
    BY <1>1, <2>3 DEF NoLease
<1>3. QED
  BY <1>1, <1>2, Durations DEF LeaseClock

LEMMA OthersAreSpared ==
  ASSUME TimedTypeOK, NEW i \in Holder, AnyCall(i), LeaseClock(i)
  PROVE  Spared(i)
<1> SUFFICES ASSUME left > 0, lease.holder # i PROVE LeaseKept(i)
  BY DEF Spared
<1>1. OneCall(i) => LeaseKept(i)
  BY LeaseIsKept
<1>2. ASSUME NEW ok \in BOOLEAN, Release(i, ok) PROVE OneCall(i) \/ LeaseKept(i)
  <2>1. UNCHANGED backendVars
    BY <1>2 DEF Release, Releasable, backendVars
  <2>2. QED
    BY <2>1 DEF OneCall
<1>3. CASE Close
  <2>1. lease' = lease /\ counter' = counter /\ lease # NoLease
    BY <1>3 DEF Close, NoLease, TimedTypeOK
  <2>2. left \in 0 .. LeaseTTL
    BY DEF TimedTypeOK
  <2>3. QED
    BY <2>1, <2>2, Durations DEF LeaseClock, LeaseKept
<1>4. QED
  BY <1>1, <1>2, <1>3 DEF AnyCall, OneCall

\* A lease that somebody holds for a time is held by him after such a step.
LEMMA HoldingStays ==
  ASSUME TimedTypeOK, NEW i \in Holder, LeaseKept(i), TimedTypeOK',
         NEW j, NEW t, NEW time \in Nat, Holds(j, t, time)
  PROVE  /\ lease'.holder = j /\ lease'.token = t /\ t # 0 /\ time < left'
         /\ left > 0
<1> left \in Nat /\ left' \in Nat
  BY Durations DEF TimedTypeOK
<1>1. QED
  BY DEF LeaseKept, Holds

\* The times of an instance are natural numbers, and so are its tokens.
LEMMA InstanceTyped ==
  ASSUME TimedTypeOK, NEW i \in Holder
  PROVE  /\ cur[i] \in Nat /\ tickDue[i] \in Nat /\ left \in Nat
         /\ tickDue[i] <= RenewalInterval
         /\ \A s \in Slot : /\ due[i][s] \in Nat /\ jobs[i][s] \in JobType
                            /\ jobs[i][s].n \in Nat
BY Durations DEF TimedTypeOK, TypeOK, JobType

LEMMA OthersStay ==
  ASSUME TimedTypeOK, TimedTypeOK', NEW i \in Holder, Others(i), Spared(i),
         NEW j \in Holder \ {i}, Course(j)
  PROVE  Course(j)'
<1> USE Durations
<1>1. /\ st'[j] = st[j] /\ cur'[j] = cur[j] /\ ticking'[j] = ticking[j]
      /\ graceTimer'[j] = graceTimer[j] /\ tickDue'[j] = tickDue[j]
      /\ \A s \in Slot : jobs'[j][s] = jobs[j][s] /\ due'[j][s] = due[j][s]
  BY DEF Others
<1>2. /\ cur[j] \in Nat /\ tickDue[j] \in Nat
      /\ \A s \in Slot : due[j][s] \in Nat /\ jobs[j][s].n \in Nat
  BY InstanceTyped
<1>3. \A t, time \in Nat : Holds(j, t, time) => Holds(j, t, time)'
  <2> SUFFICES ASSUME NEW t \in Nat, NEW time \in Nat, Holds(j, t, time)
               PROVE  Holds(j, t, time)'
    OBVIOUS
  <2>1. left > 0 /\ lease.holder # i
    BY DEF Holds, TimedTypeOK
  <2>2. LeaseKept(i)
    BY <2>1 DEF Spared
  <2>3. QED
    BY <2>2, HoldingStays DEF Holds
<1> HIDE DEF Holds
<1>4. ASSUME Aside(j) PROVE Aside(j)'
  BY <1>1, <1>2, <1>3, <1>4 DEF Aside, Asks, Free
<1>5. ASSUME Leads(j) PROVE Leads(j)'
  BY <1>1, <1>2, <1>3, <1>5 DEF Leads, Free
<1>6. ASSUME NEW s \in Slot, RenewsIn(j, s) PROVE RenewsIn(j, s)'
  BY <1>1, <1>2, <1>3, <1>6 DEF RenewsIn, Free
<1>7. ASSUME NEW g \in Slot, InGrace(j, g) PROVE InGrace(j, g)'
  <2>1. \A s \in Slot : Tries(j, s, due[j][g]) => Tries(j, s, due[j][g])'
    BY <1>1, <1>2, <1>3 DEF Tries
  <2>2. Holds(j, cur[j], due[j][g])'
    BY <1>1, <1>2, <1>3, <1>7 DEF InGrace
  <2>3. QED
    BY <1>1, <1>7, <2>1, <2>2 DEF InGrace, Free
<1>8. QED
  BY <1>4, <1>5, <1>6, <1>7 DEF Course

\* So a step of i has to look after its own course alone, and not even that
\* when the application interrupted it.
LEMMA OwnCourse ==
  ASSUME TimedInv, TimedTypeOK', NEW i \in Holder, AnyStep(i), Others(i),
         interrupted \ {i} \subseteq interrupted',
         i \in interrupted' \/ Course(i)'
  PROVE  CourseInv'
<1>1. Spared(i)
  BY OthersAreSpared DEF TimedInv, AnyStep
<1>2. \A j \in Holder \ {i} : j \notin interrupted' => Course(j)'
  BY <1>1, OthersStay DEF TimedInv, CourseInv
<1>3. QED
  BY <1>2 DEF CourseInv

-----------------------------------------------------------------------------
(* The job that makes a step tells where the instance stands.              *)

LEMMA FreeIsNone ==
  ASSUME NEW i, NEW s, Free(i, s)
  PROVE  jobs[i][s].kind = "none" /\ jobs[i][s].result = "none"
BY DEF Free, Empty, Job

LEMMA WhenAsking ==
  ASSUME NEW i \in Holder, Course(i), NEW s \in Slot,
         jobs[i][s].kind \in {"campaign", "retryTimer"}
  PROVE  /\ Aside(i) /\ Asks(i, s) /\ \A r \in Slot \ {s} : Free(i, r)
<1>1. ~Free(i, s)
  BY FreeIsNone
<1>2. ~Leads(i) /\ \A r \in Slot : ~RenewsIn(i, r)
  BY <1>1 DEF Leads, RenewsIn
<1>3. \A g \in Slot : ~InGrace(i, g)
  BY <1>1 DEF InGrace, Tries
<1>4. QED
  BY <1>1, <1>2, <1>3 DEF Course, Aside

LEMMA WhenRenewing ==
  ASSUME NEW i \in Holder, Course(i), NEW s \in Slot, jobs[i][s].kind = "renew"
  PROVE  RenewsIn(i, s)
<1>1. ~Free(i, s)
  BY FreeIsNone
<1>2. ~Leads(i) /\ ~Aside(i)
  BY <1>1 DEF Leads, Aside, Asks
<1>3. \A g \in Slot : ~InGrace(i, g)
  BY <1>1 DEF InGrace, Tries
<1>4. \A r \in Slot : RenewsIn(i, r) => r = s
  BY <1>1 DEF RenewsIn
<1>5. QED
  BY <1>2, <1>3, <1>4 DEF Course

LEMMA WhenTrying ==
  ASSUME NEW i \in Holder, Course(i), NEW s \in Slot,
         jobs[i][s].kind \in {"try", "tryTimer"}
  PROVE  \E g \in Slot \ {s} :
           /\ InGrace(i, g) /\ Tries(i, s, due[i][g])
           /\ \A r \in Slot \ {s, g} : Free(i, r)
<1>1. ~Free(i, s)
  BY FreeIsNone
<1>2. ~Leads(i) /\ ~Aside(i) /\ \A r \in Slot : ~RenewsIn(i, r)
  BY <1>1 DEF Leads, Aside, Asks, RenewsIn
<1>3. PICK g \in Slot : InGrace(i, g)
  BY <1>2 DEF Course
<1>4. QED
  BY <1>1, <1>3 DEF InGrace

LEMMA WhenGraceEnds ==
  ASSUME NEW i \in Holder, Course(i), NEW g \in Slot,
         jobs[i][g].kind = "graceTimer"
  PROVE  InGrace(i, g)
<1>1. ~Free(i, g)
  BY FreeIsNone
<1>2. ~Leads(i) /\ ~Aside(i) /\ \A r \in Slot : ~RenewsIn(i, r)
  BY <1>1 DEF Leads, Aside, Asks, RenewsIn
<1>3. \A h \in Slot : InGrace(i, h) => h = g
  BY <1>1 DEF InGrace, Tries
<1>4. QED
  BY <1>2, <1>3 DEF Course

LEMMA WhenTicking ==
  ASSUME TimedTypeOK, NEW i \in Holder, Course(i), ticking[i], tickDue[i] = 0
  PROVE  Leads(i)
<1>1. \A s \in Slot : due[i][s] \in Nat
  BY InstanceTyped
<1>2. \A s \in Slot : ~RenewsIn(i, s)
  BY <1>1 DEF RenewsIn
<1>3. ~Aside(i) /\ \A g \in Slot : ~InGrace(i, g)
  BY DEF Aside, InGrace
<1>4. QED
  BY <1>2, <1>3 DEF Course

-----------------------------------------------------------------------------
(* The steps of an instance.                                               *)

LEMMA ClockOf ==
  ASSUME JobClocks, NEW i \in Holder, NEW s \in Slot
  PROVE  due'[i][s] = IF jobs'[i][s] = jobs[i][s]
                      THEN due[i][s] ELSE Delay(jobs'[i][s])
BY DEF JobClocks

LEMMA Delays ==
  ASSUME NEW job
  PROVE  /\ job.kind \in Calls => Delay(job) = Latency
         /\ job.kind = "tryTimer" => Delay(job) = AttemptDelay
         /\ job.kind = "graceTimer" => Delay(job) = GracePeriod
BY DEF Delay, Calls

\* A step that changes nothing but what is i's.
LEMMA OthersFrom ==
  ASSUME TimedTypeOK, NEW i \in Holder, JobClocks,
         \E again \in BOOLEAN : TickClock(i, again),
         \A j \in Holder \ {i} :
           /\ st'[j] = st[j] /\ cur'[j] = cur[j] /\ ticking'[j] = ticking[j]
           /\ graceTimer'[j] = graceTimer[j] /\ jobs'[j] = jobs[j]
  PROVE  Others(i)
<1>1. ASSUME NEW j \in Holder \ {i}, NEW s \in Slot
      PROVE  due'[j][s] = due[j][s]
  BY ClockOf
<1>2. \A j \in Holder \ {i} : tickDue'[j] = tickDue[j]
  BY DEF TickClock, TimedTypeOK
<1>3. QED
  BY <1>1, <1>2 DEF Others

\* A grant gives the lease its whole life, whoever it was of before.
LEMMA GrantLasts ==
  ASSUME TimedTypeOK, NEW i \in Holder, LeaseClock(i), counter' # counter
  PROVE  left' = LeaseTTL
BY DEF LeaseClock

\* What a renewal asked for in slot s comes to.
LEMMA RenewedLasts ==
  ASSUME TimedTypeOK, NEW i \in Holder, LeaseClock(i), counter' = counter,
         NEW s \in Slot, s \in RenewalsAsked(i), jobs'[i][s].result # "fail"
  PROVE  left' = LeaseTTL
BY DEF LeaseClock

LEMMA BeginCampaignCourse ==
  ASSUME TimedInv, DurationsFit, NEW i \in Holder, NEW s \in Slot,
         BeginCampaign(i, s), Free(i, s) \/ jobs[i][s].kind = "retryTimer",
         \A r \in Slot \ {s} : Free(i, r),
         Aside(i), JobClocks, LeaseClock(i)
  PROVE  Course(i)'
<1> TimedTypeOK /\ TypeOK /\ counter \in Nat
  BY DEF TimedInv, TimedTypeOK, TypeOK, BackendTypeOK
<1>1. PICK answer : CallAcquire(i, answer) /\ Put(i, s, answer)
  BY DEF BeginCampaign
<1>2. answer.kind = "campaign"
  BY <1>1, CampaignCall DEF TimedInv, IInv, TypeOK, StoreOK
<1>3. /\ jobs'[i][s] = answer
      /\ \A r \in Slot \ {s} : Free(i, r)'
  BY <1>1 DEF Put, TypeOK, Free
<1>4. Asks(i, s)'
  <2> SUFFICES ASSUME answer.result = "ok"
               PROVE  Holds(i, answer.n, due[i][s] + Margin)'
    BY <1>2, <1>3 DEF Asks
  <2>1. PICK ok \in BOOLEAN : /\ Acquire(i, ok) /\ ok
                              /\ answer = Job("campaign", "ok", counter + 1)
    BY <1>1 DEF CallAcquire, Job
  <2>2. /\ counter' = counter + 1
        /\ lease'.holder = i /\ lease'.token = counter + 1
        /\ answer.n = counter + 1
    BY <2>1 DEF Acquire, Job
  <2>3. left' = LeaseTTL
    BY <2>2, GrantLasts
  <2>4. due'[i][s] = Latency
    <3>1. jobs'[i][s] # jobs[i][s]
      BY <1>2, <1>3, FreeIsNone
    <3>2. QED
      BY <1>2, <1>3, <3>1, ClockOf, Delays DEF Calls
  <2>5. Latency + Margin < LeaseTTL
    BY Durations DEF DurationsFit, Margin
  <2>6. QED
    BY <1>3, <2>2, <2>3, <2>4, <2>5 DEF Holds
<1>5. /\ st'[i] = "campaigning" /\ cur'[i] = 0 /\ ~ticking'[i]
      /\ graceTimer'[i] = NoSlot
  BY DEF BeginCampaign, SetState, Aside, TypeOK
<1>6. QED
  BY <1>3, <1>4, <1>5 DEF Course, Aside

LEMMA AppCourse ==
  ASSUME TimedInv, DurationsFit, TimedTypeOK', NEW i \in Holder, TimedApp(i)
  PROVE  CourseInv'
<1> TimedTypeOK /\ TypeOK
  BY DEF TimedInv, TimedTypeOK
<1>1. AnyStep(i) /\ JobClocks /\ LeaseClock(i)
  BY StepsAreAny DEF AnyStep
<1>2. Others(i)
  <2>1. \A j \in Holder \ {i} :
           /\ st'[j] = st[j] /\ cur'[j] = cur[j] /\ ticking'[j] = ticking[j]
           /\ graceTimer'[j] = graceTimer[j] /\ jobs'[j] = jobs[j]
    BY DEF TimedApp, Campaign, BeginCampaign, Restart, SetState, SetCur,
           SetTicking, SetGrace, Put, TypeOK
  <2>2. QED
    BY <1>1, <2>1, OthersFrom DEF TimedApp
<1>3. Course(i)'
  <2>1. ASSUME AtRest(i), NEW s \in Slot, Campaign(i, s)
        PROVE  Course(i)'
    <3>1. Aside(i) /\ \A r \in Slot : Free(i, r)
      BY <2>1 DEF AtRest, Aside
    <3>2. QED
      BY <1>1, <2>1, <3>1, BeginCampaignCourse DEF Campaign
  <2>2. CASE Restart(i)
    <3>1. Aside(i)'
      BY <2>2 DEF Restart, SetState, SetCur, SetTicking, SetGrace, TypeOK,
                  Aside, Free
    <3>2. QED
      BY <3>1 DEF Course
  <2>3. QED
    BY <2>1, <2>2 DEF TimedApp
<1>4. interrupted \ {i} \subseteq interrupted'
  BY DEF TimedApp
<1>5. QED
  BY <1>1, <1>2, <1>3, <1>4, OwnCourse

\* What the application does to one instance leaves the others as they are.
LEMMA InterruptCourse ==
  ASSUME TimedInv, TimedTypeOK', NEW i \in Holder, Interrupts(i)
  PROVE  CourseInv'
<1> TimedTypeOK /\ TypeOK
  BY DEF TimedInv, TimedTypeOK
<1>1. AnyStep(i) /\ JobClocks
  BY StepsAreAny DEF AnyStep
<1>2. \A j \in Holder \ {i} :
        /\ st'[j] = st[j] /\ cur'[j] = cur[j] /\ ticking'[j] = ticking[j]
        /\ graceTimer'[j] = graceTimer[j] /\ jobs'[j] = jobs[j]
  <2> USE DEF SetState, SetCur, SetTicking, SetGrace, Put, TypeOK
  <2>1. ASSUME NEW s \in Slot, Campaign(i, s)
        PROVE  \A j \in Holder \ {i} :
                 /\ st'[j] = st[j] /\ cur'[j] = cur[j] /\ ticking'[j] = ticking[j]
                 /\ graceTimer'[j] = graceTimer[j] /\ jobs'[j] = jobs[j]
    BY <2>1 DEF Campaign, BeginCampaign
  <2>2. ASSUME NEW s \in Slot, ReleaseLease(i, s)
        PROVE  \A j \in Holder \ {i} :
                 /\ st'[j] = st[j] /\ cur'[j] = cur[j] /\ ticking'[j] = ticking[j]
                 /\ graceTimer'[j] = graceTimer[j] /\ jobs'[j] = jobs[j]
    BY <2>2 DEF ReleaseLease
  <2>3. ASSUME NEW s \in Slot, Stop(i, s)
        PROVE  \A j \in Holder \ {i} :
                 /\ st'[j] = st[j] /\ cur'[j] = cur[j] /\ ticking'[j] = ticking[j]
                 /\ graceTimer'[j] = graceTimer[j] /\ jobs'[j] = jobs[j]
    BY <2>3 DEF Stop
  <2>4. QED
    BY <2>1, <2>2, <2>3 DEF Interrupts
<1>3. Others(i)
  BY <1>1, <1>2, OthersFrom DEF Interrupts
<1>4. i \in interrupted' /\ interrupted \subseteq interrupted'
  BY DEF Interrupts
<1>5. QED
  BY <1>1, <1>3, <1>4, OwnCourse

\* The interval fires for a leader; what it asks for is answered before it
\* fires again.
LEMMA IntervalCourse ==
  ASSUME TimedInv, DurationsFit, TimedTypeOK', NEW i \in Holder, Course(i),
         TimedRenewal(i)
  PROVE  Course(i)'
<1> TimedTypeOK /\ TypeOK
  BY DEF TimedInv, TimedTypeOK
<1>1. JobClocks /\ LeaseClock(i) /\ LeaseKept(i)
  BY StepsAreTimed, LeaseIsKept DEF TimedStep, AnyStep
<1>2. ticking[i] /\ tickDue[i] = 0
  BY DEF TimedRenewal, IntervalStep, IdleTick, RenewTick
<1>3. Leads(i)
  BY <1>2, WhenTicking
<1>4. lease'.holder = i /\ lease'.token = cur[i] /\ cur[i] # 0
      /\ Latency + GracePeriod < left' /\ left > 0
  BY <1>1, <1>2, <1>3, HoldingStays, InstanceTyped, Durations DEF Leads
<1>5. PICK s \in Slot : RenewTick(i, s)
  BY <1>3 DEF TimedRenewal, IntervalStep, IdleTick, IsLeader, Leads, Holds
<1>6. PICK answer : /\ answer.result \in {"ok", "fail"}
                    /\ CallRenew(i, "renew", 0, answer) /\ Put(i, s, answer)
  BY <1>5 DEF RenewTick
<1>7. answer.kind = "renew" /\ jobs'[i][s] = answer /\ ~Free(i, s)'
      /\ \A r \in Slot \ {s} : Free(i, r)'
  BY <1>3, <1>6 DEF CallRenew, Job, Put, TypeOK, Free, Leads, Empty
<1>8. /\ \A j \in Holder \ {i} :
           /\ st'[j] = st[j] /\ cur'[j] = cur[j] /\ ticking'[j] = ticking[j]
           /\ graceTimer'[j] = graceTimer[j] /\ jobs'[j] = jobs[j]
      /\ st'[i] = "renewing" /\ cur'[i] = cur[i] /\ ticking'[i]
      /\ graceTimer'[i] = NoSlot
  BY <1>2, <1>3, <1>5, <1>6 DEF RenewTick, SetState, Put, TypeOK, Leads
<1>9. tickDue'[i] = RenewalInterval /\ due'[i][s] = Latency
  <2>1. jobs'[i][s] # jobs[i][s]
    BY <1>3, <1>7 DEF Leads, Free
  <2>2. due'[i][s] = Latency
    BY <1>1, <1>7, <2>1, ClockOf, Delays DEF Calls
  <2>3. tickDue'[i] = RenewalInterval
    BY <1>8 DEF TimedRenewal, TickClock, TimedTypeOK
  <2>4. QED
    BY <2>2, <2>3
<1>10. answer.result = "ok" => left' = LeaseTTL
  <2> SUFFICES ASSUME answer.result = "ok" PROVE left' = LeaseTTL
    OBVIOUS
  <2>1. counter' = counter
    BY <1>6, RenewalCall DEF StoreKeeps, TimedInv, IInv, TypeOK, StoreOK
  <2>2. s \in RenewalsAsked(i)
    BY <1>3, <1>7 DEF RenewalsAsked, Leads, Free
  <2>3. QED
    BY <1>1, <1>7, <2>1, <2>2, RenewedLasts
<1>11. RenewalInterval + Latency + GracePeriod < LeaseTTL
       /\ Latency < RenewalInterval
  BY Durations DEF DurationsFit
<1>12. RenewsIn(i, s)'
  <2>1. CASE answer.result = "ok"
    BY <1>4, <1>7, <1>8, <1>9, <1>10, <1>11, <2>1 DEF RenewsIn, Holds
  <2>2. CASE answer.result = "fail"
    BY <1>4, <1>7, <1>8, <1>9, <1>11, <2>2 DEF RenewsIn, Holds
  <2>3. QED
    BY <1>6, <2>1, <2>2
<1>13. QED
  BY <1>12 DEF Course

LEMMA RenewalCourse ==
  ASSUME TimedInv, DurationsFit, TimedTypeOK', NEW i \in Holder, TimedRenewal(i)
  PROVE  CourseInv'
<1> TimedTypeOK /\ TypeOK
  BY DEF TimedInv, TimedTypeOK
<1>1. AnyStep(i) /\ JobClocks /\ interrupted' = interrupted
  BY StepsAreAny DEF AnyStep, TimedRenewal
<1>2. \A j \in Holder \ {i} :
        /\ st'[j] = st[j] /\ cur'[j] = cur[j] /\ ticking'[j] = ticking[j]
        /\ graceTimer'[j] = graceTimer[j] /\ jobs'[j] = jobs[j]
  BY DEF TimedRenewal, IntervalStep, IdleTick, RenewTick, SetState, SetTicking,
         Put, TypeOK
<1>3. Others(i)
  BY <1>1, <1>2, OthersFrom DEF TimedRenewal
<1>4. i \in interrupted \/ Course(i)'
  BY IntervalCourse DEF TimedInv, CourseInv
<1>5. QED
  BY <1>1, <1>3, <1>4, OwnCourse

\* Answers and timers of an instance that does not lead.
LEMMA AskingCourse ==
  ASSUME TimedInv, DurationsFit, TimedTypeOK', NEW i \in Holder, Course(i), NEW s \in Slot,
         TimedStep(i),
         \/ CampaignRefused(i, s) \/ CampaignError(i, s)
         \/ RetryTimerFires(i, s)
  PROVE  Course(i)'
<1> TimedTypeOK /\ TypeOK
  BY DEF TimedInv, TimedTypeOK
<1>1. Aside(i) /\ \A r \in Slot \ {s} : Free(i, r)
  BY WhenAsking DEF CampaignRefused, CampaignError, RetryTimerFires
<1>2. CASE RetryTimerFires(i, s)
  BY <1>1, <1>2, BeginCampaignCourse DEF RetryTimerFires, TimedStep, AnyStep
<1>3. CASE CampaignRefused(i, s) \/ CampaignError(i, s)
  <2>1. /\ st'[i] \in {"idle", "campaigning", "expired"}
        /\ cur'[i] = 0 /\ ~ticking'[i] /\ graceTimer'[i] = NoSlot
    BY <1>1, <1>3
       DEF Aside, CampaignRefused, CampaignError, SetState, TypeOK
  <2>2. PICK j \in {Empty, Timer("retryTimer")} : Put(i, s, j)
    BY <1>3 DEF CampaignRefused, CampaignError
  <2>3. jobs'[i][s] = j /\ \A r \in Slot \ {s} : Free(i, r)'
    BY <1>1, <2>2 DEF Put, TypeOK, Free
  <2>4. Free(i, s)' \/ Asks(i, s)'
    BY <2>3 DEF Free, Asks, Timer, Job
  <2>5. QED
    BY <2>1, <2>3, <2>4 DEF Course, Aside
<1>4. QED
  BY <1>2, <1>3

LEMMA GrantedCourse ==
  ASSUME TimedInv, TimedTypeOK', NEW i \in Holder, Course(i), NEW s \in Slot,
         TimedStep(i), TickClock(i, TRUE), CampaignGranted(i, s)
  PROVE  Course(i)'
<1> TimedTypeOK /\ TypeOK
  BY DEF TimedInv, TimedTypeOK
<1>1. /\ Aside(i) /\ Asks(i, s) /\ \A r \in Slot \ {s} : Free(i, r)
  BY WhenAsking DEF CampaignGranted
<1>2. Holds(i, jobs[i][s].n, due[i][s] + Margin)
  BY <1>1 DEF CampaignGranted, Asks
<1>3. LeaseKept(i)
  BY LeaseIsKept DEF TimedStep, AnyStep
<1>4. /\ lease'.holder = i /\ lease'.token = jobs[i][s].n
      /\ jobs[i][s].n # 0 /\ due[i][s] + Margin < left'
  BY <1>2, <1>3, HoldingStays, InstanceTyped, Durations
<1>5. /\ st'[i] = "leader" /\ ticking'[i] /\ graceTimer'[i] = NoSlot
      /\ cur'[i] = jobs[i][s].n
      /\ \A r \in Slot : Free(i, r)'
  BY <1>1 DEF CampaignGranted, SetState, SetCur, SetTicking, Put, TypeOK,
              Aside, Free
<1>6. tickDue'[i] = RenewalInterval
  BY <1>5 DEF TickClock, TimedTypeOK
<1>7. RenewalInterval + Latency + GracePeriod < left'
  BY <1>4, InstanceTyped, Durations DEF Margin, TimedTypeOK
<1>8. QED
  BY <1>4, <1>5, <1>6, <1>7 DEF Course, Leads, Holds

LEMMA RenewedCourse ==
  ASSUME TimedInv, TimedTypeOK', NEW i \in Holder, Course(i), NEW s \in Slot,
         TimedStep(i), TickClock(i, FALSE), RenewOk(i, s)
  PROVE  Course(i)'
<1> TimedTypeOK /\ TypeOK
  BY DEF TimedInv, TimedTypeOK
<1>1. RenewsIn(i, s)
  BY WhenRenewing DEF RenewOk
<1>2. Holds(i, cur[i], tickDue[i] + Latency + GracePeriod)
  BY <1>1 DEF RenewOk, RenewsIn
<1>3. LeaseKept(i)
  BY LeaseIsKept DEF TimedStep, AnyStep
<1>4. /\ lease'.holder = i /\ lease'.token = cur[i] /\ cur[i] # 0
      /\ tickDue[i] + Latency + GracePeriod < left'
  BY <1>2, <1>3, HoldingStays, InstanceTyped, Durations
<1>5. /\ st'[i] = "leader" /\ ticking'[i] /\ graceTimer'[i] = NoSlot
      /\ cur'[i] = cur[i] /\ \A r \in Slot : Free(i, r)'
  BY <1>1 DEF RenewOk, RenewsIn, SetState, Put, TypeOK, Free
<1>6. tickDue'[i] = tickDue[i]
  BY <1>5 DEF TickClock, TimedTypeOK
<1>7. QED
  BY <1>4, <1>5, <1>6 DEF Course, Leads, Holds

\* What a renewal asked for in the grace period finds, if it is granted.
LEMMA TriedLasts ==
  ASSUME TimedInv, NEW i \in Holder, NEW s \in Slot, NEW n \in Nat, NEW answer,
         CallRenew(i, "try", n, answer), jobs'[i][s] = answer,
         jobs[i][s].kind # "try", LeaseClock(i), answer.result = "ok"
  PROVE  left' = LeaseTTL
<1>1. counter' = counter /\ answer.kind = "try"
  BY RenewalCall DEF StoreKeeps, TimedInv, IInv, TypeOK, StoreOK
<1>2. s \in RenewalsAsked(i)
  BY <1>1 DEF RenewalsAsked
<1>3. QED
  BY <1>1, <1>2, RenewedLasts DEF TimedInv

LEMMA GraceCourse ==
  ASSUME TimedInv, DurationsFit, TimedTypeOK', NEW i \in Holder, Course(i),
         NEW s \in Slot, NEW g \in Slot, TimedStep(i), RenewFails(i, s, g)
  PROVE  Course(i)'
<1> TimedTypeOK /\ TypeOK
  BY DEF TimedInv, TimedTypeOK
<1>1. RenewsIn(i, s) /\ g # s
  <2>1. RenewsIn(i, s)
    BY WhenRenewing DEF RenewFails
  <2>2. QED
    BY <2>1, FreeIsNone DEF RenewFails, RenewsIn
<1>2. Holds(i, cur[i], due[i][s] + GracePeriod)
  BY <1>1 DEF RenewFails, RenewsIn, Holds
<1>3. LeaseKept(i)
  BY LeaseIsKept DEF TimedStep, AnyStep
<1>4. /\ lease'.holder = i /\ lease'.token = cur[i] /\ cur[i] # 0
      /\ GracePeriod < left'
  BY <1>2, <1>3, HoldingStays, InstanceTyped, Durations DEF TimedTypeOK
<1>5. PICK answer :
        /\ answer.result \in {"ok", "fail"} /\ answer.n = 1
        /\ CallRenew(i, "try", 1, answer)
        /\ jobs' = [jobs EXCEPT ![i][s] = answer,
                                ![i][g] = Timer("graceTimer")]
  BY DEF RenewFails
<1>6. /\ answer.kind = "try" /\ jobs'[i][s] = answer
      /\ jobs'[i][g].kind = "graceTimer"
      /\ \A r \in Slot \ {s, g} : Free(i, r)'
  BY <1>1, <1>5 DEF CallRenew, Job, Timer, TypeOK, Free, RenewsIn
<1>7. /\ st'[i] = "grace" /\ ~ticking'[i] /\ graceTimer'[i] = g
      /\ cur'[i] = cur[i]
  BY DEF RenewFails, SetState, SetTicking, SetGrace, TypeOK
<1>8. due'[i][s] = Latency /\ due'[i][g] = GracePeriod
  <2>1. jobs'[i][s] # jobs[i][s]
    BY <1>1, <1>6 DEF RenewsIn
  <2>2. jobs'[i][g] # jobs[i][g]
    BY <1>6, FreeIsNone DEF RenewFails
  <2>3. QED
    BY <1>6, <2>1, <2>2, ClockOf, Delays DEF TimedStep, AnyStep, Calls
<1>9. Tries(i, s, GracePeriod)'
  <2>1. Latency + Rest(1) < GracePeriod
    BY AttemptsFit
  <2>2. answer.result = "ok" => Holds(i, cur[i], due[i][s] + Margin)'
    <3> SUFFICES ASSUME answer.result = "ok"
                 PROVE  Holds(i, cur[i], due[i][s] + Margin)'
      OBVIOUS
    <3>1. left' = LeaseTTL
      BY <1>1, <1>5, <1>6, TriedLasts DEF RenewsIn, TimedStep, AnyStep
    <3>2. Latency + Margin < LeaseTTL
      BY Durations DEF DurationsFit, Margin
    <3>3. QED
      BY <1>4, <1>7, <1>8, <3>1, <3>2 DEF Holds
  <2>3. QED
    BY <1>5, <1>6, <1>8, <2>1, <2>2 DEF Tries
<1>10. Holds(i, cur[i], due[i][g])'
  BY <1>4, <1>7, <1>8 DEF Holds
<1>11. InGrace(i, g)'
  BY <1>6, <1>7, <1>8, <1>9, <1>10, Durations DEF InGrace
<1>12. QED
  BY <1>11 DEF Course

\* An attempt that takes place, is put off, or hangs, in the grace period.
LEMMA AttemptCourse ==
  ASSUME TimedInv, DurationsFit, TimedTypeOK', NEW i \in Holder, Course(i),
         NEW s \in Slot, OneCall(i), JobClocks, LeaseKept(i),
         \/ due[i][s] = 0 /\ TryTimerFires(i, s) /\ LeaseClock(i)
         \/ TryAgain(i, s)
         \/ AttemptHangs(i, s)
  PROVE  Course(i)'
<1> TimedTypeOK /\ TypeOK
  BY DEF TimedInv, TimedTypeOK
<1>1. PICK g \in Slot \ {s} :
        /\ InGrace(i, g) /\ Tries(i, s, due[i][g])
        /\ \A r \in Slot \ {s, g} : Free(i, r)
  BY WhenTrying DEF TryTimerFires, TryAgain, AttemptHangs
<1>2. /\ lease'.holder = i /\ lease'.token = cur[i] /\ cur[i] # 0
      /\ due[i][g] < left'
  BY <1>1, HoldingStays, InstanceTyped DEF InGrace
<1>3. PICK j : Put(i, s, j)
  BY DEF TryTimerFires, TryAgain, AttemptHangs
<1>4. /\ jobs'[i][s] = j /\ jobs'[i][g] = jobs[i][g]
      /\ \A r \in Slot \ {s, g} : Free(i, r)'
      /\ due'[i][g] = due[i][g]
  <2>1. /\ jobs'[i][s] = j /\ jobs'[i][g] = jobs[i][g]
        /\ \A r \in Slot \ {s, g} : jobs'[i][r] = jobs[i][r]
    BY <1>3 DEF Put, TypeOK
  <2>2. QED
    BY <1>1, <2>1, ClockOf DEF Free
<1>5. st'[i] = st[i] /\ cur'[i] = cur[i] /\ ticking'[i] = ticking[i]
      /\ graceTimer'[i] = graceTimer[i]
  BY DEF TryTimerFires, TryAgain, AttemptHangs
<1>6. Free(i, s)' \/ Tries(i, s, due[i][g])'
  <2>1. CASE due[i][s] = 0 /\ TryTimerFires(i, s) /\ LeaseClock(i)
    <3> DEFINE n == jobs[i][s].n + 1
    <3>1. PICK answer : /\ answer.result \in {"ok", "fail"} /\ answer.n = n
                        /\ CallRenew(i, "try", n, answer)
                        /\ Put(i, s, answer)
      BY <2>1 DEF TryTimerFires
    <3>2. n \in Nat
      BY InstanceTyped
    <3>3. answer.kind = "try" /\ jobs'[i][s] = answer
      BY <3>1 DEF CallRenew, Job, Put, TypeOK
    <3>4. jobs[i][s].kind = "tryTimer" /\ Latency + Rest(n) < due[i][g]
      BY <1>1, <2>1, <3>2, RestUnfolds, Durations DEF TryTimerFires, Tries
    <3>5. due'[i][s] = Latency
      BY <3>3, <3>4, ClockOf, Delays DEF Calls
    <3>6. answer.result = "ok" => left' = LeaseTTL
      BY <2>1, <3>1, <3>2, <3>3, <3>4, TriedLasts
    <3>7. Latency + Margin < LeaseTTL
      BY Durations DEF DurationsFit, Margin
    <3>8. answer.result = "ok" => Holds(i, cur[i], due[i][s] + Margin)'
      BY <1>2, <1>5, <3>5, <3>6, <3>7 DEF Holds
    <3>9. QED
      BY <1>4, <3>1, <3>3, <3>4, <3>5, <3>8 DEF Tries
  <2>2. CASE TryAgain(i, s)
    <3> DEFINE n == jobs[i][s].n
    <3>1. /\ jobs[i][s].kind = "try" /\ n < MaxAttempts
          /\ jobs'[i][s].kind = "tryTimer" /\ jobs'[i][s].n = n
      BY <2>2 DEF TryAgain, Put, TypeOK, Job
    <3>2. due'[i][s] = AttemptDelay
      BY <3>1, ClockOf, Delays
    <3>3. due[i][s] + Rest(n) < due[i][g]
      BY <1>1, <3>1 DEF Tries
    <3>4. n \in Nat /\ due[i][s] \in Nat /\ due[i][g] \in Nat
      BY InstanceTyped
    <3>5. AttemptDelay + Latency + Rest(n + 1) < due[i][g]
      BY <3>1, <3>3, <3>4, RestUnfolds, Durations
    <3>6. QED
      BY <1>4, <3>1, <3>2, <3>5 DEF Tries
  <2>3. CASE AttemptHangs(i, s)
    BY <2>3 DEF AttemptHangs, Put, TypeOK, Free
  <2>4. QED
    BY <2>1, <2>2, <2>3
<1>7. Holds(i, cur[i], due[i][g])'
  BY <1>2, <1>4, <1>5 DEF Holds
<1>8. Tries(i, s, due[i][g])' => \A r \in Slot \ {g} : Free(i, r)' \/ Tries(i, r, due[i][g])'
  BY <1>4
<1>9. InGrace(i, g)'
  BY <1>1, <1>4, <1>5, <1>6, <1>7 DEF InGrace
<1>10. QED
  BY <1>9 DEF Course

\* The attempt that brings the lease back ends the grace period.
LEMMA BackCourse ==
  ASSUME TimedInv, TimedTypeOK', NEW i \in Holder, Course(i), NEW s \in Slot,
         TimedStep(i), TickClock(i, TRUE), TryOk(i, s)
  PROVE  Course(i)'
<1> TimedTypeOK /\ TypeOK
  BY DEF TimedInv, TimedTypeOK
<1>1. PICK g \in Slot \ {s} :
        /\ InGrace(i, g) /\ Tries(i, s, due[i][g])
        /\ \A r \in Slot \ {s, g} : Free(i, r)
  BY WhenTrying DEF TryOk
<1>2. Holds(i, cur[i], due[i][s] + Margin)
  BY <1>1 DEF TryOk, Tries
<1>3. LeaseKept(i)
  BY LeaseIsKept DEF TimedStep, AnyStep
<1>4. /\ lease'.holder = i /\ lease'.token = cur[i] /\ cur[i] # 0
      /\ due[i][s] + Margin < left'
  BY <1>2, <1>3, HoldingStays, InstanceTyped, Durations
<1>5. /\ st'[i] = "leader" /\ ticking'[i] /\ graceTimer'[i] = NoSlot
      /\ cur'[i] = cur[i]
  BY DEF TryOk, SetState, SetTicking, SetGrace, TypeOK
<1>6. \A r \in Slot : Free(i, r)'
  <2>1. jobs'[i] = [WithoutGrace(i) EXCEPT ![s] = Empty]
    BY DEF TryOk, TypeOK
  <2>2. graceTimer[i] = g
    BY <1>1 DEF InGrace
  <2>3. \A r \in Slot : jobs'[i][r] = Empty
    BY <1>1, <2>1, <2>2 DEF WithoutGrace, Free
  <2>4. QED
    BY <2>3 DEF Free
<1>7. tickDue'[i] = RenewalInterval
  BY <1>5 DEF TickClock, TimedTypeOK
<1>8. RenewalInterval + Latency + GracePeriod < left'
  BY <1>4, InstanceTyped, Durations DEF Margin, TimedTypeOK
<1>9. QED
  BY <1>4, <1>5, <1>6, <1>7, <1>8 DEF Course, Leads, Holds

\* When the attempts have failed, or the timer fires, nothing else of the
\* grace period is left over.
LEMMA ExpiredCourse ==
  ASSUME TimedInv, NEW i \in Holder, Course(i), NEW s \in Slot,
         TryGivesUp(i, s) \/ (due[i][s] = 0 /\ GraceTimerFires(i, s))
  PROVE  Course(i)'
<1> TimedTypeOK /\ TypeOK
  BY DEF TimedInv, TimedTypeOK
<1>1. PICK remaining \in {WithoutGrace(i), jobs[i]} :
        /\ Expire(i, s, remaining)
        /\ \A r \in Slot \ {s} : remaining[r] = Empty
        /\ remaining \in [Slot -> JobType]
        /\ ticking'[i] = FALSE /\ graceTimer'[i] = NoSlot
  <2>1. CASE TryGivesUp(i, s)
    <3>1. PICK g \in Slot \ {s} :
            /\ InGrace(i, g) /\ \A r \in Slot \ {s, g} : Free(i, r)
      BY <2>1, WhenTrying DEF TryGivesUp
    <3>2. graceTimer[i] = g /\ ticking[i] = FALSE
      BY <3>1 DEF InGrace, TypeOK
    <3>3. \A r \in Slot \ {s} : WithoutGrace(i)[r] = Empty
      BY <3>1, <3>2 DEF WithoutGrace, Free
    <3>4. WithoutGrace(i) \in [Slot -> JobType]
      BY WithoutGraceTyped DEF TimedInv
    <3>5. QED
      BY <2>1, <3>2, <3>3, <3>4 DEF TryGivesUp, SetGrace, TypeOK
  <2>2. CASE due[i][s] = 0 /\ GraceTimerFires(i, s)
    <3>1. InGrace(i, s)
      BY <2>2, WhenGraceEnds DEF GraceTimerFires
    <3>2. \A r \in Slot \ {s} : ~Tries(i, r, due[i][s])
      <4> SUFFICES ASSUME NEW r \in Slot \ {s}, Tries(i, r, 0)
                   PROVE  FALSE
        BY <2>2
      <4>1. due[i][r] \in Nat /\ jobs[i][r].n \in Nat
        BY InstanceTyped
      <4>2. Rest(jobs[i][r].n) \in Nat /\ Rest(jobs[i][r].n + 1) \in Nat
        BY <4>1, RestUnfolds
      <4>3. QED
        BY <4>1, <4>2, Durations DEF Tries
    <3>3. \A r \in Slot \ {s} : jobs[i][r] = Empty
      BY <3>1, <3>2 DEF InGrace, Free
    <3>4. graceTimer[i] = s /\ ticking[i] = FALSE
      BY <3>1 DEF InGrace, TypeOK
    <3>5. QED
      BY <2>2, <3>3, <3>4 DEF GraceTimerFires, SetGrace, TypeOK
  <2>3. QED
    BY <2>1, <2>2
<1>2. PICK j \in {Empty, Timer("retryTimer")} :
        jobs' = [jobs EXCEPT ![i] = [remaining EXCEPT ![s] = j]]
  BY <1>1 DEF Expire
<1>3. jobs'[i][s] = j /\ \A r \in Slot \ {s} : jobs'[i][r] = Empty
  BY <1>1, <1>2 DEF TypeOK
<1>4. cur'[i] = 0 /\ st'[i] \in {"idle", "expired"}
  BY <1>1 DEF Expire, SetCur, SetState, TypeOK
<1>5. Free(i, s)' \/ Asks(i, s)'
  BY <1>3 DEF Free, Asks, Timer, Job
<1>6. Aside(i)'
  BY <1>1, <1>3, <1>4, <1>5 DEF Aside, Free
<1>7. QED
  BY <1>6 DEF Course

LEMMA InstancesApart ==
  ASSUME TimedTypeOK, NEW i \in Holder, NEW s \in Slot,
         \/ AnswerStep(i, s) \/ TimerStep(i, s) \/ AttemptHangs(i, s)
  PROVE  \A j \in Holder \ {i} :
           /\ st'[j] = st[j] /\ cur'[j] = cur[j] /\ ticking'[j] = ticking[j]
           /\ graceTimer'[j] = graceTimer[j] /\ jobs'[j] = jobs[j]
<1> USE DEF TimedTypeOK, TypeOK, SetState, SetCur, SetTicking, SetGrace, Put
<1>1. CASE \/ CampaignGranted(i, s) \/ CampaignRefused(i, s)
           \/ CampaignError(i, s) \/ RenewOk(i, s)
  BY <1>1 DEF CampaignGranted, CampaignRefused, CampaignError, RenewOk
<1>2. CASE \E g \in Slot : RenewFails(i, s, g)
  BY <1>2 DEF RenewFails
<1>3. CASE TryOk(i, s) \/ TryAgain(i, s) \/ TryGivesUp(i, s)
  BY <1>3 DEF TryOk, TryAgain, TryGivesUp, Expire
<1>4. CASE \/ ReleaseAnswered(i, s) \/ StopReleased(i, s) \/ StopClosed(i, s)
  BY <1>4 DEF ReleaseAnswered, StopReleased, StopClosed, AfterRelease
<1>5. CASE RetryTimerFires(i, s) \/ TryTimerFires(i, s)
  BY <1>5 DEF RetryTimerFires, BeginCampaign, TryTimerFires
<1>6. CASE GraceTimerFires(i, s)
  BY <1>6 DEF GraceTimerFires, Expire
<1>7. CASE AttemptHangs(i, s)
  BY <1>7 DEF AttemptHangs
<1>8. QED
  BY <1>1, <1>2, <1>3, <1>4, <1>5, <1>6, <1>7 DEF AnswerStep, TimerStep

LEMMA AnswerOwnCourse ==
  ASSUME TimedInv, DurationsFit, TimedTypeOK', NEW i \in Holder, Course(i),
         NEW s \in Slot, TimedAnswer(i, s)
  PROVE  Course(i)'
<1> TimedTypeOK
  BY DEF TimedInv
<1>1. TimedStep(i) /\ LeaseKept(i)
  BY StepsAreTimed, LeaseIsKept DEF TimedStep, AnyStep
<1>2. Course(i)'
  <2>1. CASE CampaignGranted(i, s)
    <3>1. TickClock(i, TRUE)
      BY <2>1 DEF TimedAnswer, CampaignGranted
    <3>2. QED
      BY <1>1, <2>1, <3>1, GrantedCourse
  <2>2. CASE CampaignRefused(i, s) \/ CampaignError(i, s)
    BY <1>1, <2>2, AskingCourse
  <2>3. CASE RenewOk(i, s)
    <3>1. TickClock(i, FALSE)
      BY <2>3 DEF TimedAnswer, RenewOk
    <3>2. QED
      BY <1>1, <2>3, <3>1, RenewedCourse
  <2>4. CASE \E g \in Slot : RenewFails(i, s, g)
    BY <1>1, <2>4, GraceCourse
  <2>5. CASE TryOk(i, s)
    <3>1. TickClock(i, TRUE)
      BY <2>5 DEF TimedAnswer, TryOk
    <3>2. QED
      BY <1>1, <2>5, <3>1, BackCourse
  <2>6. CASE TryAgain(i, s)
    BY <1>1, <2>6, AttemptCourse DEF TimedStep, AnyStep
  <2>7. CASE TryGivesUp(i, s)
    BY <2>7, ExpiredCourse
  <2>8. CASE ReleaseAnswered(i, s) \/ StopReleased(i, s) \/ StopClosed(i, s)
    BY <2>8, NoReleases
       DEF ReleaseAnswered, StopReleased, StopClosed
  <2>9. QED
    BY <2>1, <2>2, <2>3, <2>4, <2>5, <2>6, <2>7, <2>8
       DEF TimedAnswer, AnswerStep
<1>3. QED
  BY <1>2

LEMMA AnswerCourse ==
  ASSUME TimedInv, DurationsFit, TimedTypeOK', NEW i \in Holder, NEW s \in Slot,
         TimedAnswer(i, s)
  PROVE  CourseInv'
<1> TimedTypeOK
  BY DEF TimedInv
<1>1. AnyStep(i) /\ interrupted' = interrupted
  BY StepsAreAny DEF TimedAnswer
<1>2. Others(i)
  BY <1>1, InstancesApart, OthersFrom DEF TimedAnswer, AnyStep
<1>3. i \in interrupted \/ Course(i)'
  BY AnswerOwnCourse DEF TimedInv, CourseInv
<1>4. QED
  BY <1>1, <1>2, <1>3, OwnCourse

LEMMA TimerCourse ==
  ASSUME TimedInv, DurationsFit, TimedTypeOK', NEW i \in Holder, NEW s \in Slot,
         TimedTimer(i, s)
  PROVE  CourseInv'
<1> TimedTypeOK
  BY DEF TimedInv
<1>1. AnyStep(i) /\ interrupted' = interrupted
  BY StepsAreAny DEF TimedTimer
<1>2. Others(i)
  BY <1>1, InstancesApart, OthersFrom DEF TimedTimer, AnyStep
<1>3. ASSUME Course(i) PROVE Course(i)'
  <2>1. TimedStep(i) /\ LeaseKept(i)
    BY <1>3, StepsAreTimed, LeaseIsKept DEF TimedStep, AnyStep
  <2>2. QED
    BY <1>3, <2>1, AskingCourse, AttemptCourse, ExpiredCourse
       DEF TimedTimer, TimerStep, TimedStep, AnyStep
<1>4. i \in interrupted \/ Course(i)'
  BY <1>3 DEF TimedInv, CourseInv
<1>5. QED
  BY <1>1, <1>2, <1>4, OwnCourse

LEMMA HangCourse ==
  ASSUME TimedInv, DurationsFit, TimedTypeOK', NEW i \in Holder, NEW s \in Slot,
         AttemptHangs(i, s)
  PROVE  CourseInv'
<1> TimedTypeOK /\ CourseInv
  BY DEF TimedInv
<1>1. /\ UNCHANGED backendVars /\ left' = left /\ JobClocks /\ OneCall(i)
      /\ interrupted' = interrupted
  BY DEF AttemptHangs, OneCall
<1>2. LeaseKept(i)
  BY <1>1, Durations DEF LeaseKept, backendVars, TimedTypeOK
<1>3. \A j \in Holder \ {i} :
        /\ tickDue'[j] = tickDue[j]
        /\ \A r \in Slot : jobs'[j][r] = jobs[j][r] /\ due'[j][r] = due[j][r]
  BY <1>1, ClockOf, InstancesApart DEF AttemptHangs
<1>4. Others(i)
  BY <1>3, InstancesApart DEF Others
<1>5. Course(i) => Course(i)'
  BY <1>1, <1>2, AttemptCourse
<1>6. Spared(i)
  BY <1>2 DEF Spared
<1>7. \A j \in (Holder \ {i}) \ interrupted : Course(j)'
  BY <1>4, <1>6, OthersStay DEF CourseInv
<1>8. QED
  BY <1>1, <1>5, <1>7 DEF CourseInv

-----------------------------------------------------------------------------
(* The clock.                                                              *)

\* A lease that is held for the time to come and a tick is held after it.
LEMMA HoldingAges ==
  ASSUME TimedTypeOK, Tick,
         NEW j, NEW t, NEW time \in Nat, Holds(j, t, time + 1)
  PROVE  t # 0 /\ lease'.holder = j /\ lease'.token = t /\ time < left'
<1>1. left \in Nat /\ time + 1 < left
  BY Durations DEF TimedTypeOK, Holds
<1>2. left > 1 /\ lease.phase = "live"
  BY <1>1 DEF TimedTypeOK
<1>3. UNCHANGED vars /\ left' = left - 1
  BY <1>1, <1>2 DEF Tick, Pred
<1>4. lease' = lease /\ time < left'
  BY <1>1, <1>3 DEF vars, backendVars
<1>5. QED
  BY <1>4 DEF Holds

LEMMA TickCourse ==
  ASSUME TimedInv, Tick, NEW i \in Holder, Course(i)
  PROVE  Course(i)'
<1> TimedTypeOK
  BY DEF TimedInv
<1>1. UNCHANGED instVars
  BY DEF Tick, LeaseAges, vars
<1>2. /\ st' = st /\ cur' = cur /\ ticking' = ticking
      /\ graceTimer' = graceTimer /\ jobs' = jobs
  BY <1>1 DEF instVars
<1>3. /\ cur[i] \in Nat /\ tickDue[i] \in Nat
      /\ \A s \in Slot : due[i][s] \in Nat /\ jobs[i][s].n \in Nat
  BY InstanceTyped
<1>4. \A s \in Slot :
        Free(i, s) \/ (due[i][s] = due'[i][s] + 1 /\ due'[i][s] \in Nat)
  <2> SUFFICES ASSUME NEW s \in Slot, ~Free(i, s)
               PROVE  due[i][s] = due'[i][s] + 1 /\ due'[i][s] \in Nat
    OBVIOUS
  <2>1. due[i][s] > 0
    BY DEF Tick
  <2>2. due'[i][s] = Pred(due[i][s])
    BY DEF Tick
  <2>3. QED
    BY <1>3, <2>1, <2>2 DEF Pred
<1>5. ticking[i] => tickDue[i] = tickDue'[i] + 1 /\ tickDue'[i] \in Nat
  BY <1>3 DEF Tick, Pred
<1>6. \A s \in Slot : Free(i, s)' <=> Free(i, s)
  BY <1>2 DEF Free
<1> HIDE DEF Free
<1>7. ASSUME Aside(i) PROVE Aside(i)'
  <2>1. ASSUME NEW s \in Slot, Asks(i, s), ~Free(i, s) PROVE Asks(i, s)'
    <3> SUFFICES ASSUME jobs[i][s].kind = "campaign", jobs[i][s].result = "ok"
                 PROVE  Holds(i, jobs[i][s].n, due[i][s] + Margin)'
      BY <1>2, <2>1 DEF Asks
    <3>1. due'[i][s] + Margin \in Nat
          /\ due[i][s] + Margin = due'[i][s] + Margin + 1
      BY <1>4, <2>1, Durations
    <3>2. Holds(i, jobs[i][s].n, due'[i][s] + Margin + 1)
      BY <2>1, <3>1 DEF Asks
    <3>3. QED
      BY <1>2, <3>1, <3>2, HoldingAges DEF Holds
  <2>2. QED
    BY <1>2, <1>6, <1>7, <2>1 DEF Aside
<1>8. ASSUME Leads(i) PROVE Leads(i)'
  <2>1. tickDue'[i] + Latency + GracePeriod \in Nat
        /\ tickDue[i] + Latency + GracePeriod
             = tickDue'[i] + Latency + GracePeriod + 1
    BY <1>5, <1>8, Durations DEF Leads
  <2>2. Holds(i, cur[i], tickDue[i] + Latency + GracePeriod)'
    BY <1>2, <1>8, <2>1, HoldingAges DEF Holds, Leads
  <2>3. QED
    BY <1>2, <1>6, <1>8, <2>2 DEF Leads
<1>9. ASSUME NEW s \in Slot, RenewsIn(i, s) PROVE RenewsIn(i, s)'
  <2>1. ~Free(i, s) /\ ticking[i]
    BY <1>9, FreeIsNone DEF RenewsIn
  <2>2. due'[i][s] < tickDue'[i]
    BY <1>3, <1>4, <1>5, <1>9, <2>1 DEF RenewsIn
  <2>3. CASE jobs[i][s].result = "ok"
    <3>1. tickDue'[i] + Latency + GracePeriod \in Nat
          /\ tickDue[i] + Latency + GracePeriod
               = tickDue'[i] + Latency + GracePeriod + 1
      BY <1>5, <2>1, Durations
    <3>2. Holds(i, cur[i], tickDue'[i] + Latency + GracePeriod + 1)
      BY <1>9, <2>3, <3>1 DEF RenewsIn
    <3>3. Holds(i, cur[i], tickDue[i] + Latency + GracePeriod)'
      BY <1>2, <3>1, <3>2, HoldingAges DEF Holds
    <3>4. QED
      BY <1>2, <1>6, <1>9, <2>2, <2>3, <3>3 DEF RenewsIn
  <2>4. CASE jobs[i][s].result # "ok"
    <3>1. due'[i][s] + GracePeriod \in Nat
          /\ due[i][s] + GracePeriod = due'[i][s] + GracePeriod + 1
      BY <1>4, <2>1, Durations
    <3>2. Holds(i, cur[i], due'[i][s] + GracePeriod + 1)
      BY <1>9, <2>4, <3>1 DEF RenewsIn
    <3>3. Holds(i, cur[i], due[i][s] + GracePeriod)'
      BY <1>2, <3>1, <3>2, HoldingAges DEF Holds
    <3>4. QED
      BY <1>2, <1>6, <1>9, <2>2, <2>4, <3>3 DEF RenewsIn
  <2>5. QED
    BY <2>3, <2>4
<1>10. ASSUME NEW g \in Slot, InGrace(i, g) PROVE InGrace(i, g)'
  <2>1. due[i][g] = due'[i][g] + 1 /\ due'[i][g] \in Nat
    BY <1>4, <1>10, FreeIsNone DEF InGrace
  <2>2. Holds(i, cur[i], due[i][g])'
    BY <1>2, <1>10, <2>1, HoldingAges DEF Holds, InGrace
  <2>3. ASSUME NEW s \in Slot \ {g}, ~Free(i, s) PROVE Tries(i, s, due[i][g])'
    <3>1. due[i][s] = due'[i][s] + 1 /\ due'[i][s] \in Nat
      BY <1>4, <2>3
    <3>2. Tries(i, s, due[i][g])
      BY <1>10, <2>3 DEF InGrace
    <3>3. /\ Rest(jobs[i][s].n) \in Nat /\ Rest(jobs[i][s].n + 1) \in Nat
          /\ Latency \in Nat
      BY <1>3, RestUnfolds, Durations
    <3>4. CASE jobs[i][s].kind = "try"
      <4>1. due'[i][s] + Rest(jobs[i][s].n) < due'[i][g]
        BY <1>3, <2>1, <3>1, <3>2, <3>3, <3>4 DEF Tries
      <4>2. ASSUME jobs[i][s].result = "ok"
            PROVE  Holds(i, cur[i], due[i][s] + Margin)'
        <5>1. due'[i][s] + Margin \in Nat
              /\ due[i][s] + Margin = due'[i][s] + Margin + 1
          BY <3>1, Durations
        <5>2. Holds(i, cur[i], due'[i][s] + Margin + 1)
          BY <3>2, <3>4, <4>2, <5>1 DEF Tries
        <5>3. QED
          BY <1>2, <5>1, <5>2, HoldingAges DEF Holds
      <4>3. QED
        BY <1>2, <3>4, <4>1, <4>2 DEF Tries
    <3>5. CASE jobs[i][s].kind = "tryTimer"
      BY <1>2, <1>3, <2>1, <3>1, <3>2, <3>3, <3>5 DEF Tries
    <3>6. QED
      BY <3>2, <3>4, <3>5 DEF Tries
  <2>4. due'[i][g] <= GracePeriod
    BY <1>10, <2>1, Durations DEF InGrace
  <2>5. QED
    BY <1>2, <1>6, <1>10, <2>2, <2>3, <2>4 DEF InGrace
<1>11. QED
  BY <1>7, <1>8, <1>9, <1>10 DEF Course

-----------------------------------------------------------------------------
(* Every step, and what follows.                                           *)

\* A query finds the lease or, when it is past, forgets it.
LEMMA QueryCourse ==
  ASSUME TimedInv, TimedTypeOK', TimedQuery
  PROVE  CourseInv'
<1> TimedTypeOK /\ CourseInv
  BY DEF TimedInv
<1>1. UNCHANGED instVars /\ UNCHANGED clockVars /\ interrupted' = interrupted
  BY DEF TimedQuery, GetCurrentLeader, GetLease
<1>2. /\ st' = st /\ cur' = cur /\ ticking' = ticking
      /\ graceTimer' = graceTimer /\ jobs' = jobs
      /\ left' = left /\ due' = due /\ tickDue' = tickDue
  BY <1>1 DEF instVars, clockVars
<1>3. left > 0 => lease' = lease
  BY DEF TimedQuery, GetCurrentLeader, GetLease, TimedTypeOK
<1>4. \A i : LeaseKept(i)
  BY <1>2, <1>3, Durations DEF LeaseKept, TimedTypeOK
<1>5. \A i \in Holder : Others(i)
  BY <1>2 DEF Others
<1>6. ASSUME NEW j \in Holder \ interrupted PROVE Course(j)'
  <2>1. \A t, time \in Nat : Holds(j, t, time) => Holds(j, t, time)'
    BY <1>4, HoldingStays DEF Holds
  <2>2. /\ cur[j] \in Nat /\ tickDue[j] \in Nat
        /\ \A s \in Slot : due[j][s] \in Nat /\ jobs[j][s].n \in Nat
    BY InstanceTyped
  <2>3. Course(j)
    BY DEF CourseInv
  <2> HIDE DEF Holds
  <2>4. ASSUME Aside(j) PROVE Aside(j)'
    BY <1>2, <2>1, <2>2, <2>4, Durations DEF Aside, Asks, Free
  <2>5. ASSUME Leads(j) PROVE Leads(j)'
    BY <1>2, <2>1, <2>2, <2>5, Durations DEF Leads, Free
  <2>6. ASSUME NEW s \in Slot, RenewsIn(j, s) PROVE RenewsIn(j, s)'
    BY <1>2, <2>1, <2>2, <2>6, Durations DEF RenewsIn, Free
  <2>7. ASSUME NEW g \in Slot, InGrace(j, g) PROVE InGrace(j, g)'
    <3>1. \A s \in Slot : Tries(j, s, due[j][g]) => Tries(j, s, due[j][g])'
      BY <1>2, <2>1, <2>2, Durations DEF Tries
    <3>2. QED
      BY <1>2, <2>1, <2>2, <2>7, <3>1 DEF InGrace, Free
  <2>8. QED
    BY <2>3, <2>4, <2>5, <2>6, <2>7 DEF Course
<1>7. QED
  BY <1>1, <1>6 DEF CourseInv

LEMMA StutterCourse ==
  ASSUME TimedInv, UNCHANGED timedVars
  PROVE  CourseInv'
<1>1. UNCHANGED <<interrupted, lease, st, cur, ticking, graceTimer, jobs, left,
                  due, tickDue>>
  BY DEF timedVars, vars, backendVars, instVars, clockVars
<1>2. ASSUME NEW i \in Holder \ interrupted PROVE Course(i)'
  BY <1>1 DEF TimedInv, CourseInv, Course, Aside, Asks, Leads, RenewsIn, InGrace,
              Tries, Holds, Free
<1>3. QED
  BY <1>1, <1>2 DEF TimedInv, CourseInv

LEMMA InitTimed == TimedInit => TimedInv
<1> SUFFICES ASSUME TimedInit PROVE TimedInv
  OBVIOUS
<1> USE DEF TimedInit
<1>1. IInv
  BY InitIInv
<1>2. TimedTypeOK
  <2>1. left \in 0 .. LeaseTTL /\ tickDue \in [Holder -> 0 .. RenewalInterval]
    BY Durations
  <2>2. lease.phase = "none"
    BY DEF Init, BackendInit, NoLease
  <2>3. QED
    BY <1>1, <2>1, <2>2, Durations DEF TimedTypeOK, IInv
<1>3. CourseInv
  BY DEF CourseInv, Course, Aside, Free, Init, BackendInit
<1>4. QED
  BY <1>1, <1>2, <1>3 DEF TimedInv

LEMMA NextTimed ==
  DurationsFit => (TimedInv /\ [TimedNext]_timedVars => TimedInv')
<1> SUFFICES ASSUME DurationsFit, TimedInv, [TimedNext]_timedVars
             PROVE  TimedInv'
  OBVIOUS
<1>1. IInv' /\ TimedTypeOK'
  BY TimedIInv, TimedTyped DEF TimedInv
<1>2. CASE Tick
  <2>1. interrupted' = interrupted
    BY <1>2 DEF Tick
  <2>2. QED
    BY <1>1, <1>2, <2>1, TickCourse DEF TimedInv, CourseInv
<1>3. CASE ~Tick
  BY <1>1, <1>3, AppCourse, InterruptCourse, RenewalCourse, AnswerCourse, TimerCourse, HangCourse,
     QueryCourse, StutterCourse DEF TimedNext, TimedInv
<1>4. QED
  BY <1>2, <1>3

\* Whatever the durations: the values of the timed election are of their types,
\* and the stored lease is in force exactly as long as it has time left.
THEOREM TimedTypeCorrect == TimedSpec => []TimedTypeOK
<1> DEFINE Typed == IInv /\ TimedTypeOK
<1>1. TimedInit => Typed
  BY InitTimed DEF TimedInv
<1>2. Typed /\ [TimedNext]_timedVars => Typed'
  BY TimedIInv, TimedTyped
<1>3. Typed => TimedTypeOK
  OBVIOUS
<1>4. QED
  BY <1>1, <1>2, <1>3, PTL DEF TimedSpec

\* With durations that fit, an instance that answers true to isLeader(), and
\* was not released, stopped or told to campaign while in use, has the stored
\* lease, with time left: for any number of instances, under lost and late
\* answers, attempts that hang, restarts and exhausted retries, and whatever the
\* application does to the other instances, which may lead beside it.
THEOREM LeadersHaveTheLease == DurationsFit => (TimedSpec => []LeaderIsCurrent)
<1> SUFFICES ASSUME DurationsFit PROVE TimedSpec => []LeaderIsCurrent
  OBVIOUS
<1>1. TimedInit => TimedInv
  BY InitTimed
<1>2. TimedInv /\ [TimedNext]_timedVars => TimedInv'
  BY NextTimed
<1>3. TimedInv => LeaderIsCurrent
  <2> SUFFICES ASSUME TimedInv, NEW i \in Holder \ interrupted, IsLeader(i)
               PROVE  lease.holder = i /\ lease.token = cur[i] /\ left > 0
    BY DEF LeaderIsCurrent
  <2> TimedTypeOK /\ Course(i)
    BY DEF TimedInv, CourseInv
  <2>1. \E time \in Nat : Holds(i, cur[i], time)
    <3>1. CASE Leads(i)
      BY <3>1, InstanceTyped, Durations DEF Leads
    <3>2. ASSUME NEW s \in Slot, RenewsIn(i, s)
          PROVE  \E time \in Nat : Holds(i, cur[i], time)
      <4>1. /\ tickDue[i] + Latency + GracePeriod \in Nat
            /\ due[i][s] + GracePeriod \in Nat
        BY InstanceTyped, Durations
      <4>2. QED
        BY <3>2, <4>1 DEF RenewsIn
    <3>3. ASSUME NEW g \in Slot, InGrace(i, g)
          PROVE  \E time \in Nat : Holds(i, cur[i], time)
      BY <3>3, InstanceTyped DEF InGrace
    <3>4. QED
      BY <3>1, <3>2, <3>3 DEF Course, Aside, IsLeader
  <2>2. QED
    BY <2>1, InstanceTyped DEF Holds
<1>4. QED
  BY <1>1, <1>2, <1>3, PTL DEF TimedSpec

\* So of the instances the application left alone no two lead at once when the
\* durations fit: what is done to others cannot bring about the split brain that
\* TLC finds when they do not.
THEOREM NoSplitBrain ==
  DurationsFit =>
    (TimedSpec => [](\A i, j \in Holder \ interrupted :
                       IsLeader(i) /\ IsLeader(j) => i = j))
<1> SUFFICES ASSUME DurationsFit
             PROVE  TimedSpec => [](\A i, j \in Holder \ interrupted :
                                      IsLeader(i) /\ IsLeader(j) => i = j)
  OBVIOUS
<1>1. LeaderIsCurrent => \A i, j \in Holder \ interrupted :
                           IsLeader(i) /\ IsLeader(j) => i = j
  BY DEF LeaderIsCurrent
<1>2. QED
  BY <1>1, LeadersHaveTheLease, PTL
=============================================================================
