------------------------ MODULE RedisElection_proofs ------------------------
(***************************************************************************)
(* Leader election over Redis, for any number of instances, any periods    *)
(* and any number of faults: what its state is made of, and how a leader   *)
(* comes to lead without the key.                                          *)
(***************************************************************************)
EXTENDS RedisElection, TLAPS

\* The delays and failures of a run fit between two refreshes of the key.
PeriodsFit == RefreshPeriod + MaxFaults < LeaderTTL

CallPlaces == {"none", "set", "get", "expire", "term", "announce", "pause", "check", "delete", "farewell"}
CallJob == [at : CallPlaces, ans : Answers, due : Nat]
RefreshJob == [at : {"none", "timer", "set", "get", "expire"}, ans : Answers, due : Nat]
LateJob == [at : {"none", "set", "get"}, ans : Answers, due : Nat]
Standings == {"follower", "leader", "unrefreshed", "resigning"}

Running(c) == refresh[c].at # "none"

ElectionTyped ==
  /\ leaderKey \in Candidate \cup {Nobody} /\ keyLeft \in 0 .. RoundedTTL
  /\ leaderKey = Nobody <=> keyLeft = 0
  /\ standing \in [Candidate -> Standings]
  /\ down \in [Candidate -> BOOLEAN] /\ strayed \in [Candidate -> BOOLEAN]
  /\ call \in [Candidate -> CallJob]
  /\ refresh \in [Candidate -> RefreshJob]
  /\ late \in [Candidate -> LateJob]
  /\ faults \in 0 .. MaxFaults
  /\ \A c \in Candidate : ~Running(c) => refresh[c] = NoJob

-----------------------------------------------------------------------------
(* What a command does.                                                    *)

\* One command of c: who has the key afterwards, and for how long.
KeyOf(c, command, job) ==
  /\ leaderKey' \in Candidate \cup {Nobody} /\ keyLeft' \in 0 .. RoundedTTL
  /\ leaderKey' = Nobody <=> keyLeft' = 0
  /\ strayed' \in [Candidate -> BOOLEAN]
  /\ \A d \in Candidate \ {c} :
       /\ leaderKey' = d => leaderKey = d
       /\ strayed'[d] = strayed[d] \/ (leaderKey = d /\ leaderKey' # d /\ strayed'[d])
       /\ leaderKey = d /\ leaderKey' # d => strayed'[d]
  /\ command # "delete" =>
       /\ \A d \in Candidate : leaderKey = d => leaderKey' = d /\ keyLeft' >= keyLeft
       /\ (~strayed[c] => leaderKey = c) => (~strayed'[c] => leaderKey' = c)
       /\ leaderKey # c /\ leaderKey' = c => keyLeft' = LeaderTTL

\* What c learns of it.
NewsOf(c, command, job) ==
  /\ job \in CallJob /\ job.at = command
  /\ faults' \in 0 .. MaxFaults /\ faults' >= faults + job.due
  /\ job.at \in {"get", "check"} /\ job.ans = c => leaderKey = c
  /\ Won(c, job) => /\ ~strayed'[c] => leaderKey' = c
                    /\ leaderKey' = c => keyLeft' >= LeaderTTL
                    /\ command = "set" \/ leaderKey = c => leaderKey' = c

LEMMA Commands ==
  ASSUME ElectionTyped, NEW c \in Candidate, NEW job \in Jobs,
         NEW command \in {"set", "get", "expire", "check", "delete"}, Sent(c, command, job)
  PROVE  KeyOf(c, command, job) /\ NewsOf(c, command, job)
<1> USE PeriodsAssumption, SentinelAssumption, FaultAssumption
<1>1. /\ leaderKey \in Candidate \cup {Nobody} /\ keyLeft \in 0 .. RoundedTTL
      /\ leaderKey = Nobody <=> keyLeft = 0
      /\ strayed \in [Candidate -> BOOLEAN] /\ faults \in 0 .. MaxFaults
  BY DEF ElectionTyped
<1>2. /\ job.at \in {"set", "get", "expire", "check", "delete"} /\ job.ans \in Answers
      /\ job.due \in 0 .. MaxFaults
      /\ job = [at |-> job.at, ans |-> job.ans, due |-> job.due]
  BY DEF Jobs
<1>3. job \in CallJob /\ job.at = command
  BY <1>2 DEF CallJob, CallPlaces, Sent
<1>4. faults' \in 0 .. MaxFaults /\ faults' >= faults + job.due
  BY <1>1, <1>2 DEF Sent
<1>5. CASE Effect(c, command)
  <2>1. CASE command = "set" /\ leaderKey = Nobody
    <3>1. leaderKey' = c /\ keyLeft' = LeaderTTL /\ strayed' = [strayed EXCEPT ![c] = FALSE]
      BY <1>1, <1>5, <2>1 DEF Effect, Strays
    <3>2. QED
      BY <1>1, <1>3, <1>4, <2>1, <3>1 DEF KeyOf, NewsOf, Won
  <2>2. CASE command = "expire"
    <3>1. /\ leaderKey' = leaderKey
          /\ keyLeft' = IF leaderKey = Nobody THEN keyLeft ELSE RoundedTTL
          /\ strayed' = [strayed EXCEPT ![c] = leaderKey # c]
      BY <1>1, <1>5, <2>2 DEF Effect, Strays, keyVars
    <3>2. /\ strayed' \in [Candidate -> BOOLEAN] /\ strayed'[c] <=> leaderKey # c
          /\ \A d \in Candidate \ {c} : strayed'[d] = strayed[d]
      BY <1>1, <3>1, Zenon
    <3>3. KeyOf(c, command, job)
      <4>1. keyLeft' \in 0 .. RoundedTTL /\ keyLeft' >= keyLeft /\ (leaderKey' = Nobody <=> keyLeft' = 0)
        BY <1>1, <3>1
      <4>2. QED
        BY <1>1, <2>2, <3>1, <3>2, <4>1 DEF KeyOf
    <3>4. leaderKey' = c => keyLeft' >= LeaderTTL
      BY <1>1, <3>1
    <3>5. QED
      BY <1>3, <1>4, <2>2, <3>1, <3>2, <3>3, <3>4 DEF NewsOf, Won
  <2>3. CASE command = "delete"
    <3>0. leaderKey' = Nobody /\ keyLeft' = 0
      BY <1>1, <1>5, <2>3 DEF Effect
    <3>1. strayed' = IF leaderKey \notin {c, Nobody} THEN [strayed EXCEPT ![leaderKey] = TRUE] ELSE strayed
      BY <1>5, <2>3 DEF Effect, Strays
    <3>3. /\ strayed' \in [Candidate -> BOOLEAN]
          /\ \A d \in Candidate \ {c} : strayed'[d] <=> (strayed[d] \/ leaderKey = d)
      BY <1>1, <3>1
    <3>4. \A d \in Candidate \ {c} :
            /\ strayed'[d] = strayed[d] \/ (leaderKey = d /\ leaderKey' # d /\ strayed'[d])
            /\ leaderKey = d /\ leaderKey' # d => strayed'[d]
            /\ leaderKey' = d => leaderKey = d
      BY <1>1, <3>0, <3>3, Zenon
    <3>2. QED
      BY <1>1, <1>3, <1>4, <2>3, <3>0, <3>3, <3>4 DEF KeyOf, NewsOf, Won
  <2>4. CASE command \in {"set", "get", "check"} /\ ~(command = "set" /\ leaderKey = Nobody)
    <3>1. UNCHANGED <<leaderKey, keyLeft, strayed>>
      BY <1>1, <1>5, <2>4 DEF Effect, Strays, keyVars
    <3>2. job.ans \in {IF command = "set" THEN Nobody ELSE leaderKey, Failed}
      BY <2>4 DEF Sent, Reply
    <3>3. KeyOf(c, command, job)
      BY <1>1, <2>4, <3>1 DEF KeyOf
    <3>4. c # Nobody /\ c # Failed /\ ~Won(c, job)
      BY <1>3, <2>4, <3>2 DEF Won
    <3>5. job.at \in {"get", "check"} /\ job.ans = c => leaderKey = c
      BY <1>3, <3>2, <3>4
    <3>6. QED
      BY <1>3, <1>4, <3>3, <3>4, <3>5 DEF NewsOf
  <2>5. QED
    BY <2>1, <2>2, <2>3, <2>4
<1>6. CASE job.ans = Failed /\ UNCHANGED <<keyVars, strayed>>
  BY <1>1, <1>3, <1>4, <1>6 DEF KeyOf, NewsOf, Won, keyVars
<1>7. QED
  BY <1>5, <1>6 DEF Sent

-----------------------------------------------------------------------------
(* The variables have their types.                                         *)

LEMMA TypedFits == ElectionTyped => ElectionTypeOK
<1> SUFFICES ASSUME ElectionTyped PROVE ElectionTypeOK
  OBVIOUS
<1>1. ASSUME NEW c \in Candidate
      PROVE  /\ call[c].at \in CallPlaces /\ call[c].ans \in Answers
             /\ refresh[c].at \in {"none", "timer", "set", "get", "expire"} /\ refresh[c].ans \in Answers
             /\ late[c].at \in {"none", "set", "get"} /\ late[c].ans \in Answers
  <2>1. call[c] \in CallJob /\ refresh[c] \in RefreshJob /\ late[c] \in LateJob
    BY DEF ElectionTyped
  <2>2. QED
    BY <2>1 DEF CallJob, RefreshJob, LateJob
<1>2. QED
  BY <1>1 DEF ElectionTyped, ElectionTypeOK, Standings, CallPlaces

LEMMA JobsAreJobs ==
  /\ NoJob \in CallJob /\ NoJob \in RefreshJob /\ NoJob \in LateJob
  /\ \A c \in Candidate, due \in Nat : Job("timer", c, due) \in RefreshJob /\ Job("announce", c, due) \in CallJob
  /\ \A at \in CallPlaces, ans \in Candidate \cup {Nobody}, due \in Nat : Job(at, ans, due) \in CallJob
BY DEF NoJob, Job, CallJob, CallPlaces, RefreshJob, LateJob, Answers

\* A command takes its place among the jobs.
LEMMA SentJobs ==
  ASSUME ElectionTyped, NEW c \in Candidate, NEW job \in Jobs,
         NEW command \in {"set", "get", "expire", "check", "delete"}, Sent(c, command, job)
  PROVE  /\ job \in CallJob
         /\ command \in {"set", "get", "expire"} => job \in RefreshJob /\ job.at # "none"
         /\ Ahead(c, job) # "none" => job \in LateJob
         /\ leaderKey' \in Candidate \cup {Nobody} /\ keyLeft' \in 0 .. RoundedTTL
         /\ leaderKey' = Nobody <=> keyLeft' = 0
         /\ strayed' \in [Candidate -> BOOLEAN] /\ faults' \in 0 .. MaxFaults
<1>1. KeyOf(c, command, job) /\ NewsOf(c, command, job)
  BY Commands
<1>2. job \in CallJob /\ job.at = command
  BY <1>1 DEF NewsOf
<1>3. job \in CallJob /\ (command \in {"set", "get", "expire"} => job \in RefreshJob /\ job.at # "none")
  BY <1>2 DEF CallJob, RefreshJob
<1>4. Ahead(c, job) # "none" => job \in LateJob
  BY <1>2 DEF CallJob, LateJob, Ahead
<1>5. QED
  BY <1>1, <1>3, <1>4 DEF KeyOf, NewsOf

LEMMA TypesStart == ElectionInit => ElectionTyped
<1> SUFFICES ASSUME ElectionInit PROVE ElectionTyped
  OBVIOUS
<1>1. NoJob \in CallJob /\ NoJob \in RefreshJob /\ NoJob \in LateJob
  BY JobsAreJobs
<1>2. QED
  BY <1>1, PeriodsAssumption, FaultAssumption DEF ElectionInit, ElectionTyped, Standings, Running

LEMMA TypedCalls ==
  ASSUME ElectionTyped, NEW c \in Candidate,
         NEW command \in {"set", "get", "expire", "check", "delete"},
         \E job \in Jobs : Sent(c, command, job) /\ call' = [call EXCEPT ![c] = job],
         UNCHANGED <<refresh, late>>, standing' \in [Candidate -> Standings],
         down' \in [Candidate -> BOOLEAN]
  PROVE  ElectionTyped'
<1>1. PICK job \in Jobs : Sent(c, command, job) /\ call' = [call EXCEPT ![c] = job]
  OBVIOUS
<1>2. /\ job \in CallJob
      /\ leaderKey' \in Candidate \cup {Nobody} /\ keyLeft' \in 0 .. RoundedTTL
      /\ leaderKey' = Nobody <=> keyLeft' = 0
      /\ strayed' \in [Candidate -> BOOLEAN] /\ faults' \in 0 .. MaxFaults
  BY <1>1, SentJobs
<1>3. call' \in [Candidate -> CallJob]
  BY <1>1, <1>2 DEF ElectionTyped
<1>4. QED
  BY <1>2, <1>3 DEF ElectionTyped, Running
LEMMA TypedRefreshes ==
  ASSUME ElectionTyped, NEW c \in Candidate, NEW command \in {"set", "get", "expire"},
         Refreshes(c, command)
  PROVE  ElectionTyped'
<1>1. PICK job \in Jobs : Sent(c, command, job) /\ refresh' = [refresh EXCEPT ![c] = job]
  BY DEF Refreshes
<1>2. /\ job \in RefreshJob /\ job.at # "none"
      /\ leaderKey' \in Candidate \cup {Nobody} /\ keyLeft' \in 0 .. RoundedTTL
      /\ leaderKey' = Nobody <=> keyLeft' = 0
      /\ strayed' \in [Candidate -> BOOLEAN] /\ faults' \in 0 .. MaxFaults
  BY <1>1, SentJobs
<1>3. /\ refresh' \in [Candidate -> RefreshJob]
      /\ \A d \in Candidate : refresh'[d].at = "none" => refresh'[d] = NoJob
  BY <1>1, <1>2 DEF ElectionTyped, Running
<1>4. UNCHANGED <<standing, call, late, down>>
  BY DEF Refreshes
<1>5. QED
  BY <1>2, <1>3, <1>4 DEF ElectionTyped, Running

LEMMA TypedCancelled ==
  ASSUME ElectionTyped, NEW c \in Candidate, CancelledRefresh(c)
  PROVE  ElectionTyped'
<1>1. PICK job \in Jobs :
        /\ Sent(c, Ahead(c, late[c]), job)
        /\ late' = [late EXCEPT ![c] = IF Ahead(c, job) = "none" THEN NoJob ELSE job]
  BY DEF CancelledRefresh
<1>2. Ahead(c, late[c]) \in {"get", "expire"}
  <2>1. job.at = Ahead(c, late[c]) /\ job.at # "none"
    BY <1>1 DEF Sent, Jobs
  <2>2. QED
    BY <2>1 DEF Ahead
<1>3. /\ Ahead(c, job) # "none" => job \in LateJob
      /\ leaderKey' \in Candidate \cup {Nobody} /\ keyLeft' \in 0 .. RoundedTTL
      /\ leaderKey' = Nobody <=> keyLeft' = 0
      /\ strayed' \in [Candidate -> BOOLEAN] /\ faults' \in 0 .. MaxFaults
  BY <1>1, <1>2, SentJobs
<1>4. late' \in [Candidate -> LateJob]
  BY <1>1, <1>3, JobsAreJobs DEF ElectionTyped
<1>5. UNCHANGED <<standing, call, refresh, down>>
  BY DEF CancelledRefresh
<1>6. QED
  BY <1>3, <1>4, <1>5 DEF ElectionTyped, Running

\* The refresh is stopped, and what it waits for goes on as a cancelled one.
LEMMA StopsAreTyped ==
  ASSUME ElectionTyped, NEW c \in Candidate, NEW next \in RefreshJob,
         next.at = "none" => next = NoJob, StopRefresh(c, next)
  PROVE  /\ refresh' \in [Candidate -> RefreshJob] /\ late' \in [Candidate -> LateJob]
         /\ \A d \in Candidate : refresh'[d].at = "none" => refresh'[d] = NoJob
<1>1. refresh' = [refresh EXCEPT ![c] = next]
  BY DEF StopRefresh
<1>2. late' \in [Candidate -> LateJob]
  <2>1. ASSUME Ahead(c, refresh[c]) # "none" PROVE refresh[c] \in LateJob
    <3>1. refresh[c] \in RefreshJob /\ refresh[c].at \in {"set", "get"}
      BY <2>1 DEF ElectionTyped, Ahead
    <3>2. QED
      BY <3>1 DEF RefreshJob, LateJob
  <2>2. QED
    BY <2>1 DEF ElectionTyped, StopRefresh
<1>3. QED
  BY <1>1, <1>2 DEF ElectionTyped, Running

\* A step that sends no command.
LEMMA TypedQuietly ==
  ASSUME ElectionTyped, UNCHANGED keyVars, faults' \in 0 .. MaxFaults,
         call' \in [Candidate -> CallJob],
         refresh' \in [Candidate -> RefreshJob], late' \in [Candidate -> LateJob],
         \A d \in Candidate : refresh'[d].at = "none" => refresh'[d] = NoJob,
         standing' \in [Candidate -> Standings], down' \in [Candidate -> BOOLEAN],
         strayed' \in [Candidate -> BOOLEAN]
  PROVE  ElectionTyped'
BY DEF ElectionTyped, Running, keyVars

LEMMA TypedAppCall ==
  ASSUME ElectionTyped, NEW c \in Candidate, AppCall(c)
  PROVE  ElectionTyped'
<1>1. CASE Campaign(c)
  BY <1>1, TypedCalls DEF Campaign, Calls, ElectionTyped
<1>2. CASE \E closing \in BOOLEAN : Resign(c, closing)
  <2>1. PICK closing \in BOOLEAN : Resign(c, closing)
    BY <1>2
  <2>2. standing' \in [Candidate -> Standings] /\ down' \in [Candidate -> BOOLEAN]
    BY <2>1 DEF Resign, ElectionTyped, Standings
  <2>3. /\ \E job \in Jobs : Sent(c, "check", job) /\ call' = [call EXCEPT ![c] = job]
        /\ UNCHANGED <<refresh, late>>
    BY <2>1 DEF Resign, CallGoesTo
  <2>4. QED
    BY <2>2, <2>3, TypedCalls
<1>3. CASE Shutdown(c)
  <2>1. /\ refresh' \in [Candidate -> RefreshJob] /\ late' \in [Candidate -> LateJob]
        /\ \A d \in Candidate : refresh'[d].at = "none" => refresh'[d] = NoJob
    BY <1>3, StopsAreTyped, JobsAreJobs DEF Shutdown
  <2>2. down' \in [Candidate -> BOOLEAN] /\ UNCHANGED <<keyVars, standing, call, strayed, faults>>
    BY <1>3 DEF Shutdown, ElectionTyped
  <2>3. QED
    BY <2>1, <2>2, TypedQuietly DEF ElectionTyped
<1>4. CASE WaitTimesOut(c)
  <2>1. call' \in [Candidate -> CallJob]
    BY <1>4, JobsAreJobs DEF WaitTimesOut, CallGoesTo, ElectionTyped
  <2>2. QED
    BY <1>4, <2>1, TypedQuietly DEF WaitTimesOut, ElectionTyped, Running
<1>5. QED
  BY <1>1, <1>2, <1>3, <1>4 DEF AppCall

LEMMA FallsTyped ==
  ASSUME ElectionTyped, NEW c \in Candidate, Falls(c)
  PROVE  standing' \in [Candidate -> Standings]
BY DEF Falls, ElectionTyped, Standings

LEMMA CallJobs ==
  ASSUME ElectionTyped, NEW c \in Candidate,
         NEW at \in CallPlaces, NEW ans \in Candidate \cup {Nobody}, NEW due \in Nat
  PROVE  /\ CallGoesTo(c, Job(at, ans, due)) => call' \in [Candidate -> CallJob]
         /\ CallGoesTo(c, NoJob) => call' \in [Candidate -> CallJob]
<1>1. Job(at, ans, due) \in CallJob /\ NoJob \in CallJob
  BY JobsAreJobs
<1>2. QED
  BY <1>1 DEF CallGoesTo, ElectionTyped

LEMMA AwaitsTyped ==
  ASSUME ElectionTyped, NEW c \in Candidate,
         NEW at \in CallPlaces, NEW ans \in Candidate \cup {Nobody}, Awaits(c, at, ans)
  PROVE  /\ call' \in [Candidate -> CallJob] /\ faults' \in 0 .. MaxFaults
         /\ call'[c].at = at /\ call'[c].ans = ans
         /\ call'[c].due \in Nat /\ faults' = faults + call'[c].due
         /\ \A d \in Candidate \ {c} : call'[d] = call[d]
<1>1. PICK due \in 0 .. MaxFaults - faults :
        CallGoesTo(c, Job(at, ans, due)) /\ faults' = faults + due
  BY DEF Awaits
<1>2. due \in Nat /\ faults' \in 0 .. MaxFaults
  BY <1>1, FaultAssumption DEF ElectionTyped
<1>3. call' = [call EXCEPT ![c] = Job(at, ans, due)] /\ call \in [Candidate -> CallJob]
  BY <1>1 DEF CallGoesTo, ElectionTyped
<1>4. call'[c] = Job(at, ans, due) /\ \A d \in Candidate \ {c} : call'[d] = call[d]
  BY <1>3
<1>5. call'[c].at = at /\ call'[c].ans = ans /\ call'[c].due = due
  BY <1>4 DEF Job
<1>6. QED
  BY <1>1, <1>2, <1>3, <1>4, <1>5, JobsAreJobs

LEMMA TypedCallStep ==
  ASSUME ElectionTyped, NEW c \in Candidate, CallStep(c)
  PROVE  ElectionTyped'
<1> USE DEF CallPlaces
<1>0. /\ CallGoesTo(c, NoJob) => call' \in [Candidate -> CallJob]
      /\ Beaten(c) => call' \in [Candidate -> CallJob]
  BY CallJobs, PeriodsAssumption DEF Beaten
<1>1. CASE CampaignGoesOn(c)
  <2>1. Calls(c, Ahead(c, call[c])) /\ UNCHANGED down /\ Ahead(c, call[c]) \in {"get", "expire"}
    BY <1>1 DEF CampaignGoesOn, Ahead
  <2>2. standing' \in [Candidate -> Standings] /\ down' \in [Candidate -> BOOLEAN]
    BY <2>1 DEF Calls, ElectionTyped
  <2>3. PICK command \in {"get", "expire"} : Calls(c, command)
    BY <2>1
  <2>4. QED
    BY <2>2, <2>3, TypedCalls DEF Calls
<1>2. CASE CampaignRejects(c)
  BY <1>0, <1>2, TypedQuietly DEF CampaignRejects, ElectionTyped, Running
<1>3. CASE TermAsked(c)
  <2>1. Awaits(c, "term", c) \/ Awaits(c, "term", Nobody)
    BY <1>3 DEF TermAsked
  <2>2. call' \in [Candidate -> CallJob] /\ faults' \in 0 .. MaxFaults
    BY <2>1, AwaitsTyped
  <2>3. QED
    BY <1>3, <2>2, TypedQuietly DEF TermAsked, ElectionTyped, Running
<1>4. CASE TermKnown(c)
  <2>1. standing' \in [Candidate -> Standings]
    BY <1>4, FallsTyped DEF TermKnown, ElectionTyped, Standings
  <2>2. /\ call' \in [Candidate -> CallJob] /\ faults' \in 0 .. MaxFaults
        /\ UNCHANGED <<keyVars, refresh, late, down, strayed>>
    <3>1. CASE call[c].ans = c
      BY <1>4, <3>1, AwaitsTyped DEF TermKnown
    <3>2. CASE call[c].ans # c
      BY <1>0, <1>4, <3>2 DEF TermKnown, ElectionTyped
    <3>3. QED
      BY <3>1, <3>2
  <2>3. QED
    BY <2>1, <2>2, TypedQuietly DEF ElectionTyped, Running
<1>5. CASE Announced(c)
  <2>1. Job("timer", c, RefreshPeriod) \in RefreshJob /\ Job("timer", c, RefreshPeriod).at # "none"
    BY JobsAreJobs, PeriodsAssumption DEF Job
  <2>2. /\ refresh' \in [Candidate -> RefreshJob] /\ late' \in [Candidate -> LateJob]
        /\ \A d \in Candidate : refresh'[d].at = "none" => refresh'[d] = NoJob
    BY <1>5, <2>1, StopsAreTyped DEF Announced
  <2>3. call' \in [Candidate -> CallJob] /\ UNCHANGED <<keyVars, standing, down, strayed, faults>>
    BY <1>0, <1>5 DEF Announced
  <2>4. QED
    BY <2>2, <2>3, TypedQuietly DEF ElectionTyped
<1>6. CASE TriesAgain(c)
  BY <1>6, TypedCalls DEF TriesAgain, Calls, ElectionTyped
<1>7. CASE KeyReleased(c)
  BY <1>7, TypedCalls DEF KeyReleased, Calls, ElectionTyped
<1>8. CASE BackendResigned(c)
  <2>1. /\ refresh' \in [Candidate -> RefreshJob] /\ late' \in [Candidate -> LateJob]
        /\ \A d \in Candidate : refresh'[d].at = "none" => refresh'[d] = NoJob
    BY <1>8, StopsAreTyped, JobsAreJobs DEF BackendResigned
  <2>2. /\ call' \in [Candidate -> CallJob] /\ faults' \in 0 .. MaxFaults
        /\ UNCHANGED <<keyVars, standing, down, strayed>>
    BY <1>8, AwaitsTyped DEF BackendResigned
  <2>3. QED
    BY <2>1, <2>2, TypedQuietly DEF ElectionTyped
<1>9. CASE ResignationKnown(c)
  BY <1>0, <1>9, FallsTyped, TypedQuietly DEF ResignationKnown, ElectionTyped, Running
<1>10. CASE ResignRejects(c)
  <2>1. CASE UNCHANGED <<standing, refresh, late>>
    BY <1>0, <1>10, <2>1, TypedQuietly DEF ResignRejects, ElectionTyped, Running
  <2>2. CASE Falls(c) /\ StopRefresh(c, NoJob)
    <3>1. /\ refresh' \in [Candidate -> RefreshJob] /\ late' \in [Candidate -> LateJob]
          /\ \A d \in Candidate : refresh'[d].at = "none" => refresh'[d] = NoJob
      BY <2>2, StopsAreTyped, JobsAreJobs
    <3>2. standing' \in [Candidate -> Standings]
      BY <2>2, FallsTyped
    <3>3. call' \in [Candidate -> CallJob] /\ UNCHANGED <<keyVars, down, strayed, faults>>
      BY <1>0, <1>10 DEF ResignRejects
    <3>4. QED
      BY <3>1, <3>2, <3>3, TypedQuietly DEF ElectionTyped
  <2>3. QED
    BY <1>10, <2>1, <2>2 DEF ResignRejects
<1>11. CASE AnnouncementFails(c)
  <2>1. standing' \in [Candidate -> Standings] /\ faults' \in 0 .. MaxFaults
    BY <1>11, FaultAssumption DEF AnnouncementFails, ElectionTyped, Standings
  <2>2. call' \in [Candidate -> CallJob]
    BY <1>0, <1>11 DEF AnnouncementFails
  <2>3. QED
    BY <1>11, <2>1, <2>2, TypedQuietly DEF AnnouncementFails, ElectionTyped, Running
<1>12. CASE FarewellFails(c)
  <2>1. call' \in [Candidate -> CallJob] /\ faults' \in 0 .. MaxFaults
    BY <1>0, <1>12, FaultAssumption DEF FarewellFails, ElectionTyped
  <2>2. QED
    BY <1>12, <2>1, TypedQuietly DEF FarewellFails, ElectionTyped, Running
<1>13. QED
  BY <1>1, <1>2, <1>3, <1>4, <1>5, <1>6, <1>7, <1>8, <1>9, <1>10, <1>11, <1>12 DEF CallStep

LEMMA TypedRefreshStep ==
  ASSUME ElectionTyped, NEW c \in Candidate, RefreshStep(c)
  PROVE  ElectionTyped'
<1>1. CASE RefreshFires(c)
  BY <1>1, TypedRefreshes DEF RefreshFires
<1>2. CASE RefreshGoesOn(c)
  BY <1>2, TypedRefreshes DEF RefreshGoesOn, Ahead
<1>3. CASE Refreshed(c)
  <2>1. Job("timer", c, RefreshPeriod) \in RefreshJob /\ Job("timer", c, RefreshPeriod).at # "none"
    BY JobsAreJobs, PeriodsAssumption DEF Job
  <2>2. /\ refresh' \in [Candidate -> RefreshJob]
        /\ \A d \in Candidate : refresh'[d].at = "none" => refresh'[d] = NoJob
    BY <1>3, <2>1 DEF Refreshed, ElectionTyped, Running
  <2>3. QED
    BY <1>3, <2>2, TypedQuietly DEF Refreshed, ElectionTyped
<1>4. CASE LeadershipLost(c)
  <2>1. /\ refresh' \in [Candidate -> RefreshJob]
        /\ \A d \in Candidate : refresh'[d].at = "none" => refresh'[d] = NoJob
    BY <1>4, JobsAreJobs DEF LeadershipLost, ElectionTyped, Running
  <2>2. standing' \in [Candidate -> Standings]
    BY <1>4, FallsTyped DEF LeadershipLost
  <2>3. QED
    BY <1>4, <2>1, <2>2, TypedQuietly DEF LeadershipLost, ElectionTyped
<1>5. QED
  BY <1>1, <1>2, <1>3, <1>4 DEF RefreshStep

LEMMA TypedCrash ==
  ASSUME ElectionTyped, NEW c \in Candidate, Crash(c)
  PROVE  ElectionTyped'
<1>1. standing' \in [Candidate -> Standings] /\ strayed' \in [Candidate -> BOOLEAN]
  BY FallsTyped DEF Crash, ElectionTyped
<1>2. /\ call' \in [Candidate -> CallJob] /\ refresh' \in [Candidate -> RefreshJob]
      /\ late' \in [Candidate -> LateJob] /\ down' \in [Candidate -> BOOLEAN]
  BY JobsAreJobs DEF Crash, CallGoesTo, ElectionTyped
<1>3. \A d \in Candidate : refresh'[d].at = "none" => refresh'[d] = NoJob
  BY DEF Crash, ElectionTyped, Running
<1>4. faults' \in 0 .. MaxFaults
  BY FaultAssumption DEF Crash, ElectionTyped
<1>5. QED
  BY <1>1, <1>2, <1>3, <1>4, TypedQuietly DEF Crash
\* The jobs after a tick of the clock.
LEMMA TicksNear ==
  ASSUME NEW At, NEW jobs \in [Candidate -> [at : At, ans : Answers, due : Nat]]
  PROVE  /\ Nearer(jobs) \in [Candidate -> [at : At, ans : Answers, due : Nat]]
         /\ \A c \in Candidate : /\ Nearer(jobs)[c].at = jobs[c].at
                                 /\ Nearer(jobs)[c].ans = jobs[c].ans
                                 /\ Nearer(jobs)[c].due = Less(jobs[c].due)
                                 /\ jobs[c] = NoJob => Nearer(jobs)[c] = NoJob
<1>1. ASSUME NEW c \in Candidate
      PROVE  /\ Nearer(jobs)[c] = [jobs[c] EXCEPT !.due = Less(jobs[c].due)]
             /\ Nearer(jobs)[c] \in [at : At, ans : Answers, due : Nat]
             /\ Nearer(jobs)[c].at = jobs[c].at
             /\ Nearer(jobs)[c].ans = jobs[c].ans
             /\ Nearer(jobs)[c].due = Less(jobs[c].due)
             /\ jobs[c] = NoJob => Nearer(jobs)[c] = NoJob
  <2>1. Nearer(jobs)[c] = [jobs[c] EXCEPT !.due = Less(jobs[c].due)]
    BY DEF Nearer
  <2>2. jobs[c] \in [at : At, ans : Answers, due : Nat] /\ Less(jobs[c].due) \in Nat
    BY DEF Less
  <2>3. QED
    BY <2>1, <2>2 DEF NoJob, Less
<1>2. QED
  BY <1>1 DEF Nearer

LEMMA TypedTick ==
  ASSUME ElectionTyped, Tick
  PROVE  ElectionTyped'
<1>1. /\ call' \in [Candidate -> CallJob] /\ refresh' \in [Candidate -> RefreshJob]
      /\ late' \in [Candidate -> LateJob]
  BY TicksNear DEF Tick, JobsNearer, ElectionTyped, CallJob, RefreshJob, LateJob
<1>2. \A d \in Candidate : refresh'[d].at = refresh[d].at
                           /\ (refresh[d] = NoJob => refresh'[d] = NoJob)
  <2>1. refresh \in [Candidate -> [at : {"none", "timer", "set", "get", "expire"}, ans : Answers, due : Nat]]
    BY DEF ElectionTyped, RefreshJob
  <2>2. \A d \in Candidate : /\ Nearer(refresh)[d].at = refresh[d].at
                             /\ refresh[d] = NoJob => Nearer(refresh)[d] = NoJob
    BY <2>1, TicksNear
  <2>3. refresh' = Nearer(refresh)
    BY DEF Tick, JobsNearer
  <2>4. QED
    BY <2>2, <2>3
<1>3. /\ leaderKey' \in Candidate \cup {Nobody} /\ keyLeft' \in 0 .. RoundedTTL
      /\ leaderKey' = Nobody <=> keyLeft' = 0
  BY PeriodsAssumption, SentinelAssumption DEF Tick, ElectionTyped, Less
<1>4. UNCHANGED <<standing, down, strayed, faults>>
  BY DEF Tick
<1>5. QED
  BY <1>1, <1>2, <1>3, <1>4 DEF ElectionTyped, Running

LEMMA TypedStep ==
  ASSUME ElectionTyped, [ElectionNext]_electionVars
  PROVE  ElectionTyped'
<1>1. CASE UNCHANGED electionVars
  BY <1>1 DEF electionVars, keyVars, ElectionTyped, Running
<1>2. CASE ElectionNext
  BY <1>2, TypedAppCall, TypedCallStep, TypedRefreshStep, TypedCancelled, TypedCrash, TypedTick
     DEF ElectionNext
<1>3. QED
  BY <1>1, <1>2

LEMMA ElectionIsTyped == ElectionSpec => []ElectionTyped
<1>1. ElectionInit => ElectionTyped
  BY TypesStart
<1>2. ElectionTyped /\ [ElectionNext]_electionVars => ElectionTyped'
  BY TypedStep
<1>3. QED
  BY <1>1, <1>2, PTL DEF ElectionSpec

\* The key, the jobs of every instance and the answers that are on their way
\* have their types, and the key has time left just when somebody has it:
\* whatever crashes, fails, is delayed or is cancelled.
THEOREM ElectionIsOfItsTypes == ElectionSpec => []ElectionTypeOK
<1>1. ElectionTyped => ElectionTypeOK
  BY TypedFits
<1>2. QED
  BY <1>1, ElectionIsTyped, PTL

-----------------------------------------------------------------------------
(* The leader and its key.                                                 *)

\* The key is c's for longer than time, whatever is still to be delayed.
Lasts(c, time) == leaderKey = c => time + (MaxFaults - faults) < keyLeft

\* The time until the refresh loop of c sends its next SET or EXPIRE.
NextIn(c) == refresh[c].due + IF Won(c, refresh[c]) THEN RefreshPeriod ELSE 0

\* The call of c is a campaign that succeeds.
Wins(c) == Won(c, call[c]) \/ (call[c].at = "term" /\ call[c].ans = c)

\* Answers take no longer than the faults that are counted.
InTime(c) == /\ refresh[c].due <= IF refresh[c].at = "timer" THEN RefreshPeriod ELSE faults
             /\ call[c].at # "pause" => call[c].due <= faults

\* The refreshes of the key come before its end, as do the announcements that
\* start them.
Refreshing(c) ==
  /\ Running(c) => Lasts(c, NextIn(c))
  /\ Wins(c) \/ call[c].at = "announce" => Lasts(c, call[c].due + RefreshPeriod)

\* Who leads or is elected has the key, but for strays.
Honest(c) ==
  /\ Wins(c) /\ ~strayed[c] => leaderKey = c
  /\ standing[c] = "leader" /\ ~strayed[c] => leaderKey = c

\* Who leads has its refresh loop, or is about to start it.
Loops(c) ==
  /\ standing[c] = "leader" => call[c].at \notin {"check", "delete", "farewell"}
  /\ standing[c] = "leader" /\ call[c].at # "announce" => Running(c)

Course(c) == InTime(c) /\ Refreshing(c) /\ Honest(c) /\ Loops(c)

LEMMA CoursesStart == ElectionInit => \A c \in Candidate : Course(c)
<1> SUFFICES ASSUME ElectionInit, NEW c \in Candidate PROVE Course(c)
  OBVIOUS
<1>1. /\ call[c].at = "none" /\ call[c].due = 0 /\ refresh[c].at = "none" /\ refresh[c].due = 0
      /\ standing[c] = "follower" /\ faults = 0
  BY DEF ElectionInit, NoJob
<1>2. ~Wins(c) /\ ~Running(c)
  BY <1>1 DEF Wins, Won, Running
<1>3. InTime(c)
  BY <1>1 DEF InTime
<1>4. QED
  BY <1>1, <1>2, <1>3 DEF Course, Refreshing, Honest, Loops

\* What another instance does leaves c on its course.
LEMMA OthersKeepCourse ==
  ASSUME ElectionTyped, NEW c \in Candidate, Course(c),
         faults' \in 0 .. MaxFaults, faults' >= faults,
         leaderKey' = c => leaderKey = c /\ keyLeft' \in Nat /\ keyLeft' >= keyLeft,
         leaderKey = c /\ leaderKey' # c => strayed'[c],
         call'[c] = call[c], refresh'[c] = refresh[c],
         standing'[c] = standing[c], strayed'[c] \/ ~strayed[c]
  PROVE  Course(c)'
<1>1. /\ faults \in 0 .. MaxFaults /\ keyLeft \in Nat
      /\ call[c].due \in Nat /\ refresh[c].due \in Nat
  BY DEF ElectionTyped, CallJob, RefreshJob
<1>2. (Wins(c)' <=> Wins(c)) /\ (Running(c)' <=> Running(c)) /\ NextIn(c)' = NextIn(c)
  BY DEF Wins, Running, NextIn, Won
<1>3. \A time \in Nat : Lasts(c, time) =>
         (leaderKey' = c => time + (MaxFaults - faults') < keyLeft')
  BY <1>1, FaultAssumption DEF Lasts
<1>4. NextIn(c) \in Nat /\ call[c].due + RefreshPeriod \in Nat
  BY <1>1, PeriodsAssumption DEF NextIn
<1>5. InTime(c)'
  BY <1>1, PeriodsAssumption, FaultAssumption DEF Course, InTime
<1>6. /\ Lasts(c, NextIn(c)) => Lasts(c, NextIn(c))'
      /\ Lasts(c, call[c].due + RefreshPeriod) => Lasts(c, call[c].due + RefreshPeriod)'
  BY <1>1, <1>2, <1>3, <1>4 DEF Lasts
<1>7. Refreshing(c)'
  BY <1>2, <1>6 DEF Course, Refreshing
<1>8. Honest(c)'
  BY <1>2, <1>6 DEF Course, Honest
<1>9. Loops(c)'
  BY <1>2 DEF Course, Loops
<1>10. QED
  BY <1>5, <1>7, <1>8, <1>9 DEF Course
\* The refresh loop is never further from its next command than this.
LEMMA NextIsNear ==
  ASSUME ElectionTyped, NEW c \in Candidate, InTime(c)
  PROVE  NextIn(c) \in Nat /\ NextIn(c) <= RefreshPeriod + faults
<1>1. refresh[c].due \in Nat /\ faults \in Nat
  BY DEF ElectionTyped, RefreshJob
<1>2. QED
  BY <1>1, PeriodsAssumption DEF NextIn, InTime, Won

\* What fits between two refreshes fits into what a command leaves of the key.
LEMMA TimeIsLeft ==
  ASSUME PeriodsFit, NEW f \in 0 .. MaxFaults, NEW g \in 0 .. MaxFaults, f <= g,
         NEW left \in Nat, NEW longer \in Nat, left <= longer, NEW time \in Nat
  PROVE  /\ time <= RefreshPeriod + g => time + (MaxFaults - g) < LeaderTTL
         /\ time + (MaxFaults - f) < left => time + (MaxFaults - g) < longer
<1>1. MaxFaults \in Nat /\ RefreshPeriod \in Nat /\ LeaderTTL \in Nat
  BY PeriodsAssumption, FaultAssumption
<1>2. QED
  BY <1>1 DEF PeriodsFit

\* A command of c keeps the key for c, or gives it to c for the whole ttl.
LEMMA StillLasts ==
  ASSUME ElectionTyped, PeriodsFit, NEW c \in Candidate, NEW command, command # "delete",
         NEW job, KeyOf(c, command, job), NewsOf(c, command, job)
  PROVE  \A time \in Nat :
           Lasts(c, time) /\ time <= RefreshPeriod + faults' =>
             (leaderKey' = c => time + (MaxFaults - faults') < keyLeft')
<1>1. /\ faults \in 0 .. MaxFaults /\ keyLeft \in Nat /\ faults' \in 0 .. MaxFaults /\ keyLeft' \in Nat
      /\ faults <= faults'
  BY DEF ElectionTyped, KeyOf, NewsOf, CallJob
<1>2. leaderKey = c => leaderKey' = c /\ keyLeft' >= keyLeft
  BY DEF KeyOf
<1>3. leaderKey # c /\ leaderKey' = c => keyLeft' = LeaderTTL
  BY DEF KeyOf
<1>5. leaderKey = c => keyLeft <= keyLeft'
  BY <1>1, <1>2
<1>6. ASSUME NEW left \in Nat, NEW longer \in Nat, left <= longer
      PROVE  \A time \in Nat :
               /\ time <= RefreshPeriod + faults' => time + (MaxFaults - faults') < LeaderTTL
               /\ time + (MaxFaults - faults) < left => time + (MaxFaults - faults') < longer
  BY <1>1, <1>6, TimeIsLeft, Zenon
<1>7. CASE leaderKey = c
  BY <1>1, <1>5, <1>6, <1>7, Zenon DEF Lasts
<1>8. CASE leaderKey # c
  <2>1. keyLeft <= keyLeft
    BY <1>1
  <2>2. QED
    BY <1>1, <1>3, <1>6, <1>8, <2>1, Zenon
<1>9. QED
  BY <1>7, <1>8

\* A campaign sends its next command.
LEMMA CallsKeepCourse ==
  ASSUME ElectionTyped, PeriodsFit, NEW c \in Candidate, Course(c),
         NEW command \in {"set", "get", "expire"}, NEW job,
         KeyOf(c, command, job), NewsOf(c, command, job),
         call'[c] = job, refresh'[c] = refresh[c], standing'[c] = standing[c],
         call[c].at \notin {"announce", "farewell", "check", "delete"}
  PROVE  Course(c)'
<1>1. /\ faults \in 0 .. MaxFaults /\ faults' \in 0 .. MaxFaults /\ keyLeft' \in Nat
      /\ faults' >= faults + job.due /\ job.due \in Nat /\ job.at = command
      /\ refresh[c].due \in Nat
  BY DEF ElectionTyped, KeyOf, NewsOf, CallJob, RefreshJob
<1>2. /\ Running(c)' <=> Running(c)
      /\ NextIn(c)' = NextIn(c) /\ NextIn(c) \in Nat /\ NextIn(c) <= RefreshPeriod + faults
      /\ Wins(c)' <=> Won(c, job)
  BY <1>1, NextIsNear DEF Running, NextIn, Wins, Won, Course
<1>3. InTime(c)'
  BY <1>1, PeriodsAssumption, FaultAssumption DEF Course, InTime
<1>4. Running(c) => Lasts(c, NextIn(c))'
  BY <1>1, <1>2, StillLasts, PeriodsAssumption DEF Course, Refreshing, Lasts
<1>5. Won(c, job) => Lasts(c, call[c].due + RefreshPeriod)'
  BY <1>1, PeriodsAssumption, FaultAssumption DEF NewsOf, Lasts, PeriodsFit
<1>7. Refreshing(c)'
  BY <1>1, <1>2, <1>4, <1>5 DEF Refreshing
<1>8. Honest(c)'
  BY <1>1, <1>2 DEF Course, Honest, NewsOf, KeyOf
<1>9. Loops(c)'
  BY <1>1, <1>2 DEF Course, Loops
<1>10. QED
  BY <1>3, <1>7, <1>8, <1>9 DEF Course

\* What a command of the refresh, cancelled or not, comes to for the call.
LEMMA CallsAreKept ==
  ASSUME ElectionTyped, PeriodsFit, NEW c \in Candidate, Course(c),
         NEW command \in {"set", "get", "expire"}, NEW job,
         KeyOf(c, command, job), NewsOf(c, command, job),
         call'[c] = call[c], standing'[c] = standing[c], Running(c) <=> Running(c)'
  PROVE  /\ call[c].at # "pause" => call'[c].due <= faults'
         /\ Wins(c)' \/ call'[c].at = "announce" => Lasts(c, call[c].due + RefreshPeriod)'
         /\ Honest(c)' /\ Loops(c)'
<1>1. /\ faults \in 0 .. MaxFaults /\ faults' \in 0 .. MaxFaults /\ keyLeft' \in Nat /\ keyLeft \in Nat
      /\ faults' >= faults /\ call[c].due \in Nat
  BY DEF ElectionTyped, KeyOf, NewsOf, CallJob
<1>2. Wins(c)' <=> Wins(c)
  BY DEF Wins, Won
<1>3. ASSUME NEW time, time \in Nat, Lasts(c, time), time <= RefreshPeriod + faults'
      PROVE  leaderKey' = c => time + (MaxFaults - faults') < keyLeft'
  BY <1>3, StillLasts
<1>4. call[c].at # "pause" => call[c].due <= faults'
  BY <1>1 DEF Course, InTime
<1>5. ASSUME Wins(c) \/ call[c].at = "announce"
      PROVE  leaderKey' = c => (call[c].due + RefreshPeriod) + (MaxFaults - faults') < keyLeft'
  <2>1. call[c].due <= faults' /\ Lasts(c, call[c].due + RefreshPeriod)
    BY <1>4, <1>5 DEF Course, Refreshing, Wins, Won
  <2>2. /\ call[c].due + RefreshPeriod \in Nat
        /\ call[c].due + RefreshPeriod <= RefreshPeriod + faults'
    BY <1>1, <2>1, PeriodsAssumption
  <2>3. QED
    BY <1>3, <2>1, <2>2
<1>8. Honest(c)'
  BY <1>2 DEF Course, Honest, KeyOf
<1>9. Loops(c)'
  BY DEF Course, Loops
<1>10. QED
  BY <1>2, <1>4, <1>5, <1>8, <1>9 DEF Course, Refreshing, Lasts

\* The refresh loop sends its next command.
LEMMA RefreshesKeepCourse ==
  ASSUME ElectionTyped, PeriodsFit, NEW c \in Candidate, Course(c), Running(c),
         NEW command \in {"set", "get", "expire"}, NEW job,
         KeyOf(c, command, job), NewsOf(c, command, job),
         refresh'[c] = job, call'[c] = call[c], standing'[c] = standing[c]
  PROVE  Course(c)'
<1>1. /\ faults \in 0 .. MaxFaults /\ faults' \in 0 .. MaxFaults /\ keyLeft' \in Nat /\ keyLeft \in Nat
      /\ faults' >= faults + job.due /\ job.due \in Nat /\ job.at = command
      /\ refresh[c].due \in Nat
  BY DEF ElectionTyped, KeyOf, NewsOf, CallJob, RefreshJob
<1>2. Running(c)' /\ NextIn(c) \in Nat
  BY <1>1, NextIsNear DEF Running, Course
<1>3. /\ call[c].at # "pause" => call'[c].due <= faults'
      /\ Wins(c)' \/ call'[c].at = "announce" => Lasts(c, call[c].due + RefreshPeriod)'
      /\ Honest(c)' /\ Loops(c)'
  BY <1>2, CallsAreKept
<1>4. InTime(c)'
  BY <1>1, <1>3 DEF InTime
<1>5. Lasts(c, NextIn(c))'
  <2>0. MaxFaults \in Nat /\ RefreshPeriod \in Nat /\ LeaderTTL \in Nat /\ RefreshPeriod + MaxFaults < LeaderTTL
    BY PeriodsAssumption, FaultAssumption DEF PeriodsFit
  <2>1. CASE Won(c, job)
    <3>1. NextIn(c)' = job.due + RefreshPeriod
      BY <2>1 DEF NextIn
    <3>2. leaderKey' = c => keyLeft' >= LeaderTTL
      BY <2>1 DEF NewsOf
    <3>3. QED
      BY <1>1, <2>0, <3>1, <3>2 DEF Lasts
  <2>2. CASE ~Won(c, job)
    <3>1. NextIn(c)' = job.due
      BY <1>1, <2>2 DEF NextIn
    <3>2. Lasts(c, 0)
      BY <1>1, <1>2, <2>0 DEF Course, Refreshing, Lasts
    <3>3. leaderKey = c => leaderKey' = c /\ keyLeft' >= keyLeft
      BY DEF KeyOf
    <3>4. leaderKey # c /\ leaderKey' = c => keyLeft' = LeaderTTL
      BY DEF KeyOf
    <3>5. QED
      BY <1>1, <2>0, <3>1, <3>2, <3>3, <3>4 DEF Lasts
  <2>3. QED
    BY <2>1, <2>2
<1>6. QED
  BY <1>3, <1>4, <1>5 DEF Course, Refreshing

\* A cancelled refresh sends its next command.
LEMMA StragglersKeepCourse ==
  ASSUME ElectionTyped, PeriodsFit, NEW c \in Candidate, Course(c),
         NEW command \in {"set", "get", "expire"}, NEW job,
         KeyOf(c, command, job), NewsOf(c, command, job),
         refresh'[c] = refresh[c], call'[c] = call[c], standing'[c] = standing[c]
  PROVE  Course(c)'
<1>1. /\ faults \in 0 .. MaxFaults /\ faults' \in 0 .. MaxFaults /\ faults' >= faults
      /\ refresh[c].due \in Nat
  BY DEF ElectionTyped, NewsOf, CallJob, RefreshJob
<1>2. /\ Running(c) <=> Running(c)'
      /\ NextIn(c)' = NextIn(c) /\ NextIn(c) \in Nat /\ NextIn(c) <= RefreshPeriod + faults'
  BY <1>1, NextIsNear, PeriodsAssumption DEF Running, NextIn, Won, Course
<1>3. /\ call[c].at # "pause" => call'[c].due <= faults'
      /\ Wins(c)' \/ call'[c].at = "announce" => Lasts(c, call[c].due + RefreshPeriod)'
      /\ Honest(c)' /\ Loops(c)'
  BY <1>2, CallsAreKept
<1>4. InTime(c)'
  BY <1>1, <1>3, PeriodsAssumption DEF Course, InTime
<1>5. Running(c) => Lasts(c, NextIn(c))'
  BY <1>2, StillLasts DEF Course, Refreshing, Lasts
<1>6. QED
  BY <1>2, <1>3, <1>4, <1>5 DEF Course, Refreshing

\* A command of resign(): the key is asked for, or given up.
LEMMA ResigningKeepsCourse ==
  ASSUME ElectionTyped, NEW c \in Candidate, Course(c),
         NEW command \in {"check", "delete"}, NEW job,
         KeyOf(c, command, job), NewsOf(c, command, job), standing'[c] # "leader",
         call'[c] = job, refresh'[c] = refresh[c],
         leaderKey' \in {leaderKey, Nobody}, leaderKey' # Nobody => keyLeft' = keyLeft
  PROVE  Course(c)'
<1>1. /\ faults \in 0 .. MaxFaults /\ faults' \in 0 .. MaxFaults /\ keyLeft' \in Nat /\ keyLeft \in Nat
      /\ faults' >= faults + job.due /\ job.due \in Nat /\ job.at = command
      /\ refresh[c].due \in Nat
  BY DEF ElectionTyped, KeyOf, NewsOf, CallJob, RefreshJob
<1>2. /\ Running(c)' <=> Running(c)
      /\ NextIn(c)' = NextIn(c) /\ NextIn(c) \in Nat
      /\ ~Wins(c)' /\ call'[c].at # "announce"
  BY <1>1, NextIsNear DEF Running, NextIn, Wins, Won, Course
<1>3. InTime(c)'
  BY <1>1, PeriodsAssumption, FaultAssumption DEF Course, InTime
<1>4. MaxFaults \in Nat /\ c # Nobody
  BY FaultAssumption, SentinelAssumption
<1>5. Refreshing(c)'
  <2>1. Running(c) => Lasts(c, NextIn(c))'
    BY <1>1, <1>2, <1>4 DEF Course, Refreshing, Lasts
  <2>2. QED
    BY <1>2, <2>1 DEF Refreshing
<1>6. Honest(c)' /\ Loops(c)'
  BY <1>2 DEF Honest, Loops
<1>7. QED
  BY <1>3, <1>5, <1>6 DEF Course

\* The steps of c that send no command.
Quiet(c) ==
  /\ UNCHANGED keyVars /\ faults' \in 0 .. MaxFaults /\ faults' >= faults
  /\ \A d \in Candidate \ {c} : /\ call'[d] = call[d] /\ refresh'[d] = refresh[d]
                                /\ standing'[d] = standing[d] /\ strayed'[d] = strayed[d]

LEMMA CallEndsOnCourse ==
  ASSUME ElectionTyped, NEW c \in Candidate, Course(c), UNCHANGED <<leaderKey, keyLeft>>,
         faults' \in 0 .. MaxFaults, faults' >= faults,
         call'[c] \in {NoJob, Job("pause", Nobody, RetryPause)},
         standing'[c] = "leader" => standing[c] = "leader" /\ Running(c),
         refresh'[c] = refresh[c], strayed'[c] = strayed[c]
  PROVE  Course(c)'
<1>1. /\ call'[c].at \in {"none", "pause"} /\ (call'[c].at = "none" => call'[c].due = 0)
      /\ faults \in 0 .. MaxFaults /\ refresh[c].due \in Nat /\ keyLeft \in Nat
  BY DEF NoJob, Job, ElectionTyped, RefreshJob
<1>2. /\ Running(c)' <=> Running(c)
      /\ NextIn(c)' = NextIn(c) /\ ~Wins(c)' /\ NextIn(c) \in Nat
  BY <1>1, NextIsNear DEF Running, NextIn, Wins, Won, Course
<1>3. MaxFaults \in Nat /\ RefreshPeriod \in Nat
  BY FaultAssumption, PeriodsAssumption
<1>4. InTime(c)'
  BY <1>1, <1>3 DEF Course, InTime
<1>5. Lasts(c, NextIn(c)) => Lasts(c, NextIn(c))'
  BY <1>1, <1>2, <1>3 DEF Lasts
<1>6. Refreshing(c)'
  BY <1>1, <1>2, <1>5 DEF Course, Refreshing
<1>7. Honest(c)' /\ Loops(c)'
  BY <1>1, <1>2 DEF Course, Honest, Loops
<1>8. QED
  BY <1>4, <1>6, <1>7 DEF Course

LEMMA FollowersAreOnCourse ==
  ASSUME ElectionTyped, NEW c \in Candidate, faults' \in Nat,
         call'[c] \in {NoJob, Job("pause", Nobody, RetryPause)}, refresh'[c] = NoJob,
         standing'[c] = "follower"
  PROVE  Course(c)'
<1>1. /\ call'[c].at \in {"none", "pause"} /\ (call'[c].at = "none" => call'[c].due = 0)
      /\ refresh'[c].at = "none" /\ refresh'[c].due = 0
  BY DEF NoJob, Job
<1>2. ~Running(c)' /\ ~Wins(c)'
  BY <1>1 DEF Running, Wins, Won
<1>3. InTime(c)'
  BY <1>1 DEF InTime
<1>4. QED
  BY <1>1, <1>2, <1>3 DEF Course, Refreshing, Honest, Loops

\* The call waits for something that is told by the time: what is lost to it
\* is counted.
LEMMA WaitsOnCourse ==
  ASSUME ElectionTyped, NEW c \in Candidate, Course(c), UNCHANGED <<leaderKey, keyLeft>>,
         refresh'[c] = refresh[c],
         call'[c].due \in Nat, faults' \in 0 .. MaxFaults, faults' = faults + call'[c].due,
         Wins(c)' \/ call'[c].at = "announce" => Wins(c)
  PROVE  InTime(c)' /\ Refreshing(c)'
<1>1. /\ faults \in 0 .. MaxFaults /\ keyLeft \in Nat /\ MaxFaults \in Nat /\ RefreshPeriod \in Nat
      /\ call[c].due \in Nat /\ refresh[c].due \in Nat
  BY FaultAssumption, PeriodsAssumption DEF ElectionTyped, CallJob, RefreshJob
<1>2. /\ Running(c)' <=> Running(c)
      /\ NextIn(c)' = NextIn(c) /\ NextIn(c) \in Nat
  BY NextIsNear DEF Running, NextIn, Won, Course
<1>3. InTime(c)'
  BY <1>1 DEF Course, InTime
<1>4. Lasts(c, NextIn(c)) => Lasts(c, NextIn(c))'
  BY <1>1, <1>2 DEF Lasts
<1>5. Lasts(c, call[c].due + RefreshPeriod) => Lasts(c, call[c].due + RefreshPeriod)'
  <2>1. ASSUME leaderKey = c, (call[c].due + RefreshPeriod) + (MaxFaults - faults) < keyLeft
        PROVE  (call'[c].due + RefreshPeriod) + (MaxFaults - faults') < keyLeft
    BY <1>1, <2>1
  <2>2. QED
    BY <2>1 DEF Lasts
<1>6. Refreshing(c)'
  BY <1>2, <1>4, <1>5 DEF Course, Refreshing
<1>7. QED
  BY <1>3, <1>6

LEMMA TermsKeepCourse ==
  ASSUME ElectionTyped, NEW c \in Candidate, Course(c), TermAsked(c) \/ TermKnown(c)
  PROVE  Course(c)'
<1>1. faults \in 0 .. MaxFaults /\ c # Nobody
  BY SentinelAssumption DEF ElectionTyped
<1>2. /\ UNCHANGED <<leaderKey, keyLeft>> /\ refresh'[c] = refresh[c] /\ strayed'[c] = strayed[c]
      /\ Running(c)' <=> Running(c)
  BY DEF TermAsked, TermKnown, keyVars, Running
<1>3. CASE TermAsked(c)
  <2>1. PICK ans \in {c, Nobody} : Awaits(c, "term", ans) /\ (ans = c => Won(c, call[c]))
    <3>1. CASE Awaits(c, "term", c) /\ Won(c, call[c])
      BY <3>1
    <3>2. CASE Awaits(c, "term", Nobody)
      BY <1>1, <3>2, Zenon
    <3>3. QED
      BY <1>3, <3>1, <3>2 DEF TermAsked
  <2>2. /\ call'[c].at = "term" /\ call'[c].ans = ans /\ call'[c].due \in Nat
        /\ faults' = faults + call'[c].due /\ faults' \in 0 .. MaxFaults
    BY <2>1, AwaitsTyped DEF CallPlaces
  <2>3. (Wins(c)' => Wins(c)) /\ call'[c].at # "announce"
    BY <1>1, <2>1, <2>2 DEF Wins, Won
  <2>4. InTime(c)' /\ Refreshing(c)'
    BY <1>2, <2>2, <2>3, WaitsOnCourse
  <2>5. standing'[c] = standing[c] /\ call[c].at \in {"set", "get", "expire"}
    BY <1>3 DEF TermAsked, Won, Lost
  <2>6. Honest(c)' /\ Loops(c)'
    BY <1>2, <2>2, <2>3, <2>5 DEF Course, Honest, Loops
  <2>7. QED
    BY <2>4, <2>6 DEF Course
<1>4. CASE TermKnown(c) /\ call[c].ans = c
  <2>1. Awaits(c, "announce", c) /\ standing'[c] = "leader" /\ call[c].at = "term"
    BY <1>4 DEF TermKnown, ElectionTyped
  <2>2. /\ call'[c].at = "announce" /\ call'[c].due \in Nat
        /\ faults' = faults + call'[c].due /\ faults' \in 0 .. MaxFaults
    BY <2>1, AwaitsTyped DEF CallPlaces
  <2>3. Wins(c) /\ ~Wins(c)'
    BY <1>4, <2>1, <2>2 DEF Wins, Won
  <2>4. InTime(c)' /\ Refreshing(c)'
    BY <1>2, <2>2, <2>3, WaitsOnCourse
  <2>5. Honest(c)' /\ Loops(c)'
    BY <1>2, <2>2, <2>3 DEF Course, Honest, Loops
  <2>6. QED
    BY <2>4, <2>5 DEF Course
<1>5. CASE TermKnown(c) /\ call[c].ans # c
  <2>1. /\ call'[c] = Job("pause", Nobody, RetryPause) /\ standing'[c] = "follower" /\ faults' = faults
    BY <1>5 DEF TermKnown, Beaten, Falls, CallGoesTo, ElectionTyped
  <2>2. QED
    BY <1>1, <1>2, <2>1, CallEndsOnCourse
<1>6. QED
  BY <1>3, <1>4, <1>5
LEMMA AnnouncingKeepsCourse ==
  ASSUME ElectionTyped, NEW c \in Candidate, Course(c), Announced(c)
  PROVE  Course(c)'
<1>1. /\ faults \in Nat /\ keyLeft \in Nat /\ MaxFaults \in Nat /\ RefreshPeriod \in Nat
      /\ call[c].due \in Nat
  BY FaultAssumption, PeriodsAssumption DEF ElectionTyped, CallJob
<1>2. /\ UNCHANGED <<leaderKey, keyLeft, faults>>
      /\ standing'[c] = standing[c] /\ strayed'[c] = strayed[c] /\ call[c].at = "announce"
  BY DEF Announced, keyVars
<1>3. refresh'[c] = Job("timer", c, RefreshPeriod)
  BY DEF Announced, StopRefresh, ElectionTyped
<1>4. call'[c] \in {NoJob, Job("pause", Nobody, RetryPause)}
  BY DEF Announced, CallGoesTo, Beaten, ElectionTyped
<1>5. /\ call'[c].at \in {"none", "pause"} /\ (call'[c].at = "none" => call'[c].due = 0)
      /\ refresh'[c].at = "timer" /\ refresh'[c].due = RefreshPeriod
  BY <1>3, <1>4 DEF NoJob, Job
<1>6. Running(c)' /\ ~Wins(c)' /\ NextIn(c)' = RefreshPeriod + 0
  BY <1>5 DEF Running, Wins, NextIn, Won
<1>7. InTime(c)'
  BY <1>1, <1>5, <1>2 DEF InTime
<1>8. Refreshing(c)'
  BY <1>1, <1>2, <1>5, <1>6 DEF Course, Refreshing, Lasts
<1>9. Honest(c)' /\ Loops(c)'
  BY <1>2, <1>5, <1>6 DEF Course, Honest, Loops
<1>10. QED
  BY <1>7, <1>8, <1>9 DEF Course

\* An announcement that fails leaves a leader on its course, or without a refresh.
LEMMA FailingKeepsCourse ==
  ASSUME ElectionTyped, NEW c \in Candidate, Course(c), AnnouncementFails(c) \/ FarewellFails(c)
  PROVE  Course(c)'
<1>1. /\ UNCHANGED <<leaderKey, keyLeft>> /\ faults' \in 0 .. MaxFaults /\ faults' >= faults
      /\ refresh'[c] = refresh[c] /\ strayed'[c] = strayed[c]
  BY FaultAssumption DEF AnnouncementFails, FarewellFails, keyVars, ElectionTyped
<1>2. call'[c] \in {NoJob, Job("pause", Nobody, RetryPause)}
  BY DEF AnnouncementFails, FarewellFails, Beaten, CallGoesTo, ElectionTyped
<1>3. standing'[c] = "leader" => standing[c] = "leader" /\ Running(c)
  <2>1. CASE AnnouncementFails(c)
    <3>1. standing'[c] = IF standing[c] = "leader" /\ refresh[c] = NoJob THEN "unrefreshed" ELSE standing[c]
      BY <2>1 DEF AnnouncementFails, ElectionTyped
    <3>2. QED
      BY <3>1 DEF ElectionTyped
  <2>2. CASE FarewellFails(c)
    BY <2>2 DEF FarewellFails, Course, Loops
  <2>3. QED
    BY <2>1, <2>2
<1>4. QED
  BY <1>1, <1>2, <1>3, CallEndsOnCourse

LEMMA RefreshedKeepsCourse ==
  ASSUME ElectionTyped, NEW c \in Candidate, Course(c), Refreshed(c)
  PROVE  Course(c)'
<1>1. /\ faults \in Nat /\ keyLeft \in Nat /\ MaxFaults \in Nat /\ RefreshPeriod \in Nat
      /\ refresh[c].due \in Nat
  BY FaultAssumption, PeriodsAssumption DEF ElectionTyped, RefreshJob
<1>2. /\ UNCHANGED <<leaderKey, keyLeft, faults>> /\ call'[c] = call[c]
      /\ standing'[c] = standing[c] /\ strayed'[c] = strayed[c] /\ Won(c, refresh[c])
  BY DEF Refreshed, keyVars
<1>3. refresh'[c] = Job("timer", c, RefreshPeriod)
  BY DEF Refreshed, ElectionTyped
<1>4. refresh'[c].at = "timer" /\ refresh'[c].due = RefreshPeriod
  BY <1>3 DEF Job
<1>5. /\ Running(c) /\ Running(c)' /\ (Wins(c)' <=> Wins(c))
      /\ NextIn(c)' = RefreshPeriod + 0 /\ NextIn(c) = refresh[c].due + RefreshPeriod
  BY <1>2, <1>4 DEF Running, Wins, NextIn, Won
<1>6. InTime(c)'
  BY <1>1, <1>2, <1>4 DEF Course, InTime
<1>7. Refreshing(c)'
  BY <1>1, <1>2, <1>5 DEF Course, Refreshing, Lasts
<1>8. Honest(c)' /\ Loops(c)'
  BY <1>2, <1>5 DEF Course, Honest, Loops, Lasts
<1>9. QED
  BY <1>6, <1>7, <1>8 DEF Course

LEMMA LosingKeepsCourse ==
  ASSUME ElectionTyped, NEW c \in Candidate, Course(c), LeadershipLost(c)
  PROVE  Course(c)'
<1>1. /\ UNCHANGED <<leaderKey, keyLeft, faults, strayed>> /\ call'[c] = call[c]
      /\ standing'[c] = "follower" /\ refresh'[c] = NoJob /\ faults \in Nat
  BY DEF LeadershipLost, Falls, keyVars, ElectionTyped
<1>2. Running(c)
  <2>1. Lost(c, refresh[c]) \/ refresh[c].ans = Failed
    BY DEF LeadershipLost, RefreshFailed
  <2>2. refresh[c] # NoJob
    BY <2>1, SentinelAssumption DEF NoJob, Lost
  <2>3. QED
    BY <2>2 DEF ElectionTyped
<1>3. /\ ~Running(c)' /\ (Wins(c)' <=> Wins(c)) /\ refresh'[c].at = "none" /\ refresh'[c].due = 0
  BY <1>1 DEF Running, Wins, Won, NoJob
<1>4. InTime(c)'
  BY <1>1, <1>3 DEF Course, InTime
<1>5. Refreshing(c)'
  BY <1>1, <1>3 DEF Course, Refreshing, Lasts
<1>6. Honest(c)' /\ Loops(c)'
  BY <1>1, <1>2, <1>3 DEF Course, Honest, Loops
<1>7. QED
  BY <1>4, <1>5, <1>6 DEF Course

LEMMA LeavingKeepsCourse ==
  ASSUME ElectionTyped, NEW c \in Candidate, Course(c),
         \/ BackendResigned(c) \/ ResignationKnown(c) \/ ResignRejects(c) \/ Shutdown(c)
  PROVE  Course(c)'
<1>1. /\ UNCHANGED <<leaderKey, keyLeft>> /\ faults \in 0 .. MaxFaults
      /\ ~BackendResigned(c) => faults' = faults
  BY DEF BackendResigned, ResignationKnown, ResignRejects, Shutdown, keyVars, ElectionTyped
<1>2. CASE BackendResigned(c)
  <2>0. Awaits(c, "farewell", c)
    BY <1>2 DEF BackendResigned
  <2>1. /\ call'[c].due \in Nat /\ faults' = faults + call'[c].due /\ refresh'[c] = NoJob
        /\ call'[c].at = "farewell"
        /\ standing'[c] = standing[c] /\ strayed'[c] = strayed[c] /\ call[c].at \in {"check", "delete"}
    BY <1>2, <2>0, AwaitsTyped DEF BackendResigned, StopRefresh, ElectionTyped, CallPlaces
  <2>2. /\ call'[c].at = "farewell" /\ call'[c].due <= faults' /\ faults' \in Nat
        /\ refresh'[c].at = "none" /\ refresh'[c].due = 0
    BY <1>1, <2>1 DEF NoJob
  <2>3. ~Running(c)' /\ ~Wins(c)' /\ standing[c] # "leader"
    BY <2>1, <2>2 DEF Running, Wins, Won, Course, Loops
  <2>4. InTime(c)'
    BY <1>1, <2>2 DEF InTime
  <2>5. QED
    BY <2>1, <2>2, <2>3, <2>4 DEF Course, Refreshing, Honest, Loops
<1>3. CASE ResignationKnown(c)
  <2>1. /\ call'[c] = NoJob /\ refresh'[c] = refresh[c] /\ standing'[c] = "follower"
        /\ strayed'[c] = strayed[c] /\ faults' = faults
    BY <1>3 DEF ResignationKnown, CallGoesTo, Falls, ElectionTyped
  <2>2. QED
    BY <1>1, <2>1, CallEndsOnCourse
<1>4. CASE ResignRejects(c) /\ ~down[c]
  <2>1. /\ call'[c] = NoJob /\ refresh'[c] = refresh[c] /\ standing'[c] = standing[c]
        /\ strayed'[c] = strayed[c] /\ call[c].at \in {"check", "delete"} /\ faults' = faults
    BY <1>4 DEF ResignRejects, CallGoesTo, ElectionTyped
  <2>2. standing'[c] # "leader"
    BY <2>1 DEF Course, Loops
  <2>3. QED
    BY <1>1, <2>1, <2>2, CallEndsOnCourse
<1>5. CASE ResignRejects(c) /\ down[c]
  <2>1. call'[c] = NoJob /\ refresh'[c] = NoJob /\ standing'[c] = "follower" /\ faults' \in Nat
    BY <1>1, <1>5 DEF ResignRejects, CallGoesTo, StopRefresh, Falls, ElectionTyped
  <2>2. QED
    BY <1>1, <2>1, FollowersAreOnCourse
<1>6. CASE Shutdown(c)
  <2>1. /\ call'[c] = call[c] /\ refresh'[c] = NoJob /\ standing'[c] = "follower" /\ call[c].at = "none"
        /\ faults' = faults
    BY <1>6 DEF Shutdown, StopRefresh, Idle, IsLeader, ElectionTyped
  <2>2. refresh'[c].at = "none" /\ refresh'[c].due = 0
    BY <2>1 DEF NoJob
  <2>3. ~Wins(c)' /\ ~Running(c)'
    BY <2>1, <2>2 DEF Running, Wins, Won
  <2>4. InTime(c)'
    BY <1>1, <2>1, <2>2 DEF Course, InTime
  <2>5. QED
    BY <2>1, <2>2, <2>3, <2>4 DEF Course, Refreshing, Honest, Loops
<1>7. QED
  BY <1>2, <1>3, <1>4, <1>5, <1>6

LEMMA TicksKeepCourse ==
  ASSUME ElectionTyped, NEW c \in Candidate, Course(c), Tick
  PROVE  Course(c)'
<1>1. /\ faults \in 0 .. MaxFaults /\ keyLeft \in Nat /\ MaxFaults \in Nat /\ RefreshPeriod \in Nat
      /\ refresh[c].due \in Nat /\ call[c].due \in Nat
  BY FaultAssumption, PeriodsAssumption DEF ElectionTyped, RefreshJob, CallJob
<1>2. /\ standing'[c] = standing[c] /\ strayed'[c] = strayed[c] /\ faults' = faults
      /\ keyLeft' = IF keyLeft = 0 THEN 0 ELSE keyLeft - 1
      /\ leaderKey' = IF keyLeft <= 1 THEN Nobody ELSE leaderKey
  BY DEF Tick, Less
<1>3. /\ call'[c].at = call[c].at /\ call'[c].ans = call[c].ans
      /\ call'[c].due = IF call[c].due = 0 THEN 0 ELSE call[c].due - 1
      /\ refresh'[c].at = refresh[c].at /\ refresh'[c].ans = refresh[c].ans
      /\ refresh'[c].due = IF refresh[c].due = 0 THEN 0 ELSE refresh[c].due - 1
  <2>1. call' = Nearer(call) /\ refresh' = Nearer(refresh)
    BY DEF Tick, JobsNearer
  <2>2. refresh \in [Candidate -> [at : {"none", "timer", "set", "get", "expire"}, ans : Answers, due : Nat]]
    BY DEF ElectionTyped, RefreshJob
  <2>3. call \in [Candidate -> [at : CallPlaces, ans : Answers, due : Nat]]
    BY DEF ElectionTyped, CallJob
  <2>4. /\ Nearer(refresh)[c].at = refresh[c].at /\ Nearer(refresh)[c].ans = refresh[c].ans
        /\ Nearer(refresh)[c].due = Less(refresh[c].due)
    BY <2>2, TicksNear
  <2>5. /\ Nearer(call)[c].at = call[c].at /\ Nearer(call)[c].ans = call[c].ans
        /\ Nearer(call)[c].due = Less(call[c].due)
    BY <2>3, TicksNear
  <2>6. QED
    BY <2>1, <2>4, <2>5 DEF Less
<1>4. (Running(c) => refresh[c].due > 0) /\ (call[c].at # "none" => call[c].due > 0)
  BY DEF Tick, NothingDue, Running
<1>5. /\ Running(c)' <=> Running(c)
      /\ Wins(c)' <=> Wins(c)
      /\ Won(c, refresh[c])' <=> Won(c, refresh[c])
  BY <1>3 DEF Running, Wins, Won
<1>6. InTime(c)'
  BY <1>1, <1>2, <1>3 DEF Course, InTime
<1>7. c # Nobody
  BY SentinelAssumption
<1>8. ASSUME Running(c), leaderKey = c
      PROVE  leaderKey' = c /\ Lasts(c, NextIn(c))'
  <2>1. NextIn(c) + (MaxFaults - faults) < keyLeft
    BY <1>8 DEF Course, Refreshing, Lasts
  <2>2. refresh'[c].due = refresh[c].due - 1 /\ refresh[c].due > 0
    BY <1>1, <1>3, <1>4, <1>8
  <2>3. NextIn(c) \in Nat /\ NextIn(c) > 0 /\ NextIn(c)' = NextIn(c) - 1
    BY <1>1, <1>5, <2>2 DEF NextIn
  <2>4. keyLeft > 1 /\ leaderKey' = c /\ keyLeft' = keyLeft - 1
    BY <1>1, <1>2, <1>8, <2>1, <2>3
  <2>5. QED
    BY <1>1, <1>2, <2>1, <2>3, <2>4 DEF Lasts
<1>9. ASSUME Wins(c) \/ call[c].at = "announce", leaderKey = c
      PROVE  leaderKey' = c /\ Lasts(c, call[c].due + RefreshPeriod)'
  <2>1. (call[c].due + RefreshPeriod) + (MaxFaults - faults) < keyLeft
    BY <1>9 DEF Course, Refreshing, Lasts
  <2>2. call'[c].due = call[c].due - 1 /\ call[c].due > 0
    BY <1>1, <1>3, <1>4, <1>9 DEF Wins, Won
  <2>3. keyLeft > 1 /\ leaderKey' = c /\ keyLeft' = keyLeft - 1
    BY <1>1, <1>2, <1>9, <2>1, <2>2
  <2>4. QED
    BY <1>1, <1>2, <2>1, <2>2, <2>3 DEF Lasts
<1>11. Refreshing(c)'
  <2>1. leaderKey' = c => leaderKey = c
    BY <1>2, <1>7
  <2>2. Running(c) => Lasts(c, NextIn(c))'
    BY <1>8, <2>1 DEF Lasts
  <2>3. Wins(c) \/ call[c].at = "announce" => Lasts(c, call[c].due + RefreshPeriod)'
    BY <1>9, <2>1 DEF Lasts
  <2>4. QED
    BY <1>3, <1>5, <2>2, <2>3 DEF Refreshing
<1>12. Honest(c)'
  <2>1. standing[c] = "leader" => Running(c) \/ call[c].at = "announce"
    BY DEF Course, Loops
  <2>2. QED
    BY <1>2, <1>3, <1>5, <1>8, <1>9, <2>1 DEF Course, Honest
<1>13. Loops(c)'
  BY <1>2, <1>3, <1>5 DEF Course, Loops
<1>14. QED
  BY <1>6, <1>11, <1>12, <1>13 DEF Course
-----------------------------------------------------------------------------
(* Every step leaves every instance on its course.                         *)

Courses == \A c \in Candidate : Course(c)

\* A command of c leaves the others on their courses, if it takes no key from
\* them that they do not miss.
LEMMA CommandsLeaveOthers ==
  ASSUME ElectionTyped, Courses, NEW c \in Candidate, NEW d \in Candidate \ {c}, NEW command, NEW job,
         KeyOf(c, command, job), NewsOf(c, command, job),
         leaderKey' = d => keyLeft' >= keyLeft,
         call'[d] = call[d], refresh'[d] = refresh[d], standing'[d] = standing[d]
  PROVE  Course(d)'
<1>1. /\ faults' \in 0 .. MaxFaults /\ faults' >= faults /\ keyLeft' \in Nat
  BY DEF ElectionTyped, NewsOf, KeyOf, CallJob
<1>2. /\ leaderKey' = d => leaderKey = d
      /\ strayed'[d] \/ ~strayed[d]
      /\ leaderKey = d /\ leaderKey' # d => strayed'[d]
  BY DEF KeyOf
<1>3. QED
  BY <1>1, <1>2, OthersKeepCourse DEF Courses

LEMMA CallSends ==
  ASSUME ElectionTyped, Courses, PeriodsFit, NEW c \in Candidate,
         NEW command \in {"set", "get", "expire"}, Calls(c, command),
         call[c].at \notin {"announce", "farewell", "check", "delete"}
  PROVE  Courses'
<1>1. PICK job \in Jobs : Sent(c, command, job) /\ call' = [call EXCEPT ![c] = job]
  BY DEF Calls
<1>2. KeyOf(c, command, job) /\ NewsOf(c, command, job)
  BY <1>1, Commands
<1>3. /\ call'[c] = job /\ \A d \in Candidate \ {c} : call'[d] = call[d]
      /\ UNCHANGED <<standing, refresh>>
  BY <1>1 DEF Calls, ElectionTyped
<1>4. Course(c)'
  BY <1>2, <1>3, CallsKeepCourse DEF Courses
<1>5. ASSUME NEW d \in Candidate \ {c} PROVE Course(d)'
  BY <1>2, <1>3, CommandsLeaveOthers DEF KeyOf
<1>6. QED
  BY <1>4, <1>5 DEF Courses

LEMMA RefreshSends ==
  ASSUME ElectionTyped, Courses, PeriodsFit, NEW c \in Candidate,
         NEW command \in {"set", "get", "expire"}, Refreshes(c, command), Running(c)
  PROVE  Courses'
<1>1. PICK job \in Jobs : Sent(c, command, job) /\ refresh' = [refresh EXCEPT ![c] = job]
  BY DEF Refreshes
<1>2. KeyOf(c, command, job) /\ NewsOf(c, command, job)
  BY <1>1, Commands
<1>3. /\ refresh'[c] = job /\ \A d \in Candidate \ {c} : refresh'[d] = refresh[d]
      /\ UNCHANGED <<standing, call>>
  BY <1>1 DEF Refreshes, ElectionTyped
<1>4. Course(c)'
  BY <1>2, <1>3, RefreshesKeepCourse DEF Courses
<1>5. ASSUME NEW d \in Candidate \ {c} PROVE Course(d)'
  BY <1>2, <1>3, CommandsLeaveOthers DEF KeyOf
<1>6. QED
  BY <1>4, <1>5 DEF Courses

LEMMA CancelledSends ==
  ASSUME ElectionTyped, Courses, PeriodsFit, NEW c \in Candidate, CancelledRefresh(c)
  PROVE  Courses'
<1>1. PICK job \in Jobs : Sent(c, Ahead(c, late[c]), job)
  BY DEF CancelledRefresh
<1>2. Ahead(c, late[c]) \in {"get", "expire"}
  <2>1. job.at = Ahead(c, late[c]) /\ job.at # "none"
    BY <1>1 DEF Sent, Jobs
  <2>2. QED
    BY <2>1 DEF Ahead
<1>3. KeyOf(c, Ahead(c, late[c]), job) /\ NewsOf(c, Ahead(c, late[c]), job)
  BY <1>1, <1>2, Commands
<1>4. UNCHANGED <<standing, call, refresh>>
  BY DEF CancelledRefresh
<1>5. Course(c)'
  BY <1>2, <1>3, <1>4, StragglersKeepCourse DEF Courses
<1>6. ASSUME NEW d \in Candidate \ {c} PROVE Course(d)'
  BY <1>2, <1>3, <1>4, CommandsLeaveOthers DEF KeyOf
<1>7. QED
  BY <1>5, <1>6 DEF Courses

LEMMA ResignSends ==
  ASSUME ElectionTyped, Courses, NEW c \in Candidate,
         (\E closing \in BOOLEAN : Resign(c, closing)) \/ KeyReleased(c)
  PROVE  Courses'
<1>1. CASE \E closing \in BOOLEAN : Resign(c, closing)
  <2>1. PICK job \in Jobs : Sent(c, "check", job) /\ call' = [call EXCEPT ![c] = job]
    BY <1>1 DEF Resign, CallGoesTo
  <2>2. KeyOf(c, "check", job) /\ NewsOf(c, "check", job)
    BY <2>1, Commands
  <2>3. UNCHANGED <<leaderKey, keyLeft>> /\ keyLeft \in Nat
    BY <2>1 DEF Sent, Effect, keyVars, ElectionTyped
  <2>4. /\ call'[c] = job /\ \A d \in Candidate \ {c} : call'[d] = call[d]
        /\ standing'[c] = "resigning" /\ \A d \in Candidate \ {c} : standing'[d] = standing[d]
        /\ refresh' = refresh
    BY <1>1, <2>1 DEF Resign, ElectionTyped
  <2>5. Course(c)'
    BY <2>2, <2>3, <2>4, ResigningKeepsCourse DEF Courses
  <2>6. ASSUME NEW d \in Candidate \ {c} PROVE Course(d)'
    BY <2>2, <2>3, <2>4, CommandsLeaveOthers
  <2>7. QED
    BY <2>5, <2>6 DEF Courses
<1>2. CASE KeyReleased(c)
  <2>1. PICK job \in Jobs : Sent(c, "delete", job) /\ call' = [call EXCEPT ![c] = job]
    BY <1>2 DEF KeyReleased, Calls
  <2>2. KeyOf(c, "delete", job) /\ NewsOf(c, "delete", job)
    BY <2>1, Commands
  <2>3. /\ leaderKey' \in {leaderKey, Nobody} /\ (leaderKey' # Nobody => keyLeft' = keyLeft)
        /\ keyLeft \in Nat
    BY <2>1, SentinelAssumption DEF Sent, Effect, keyVars, ElectionTyped
  <2>4. /\ call'[c] = job /\ \A d \in Candidate \ {c} : call'[d] = call[d]
        /\ UNCHANGED <<standing, refresh>> /\ call[c].at = "check"
    BY <1>2, <2>1 DEF KeyReleased, Calls, ElectionTyped
  <2>5. standing'[c] # "leader"
    BY <2>4 DEF Courses, Course, Loops
  <2>6. Course(c)'
    BY <2>2, <2>3, <2>4, <2>5, ResigningKeepsCourse DEF Courses
  <2>7. ASSUME NEW d \in Candidate \ {c} PROVE Course(d)'
    <3>1. leaderKey' = d => keyLeft' >= keyLeft
      BY <2>3, SentinelAssumption
    <3>2. QED
      BY <2>2, <2>4, <3>1, CommandsLeaveOthers
  <2>8. QED
    BY <2>6, <2>7 DEF Courses
<1>3. QED
  BY <1>1, <1>2

\* A step without a command leaves the others on their courses.
LEMMA QuietLeavesOthers ==
  ASSUME ElectionTyped, Courses, NEW c \in Candidate, Course(c)', UNCHANGED keyVars,
         faults' \in 0 .. MaxFaults, faults' >= faults,
         \A d \in Candidate \ {c} : /\ call'[d] = call[d] /\ refresh'[d] = refresh[d]
                                    /\ standing'[d] = standing[d] /\ strayed'[d] = strayed[d]
  PROVE  Courses'
<1>1. ASSUME NEW d \in Candidate \ {c} PROVE Course(d)'
  <2>1. keyLeft' \in Nat /\ keyLeft' >= keyLeft /\ leaderKey' = leaderKey
    BY DEF ElectionTyped, keyVars
  <2>2. QED
    BY <2>1, OthersKeepCourse DEF Courses
<1>2. QED
  BY <1>1 DEF Courses

\* What a step of c that is told by its own variables alone leaves to others.
LEMMA QuietSteps ==
  ASSUME ElectionTyped, NEW c \in Candidate,
         \/ CampaignRejects(c) \/ WaitTimesOut(c) \/ TermAsked(c) \/ TermKnown(c) \/ Announced(c)
         \/ AnnouncementFails(c) \/ FarewellFails(c)
         \/ Refreshed(c) \/ LeadershipLost(c)
         \/ BackendResigned(c) \/ ResignationKnown(c) \/ ResignRejects(c) \/ Shutdown(c)
  PROVE  Quiet(c)
<1> USE DEF Quiet, CallGoesTo, ElectionTyped
<1>0. /\ faults \in 0 .. MaxFaults /\ MaxFaults \in Nat /\ faults >= faults
      /\ \A at \in CallPlaces, ans \in Candidate \cup {Nobody} : Awaits(c, at, ans) =>
           /\ faults' \in 0 .. MaxFaults /\ faults' >= faults
           /\ \A d \in Candidate \ {c} : call'[d] = call[d]
  <2>1. faults \in 0 .. MaxFaults /\ MaxFaults \in Nat
    BY FaultAssumption
  <2>2. ASSUME NEW at \in CallPlaces, NEW ans \in Candidate \cup {Nobody}, Awaits(c, at, ans)
        PROVE  /\ faults' \in 0 .. MaxFaults /\ faults' >= faults
               /\ \A d \in Candidate \ {c} : call'[d] = call[d]
    <3>1. /\ faults' \in 0 .. MaxFaults /\ faults' = faults + call'[c].due /\ call'[c].due \in Nat
          /\ \A d \in Candidate \ {c} : call'[d] = call[d]
      BY <2>2, AwaitsTyped
    <3>2. QED
      BY <2>1, <3>1
  <2>3. QED
    BY <2>1, <2>2
<1>1. CASE CampaignRejects(c) \/ WaitTimesOut(c)
  BY <1>0, <1>1 DEF CampaignRejects, WaitTimesOut, Beaten
<1>2. CASE TermAsked(c) \/ TermKnown(c)
  <2>1. CASE Awaits(c, "term", c) \/ Awaits(c, "term", Nobody) \/ Awaits(c, "announce", c)
    <3>1. /\ faults' \in 0 .. MaxFaults /\ faults' >= faults
          /\ \A d \in Candidate \ {c} : call'[d] = call[d]
      BY <1>0, <2>1 DEF CallPlaces
    <3>2. QED
      BY <1>2, <3>1 DEF TermAsked, TermKnown, Falls
  <2>2. CASE TermKnown(c) /\ Falls(c) /\ Beaten(c) /\ UNCHANGED faults
    BY <1>0, <2>2 DEF TermKnown, Falls, Beaten
  <2>3. QED
    BY <1>2, <2>1, <2>2 DEF TermAsked, TermKnown
<1>3. CASE Announced(c)
  BY <1>0, <1>3 DEF Announced, StopRefresh, Beaten
<1>4. CASE Refreshed(c) \/ LeadershipLost(c)
  BY <1>0, <1>4 DEF Refreshed, LeadershipLost, Falls
<1>5. CASE ResignationKnown(c) \/ Shutdown(c)
  BY <1>0, <1>5 DEF ResignationKnown, Shutdown, StopRefresh, Falls
<1>6. CASE BackendResigned(c)
  <2>1. /\ faults' \in 0 .. MaxFaults /\ faults' >= faults
        /\ \A d \in Candidate \ {c} : call'[d] = call[d]
    BY <1>0, <1>6 DEF BackendResigned, CallPlaces
  <2>2. QED
    BY <1>6, <2>1 DEF BackendResigned, StopRefresh
<1>7. CASE ResignRejects(c)
  BY <1>0, <1>7 DEF ResignRejects, StopRefresh, Falls
<1>8. CASE AnnouncementFails(c) \/ FarewellFails(c)
  BY <1>0, <1>8 DEF AnnouncementFails, FarewellFails, Beaten
<1>9. QED
  BY <1>1, <1>2, <1>3, <1>4, <1>5, <1>6, <1>7, <1>8

LEMMA QuietStepsKeepCourses ==
  ASSUME ElectionTyped, Courses, NEW c \in Candidate,
         \/ CampaignRejects(c) \/ WaitTimesOut(c) \/ TermAsked(c) \/ TermKnown(c) \/ Announced(c)
         \/ AnnouncementFails(c) \/ FarewellFails(c)
         \/ Refreshed(c) \/ LeadershipLost(c)
         \/ BackendResigned(c) \/ ResignationKnown(c) \/ ResignRejects(c) \/ Shutdown(c)
  PROVE  Courses'
<1>1. Quiet(c)
  BY QuietSteps
<1>2. faults' \in 0 .. MaxFaults /\ faults' >= faults /\ UNCHANGED keyVars
  BY <1>1 DEF Quiet, ElectionTyped
<1>3. Course(c)
  BY DEF Courses
<1>4. Course(c)'
  <2>1. CASE CampaignRejects(c) \/ WaitTimesOut(c)
    <3>1. /\ call'[c] \in {NoJob, Job("pause", Nobody, RetryPause)}
          /\ call[c].at # "announce"
          /\ refresh'[c] = refresh[c] /\ standing'[c] = standing[c] /\ strayed'[c] = strayed[c]
          /\ UNCHANGED <<leaderKey, keyLeft>>
      BY <2>1 DEF CampaignRejects, WaitTimesOut, Beaten, CallGoesTo, ElectionTyped, keyVars
    <3>2. standing'[c] = "leader" => standing[c] = "leader" /\ Running(c)
      BY <1>3, <3>1 DEF Course, Loops
    <3>3. QED
      BY <1>2, <1>3, <3>1, <3>2, CallEndsOnCourse
  <2>2. CASE TermAsked(c) \/ TermKnown(c)
    BY <1>3, <2>2, TermsKeepCourse
  <2>3. CASE Announced(c)
    BY <1>3, <2>3, AnnouncingKeepsCourse
  <2>4. CASE Refreshed(c)
    BY <1>3, <2>4, RefreshedKeepsCourse
  <2>5. CASE LeadershipLost(c)
    BY <1>3, <2>5, LosingKeepsCourse
  <2>6. CASE BackendResigned(c) \/ ResignationKnown(c) \/ ResignRejects(c) \/ Shutdown(c)
    BY <1>3, <2>6, LeavingKeepsCourse
  <2>7. CASE AnnouncementFails(c) \/ FarewellFails(c)
    BY <1>3, <2>7, FailingKeepsCourse
  <2>8. QED
    BY <2>1, <2>2, <2>3, <2>4, <2>5, <2>6, <2>7
<1>5. QED
  BY <1>1, <1>2, <1>4, QuietLeavesOthers DEF Quiet

LEMMA CoursesStep ==
  ASSUME ElectionTyped, Courses, PeriodsFit, [ElectionNext]_electionVars
  PROVE  Courses'
<1>1. CASE UNCHANGED electionVars
  BY <1>1 DEF electionVars, keyVars, Courses, Course, InTime, Refreshing, Honest, Loops, Lasts, NextIn,
              Wins, Won, Running
<1>2. ASSUME NEW c \in Candidate, AppCall(c) \/ CallStep(c)
      PROVE  Courses'
  <2>1. CASE Campaign(c)
    BY <2>1, CallSends DEF Campaign, Idle
  <2>2. CASE CampaignGoesOn(c)
    <3>1. Ahead(c, call[c]) \in {"get", "expire"} /\ call[c].at \in {"set", "get"}
      BY <2>2 DEF CampaignGoesOn, Ahead
    <3>2. QED
      BY <2>2, <3>1, CallSends DEF CampaignGoesOn
  <2>3. CASE TriesAgain(c)
    BY <2>3, CallSends DEF TriesAgain
  <2>4. CASE (\E closing \in BOOLEAN : Resign(c, closing)) \/ KeyReleased(c)
    BY <2>4, ResignSends
  <2>5. QED
    BY <1>2, <2>1, <2>2, <2>3, <2>4, QuietStepsKeepCourses DEF AppCall, CallStep
<1>3. ASSUME NEW c \in Candidate, RefreshStep(c)
      PROVE  Courses'
  <2>1. CASE RefreshFires(c)
    BY <2>1, RefreshSends DEF RefreshFires, Running
  <2>2. CASE RefreshGoesOn(c)
    <3>1. Ahead(c, refresh[c]) \in {"get", "expire"} /\ Running(c)
      BY <2>2 DEF RefreshGoesOn, Ahead, Running
    <3>2. QED
      BY <2>2, <3>1, RefreshSends DEF RefreshGoesOn
  <2>3. QED
    BY <1>3, <2>1, <2>2, QuietStepsKeepCourses DEF RefreshStep
<1>4. ASSUME NEW c \in Candidate, Crash(c)
      PROVE  Courses'
  <2>1. /\ call'[c] = NoJob /\ refresh'[c] = NoJob /\ standing'[c] = "follower"
        /\ faults' \in 0 .. MaxFaults /\ faults' >= faults /\ faults' \in Nat
        /\ UNCHANGED keyVars
        /\ \A d \in Candidate \ {c} : /\ call'[d] = call[d] /\ refresh'[d] = refresh[d]
                                      /\ standing'[d] = standing[d] /\ strayed'[d] = strayed[d]
    BY <1>4, FaultAssumption DEF Crash, CallGoesTo, Falls, ElectionTyped, keyVars
  <2>2. Course(c)'
    BY <2>1, FollowersAreOnCourse
  <2>3. QED
    BY <2>1, <2>2, QuietLeavesOthers
<1>5. CASE Tick
  BY <1>5, TicksKeepCourse DEF Courses
<1>6. QED
  BY <1>1, <1>2, <1>3, <1>4, <1>5, CancelledSends DEF ElectionNext

\* An instance that answers isLeader() with true and has not asked to resign
\* holds the key, unless an EXPIRE or DEL missed that did not ask whose key it
\* is, or the announcement of the leader failed before its refresh was started:
\* whatever else crashes, is restarted, fails or is delayed, announcements
\* included, as long as that fits between two refreshes of the key.
THEOREM LeadersHaveTheKey == PeriodsFit => (ElectionSpec => []OnlyStrayLeadersMislead)
<1>1. ElectionInit => ElectionTyped /\ Courses
  BY TypesStart, CoursesStart DEF Courses
<1>2. PeriodsFit /\ ElectionTyped /\ Courses /\ [ElectionNext]_electionVars => (ElectionTyped /\ Courses)'
  BY TypedStep, CoursesStep
<1>3. Courses => OnlyStrayLeadersMislead
  BY DEF Courses, Course, Honest, OnlyStrayLeadersMislead
<1>4. SUFFICES ASSUME PeriodsFit PROVE ElectionSpec => []OnlyStrayLeadersMislead
  OBVIOUS
<1>5. ElectionTyped /\ Courses /\ [ElectionNext]_electionVars => (ElectionTyped /\ Courses)'
  BY <1>2, <1>4
<1>6. QED
  BY <1>1, <1>3, <1>5, PTL DEF ElectionSpec
=============================================================================
