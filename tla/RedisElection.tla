--------------------------- MODULE RedisElection ---------------------------
(* Leader election over Redis: src/distributed/LeaderElection.ts for one     *)
(* role, with RedisElectionBackend.ts and the role's key, under a clock.     *)
(*                                                                           *)
(* A job is an async function at one of its awaits: what it waits for, the   *)
(* answer it will get and the time left until then, by which it goes on.  A  *)
(* command is executed when it is sent; most answers come before the clock   *)
(* ticks, after whatever the other instances do meanwhile.                   *)
(* An announcement runs the handlers of the message bus and the listeners of *)
(* the instance; one of them may throw, and another bus may take its time.   *)
(* Assumed: the application has one call of an instance under way at a time. *)
EXTENDS Integers

CONSTANTS Candidate, Nobody,
          Failed,       \* the answer of a command that rejects
          LeaderTTL, RoundedTTL, \* ttl, and ttl rounded up to seconds
          RefreshPeriod,         \* ttl / 2
          RetryPause,   \* of waitForLeadership
          MaxFaults,    \* bound on crashes, failures and delays
          CampaignAgain \* a leader may call campaign()

ASSUME PeriodsAssumption ==
  /\ {LeaderTTL, RefreshPeriod, RetryPause} \subseteq Nat \ {0}
  /\ RoundedTTL \in Nat /\ RoundedTTL >= LeaderTTL
ASSUME SentinelAssumption == Nobody \notin Candidate /\ Failed \notin Candidate /\ Nobody # Failed
ASSUME FaultAssumption == MaxFaults \in Nat /\ CampaignAgain \in BOOLEAN

VARIABLES leaderKey, keyLeft, \* the key's value and the time it has left
          standing,  \* "follower", or isLeader(): "resigning" until it is elected again,
                     \* "unrefreshed" when its announcement failed, or "leader"
          call,      \* the application's call
          refresh,   \* the refresh loop that is not cancelled
          late,      \* a cancelled one that has a command still to send
          down,      \* isShutdown
          strayed,   \* its last EXPIRE came when the key was no more its own, or the
                     \* DEL of another took the key from it
          faults     \* crashes, failures and the ticks that answers took

keyVars == <<leaderKey, keyLeft>>
electionVars == <<keyVars, standing, call, refresh, late, down, strayed, faults>>

NoJob == [at |-> "none", ans |-> Nobody, due |-> 0]
Job(at, ans, due) == [at |-> at, ans |-> ans, due |-> due]

ElectionInit ==
  /\ leaderKey = Nobody /\ keyLeft = 0
  /\ standing = [c \in Candidate |-> "follower"]
  /\ call = [c \in Candidate |-> NoJob]
  /\ refresh = [c \in Candidate |-> NoJob]
  /\ late = [c \in Candidate |-> NoJob]
  /\ down = [c \in Candidate |-> FALSE]
  /\ strayed = [c \in Candidate |-> FALSE]
  /\ faults = 0

IsLeader(c) == standing[c] # "follower"
Falls(c) == standing' = [standing EXCEPT ![c] = "follower"]

-----------------------------------------------------------------------------
(* The key and RedisElectionBackend                                          *)

Reply(c, command) ==
  CASE command = "set" -> IF leaderKey = Nobody THEN c ELSE Nobody
    [] command \in {"get", "check"} -> leaderKey
    [] OTHER -> c

\* Whose key a command misses that does not ask whose it is.
Strays(c, command) ==
  strayed' = CASE command = "set" /\ leaderKey = Nobody -> [strayed EXCEPT ![c] = FALSE]
               [] command = "expire" -> [strayed EXCEPT ![c] = leaderKey # c]
               [] command = "delete" /\ leaderKey \notin {c, Nobody} -> [strayed EXCEPT ![leaderKey] = TRUE]
               [] OTHER -> strayed

\* Mutant: SET NX without PX.
EffectForever(c, command) ==
  /\ CASE command = "set" /\ leaderKey = Nobody -> leaderKey' = c /\ UNCHANGED keyLeft
       [] command = "expire" /\ leaderKey # Nobody -> UNCHANGED leaderKey /\ keyLeft' = RoundedTTL
       [] command = "delete" -> leaderKey' = Nobody /\ keyLeft' = 0
       [] OTHER -> UNCHANGED keyVars
  /\ Strays(c, command)

\* SET NX PX, EXPIRE and DEL.
Effect(c, command) ==
  /\ CASE command = "set" /\ leaderKey = Nobody -> leaderKey' = c /\ keyLeft' = LeaderTTL
       [] command = "expire" /\ leaderKey # Nobody -> UNCHANGED leaderKey /\ keyLeft' = RoundedTTL
       [] command = "delete" -> leaderKey' = Nobody /\ keyLeft' = 0
       [] OTHER -> UNCHANGED keyVars
  /\ Strays(c, command)

Answers == Candidate \cup {Nobody, Failed}
Jobs == [at : {"set", "get", "expire", "check", "delete"}, ans : Answers, due : 0..MaxFaults]

\* The job of a command sent now.  One that fails may have been executed.
Sent(c, command, job) ==
  /\ job.at = command
  /\ job.ans \in {Reply(c, command), Failed}
  /\ faults' = faults + job.due + (IF job.ans = Failed THEN 1 ELSE 0)
  /\ faults' <= MaxFaults
  /\ Effect(c, command) \/ (job.ans = Failed /\ UNCHANGED <<keyVars, strayed>>)

\* backend.campaign(): SET NX, and if the key is there, GET and perhaps EXPIRE.
Won(c, job) == \/ job.at = "set" /\ job.ans = c
               \/ job.at = "expire" /\ job.ans # Failed
Lost(c, job) == job.at = "get" /\ job.ans \notin {c, Failed}
Ahead(c, job) == IF job.at = "set" /\ job.ans = Nobody THEN "get"
                 ELSE IF job.at = "get" /\ job.ans = c THEN "expire" ELSE "none"

-----------------------------------------------------------------------------
(* campaign() and waitForLeadership()                                        *)

Idle(c) == call[c].at = "none" /\ ~down[c]

Calls(c, command) ==
  /\ \E job \in Jobs : Sent(c, command, job) /\ call' = [call EXCEPT ![c] = job]
  /\ UNCHANGED <<standing, refresh, late>>
CallGoesTo(c, job) == call' = [call EXCEPT ![c] = job]

Campaign(c) ==
  Idle(c) /\ (CampaignAgain \/ ~IsLeader(c)) /\ Calls(c, "set") /\ UNCHANGED down

CampaignGoesOn(c) ==
  Ahead(c, call[c]) # "none" /\ Calls(c, Ahead(c, call[c])) /\ UNCHANGED down

\* What a campaign that leaves c without leadership comes to.
Beaten(c) == CallGoesTo(c, Job("pause", Nobody, RetryPause))

CampaignRejects(c) ==
  /\ call[c].at \in {"set", "get", "expire"} /\ call[c].ans = Failed
  /\ Beaten(c)
  /\ UNCHANGED <<keyVars, standing, refresh, late, down, strayed, faults>>

\* The call waits for something that may be slow.
Awaits(c, at, ans) ==
  \E due \in 0..MaxFaults - faults : CallGoesTo(c, Job(at, ans, due)) /\ faults' = faults + due

\* getNextTerm(): two commands whose errors are caught.
TermAsked(c) ==
  /\ \/ Won(c, call[c]) /\ Awaits(c, "term", c)
     \/ Lost(c, call[c]) /\ Awaits(c, "term", Nobody)
  /\ UNCHANGED <<keyVars, standing, refresh, late, down, strayed>>

\* activeCampaigns.set(), and a winner announces itself.
TermKnown(c) ==
  /\ call[c].at = "term"
  /\ IF call[c].ans = c
     THEN /\ standing' = [standing EXCEPT ![c] = "leader"]
          /\ Awaits(c, "announce", c)
     ELSE Falls(c) /\ Beaten(c) /\ UNCHANGED faults
  /\ UNCHANGED <<keyVars, refresh, late, down, strayed>>

\* stopLeadershipRefresh(), and the loop that follows.  A refresh that has a
\* command to send yet sends it (assumed: there is one such at most, and the
\* command it waits for does not fail).
StopRefresh(c, next) ==
  /\ refresh' = [refresh EXCEPT ![c] = next]
  /\ \/ Ahead(c, refresh[c]) = "none" /\ UNCHANGED late
     \/ /\ Ahead(c, refresh[c]) # "none"
        /\ late[c] = NoJob
        /\ late' = [late EXCEPT ![c] = refresh[c]]
  /\ refresh[c].ans # Failed

\* Mutant: the timer is set for the ttl.
AnnouncedSlow(c) ==
  /\ call[c].at = "announce"
  /\ StopRefresh(c, Job("timer", c, LeaderTTL))
  /\ IF IsLeader(c) THEN CallGoesTo(c, NoJob) ELSE Beaten(c)
  /\ UNCHANGED <<keyVars, standing, down, strayed, faults>>

\* The refresh of the key starts.
Announced(c) ==
  /\ call[c].at = "announce"
  /\ StopRefresh(c, Job("timer", c, RefreshPeriod))
  /\ IF IsLeader(c) THEN CallGoesTo(c, NoJob) ELSE Beaten(c)
  /\ UNCHANGED <<keyVars, standing, down, strayed, faults>>

\* campaign() rejects where it announces the leader: the campaign stays in
\* activeCampaigns, and no refresh is started.
AnnouncementFails(c) ==
  /\ call[c].at = "announce"
  /\ faults < MaxFaults
  /\ faults' = faults + 1
  /\ standing' = [standing EXCEPT ![c] = IF @ = "leader" /\ refresh[c] = NoJob THEN "unrefreshed" ELSE @]
  /\ Beaten(c)
  /\ UNCHANGED <<keyVars, refresh, late, down, strayed>>

TriesAgain(c) ==
  call[c].at = "pause" /\ call[c].due = 0 /\ Calls(c, "set") /\ UNCHANGED down

\* The timeout is over, or the application made a single campaign().
WaitTimesOut(c) ==
  /\ call[c].at = "pause"
  /\ CallGoesTo(c, NoJob)
  /\ UNCHANGED <<keyVars, standing, refresh, late, down, strayed, faults>>

-----------------------------------------------------------------------------
(* The refresh loop                                                          *)

Refreshes(c, command) ==
  /\ \E job \in Jobs : Sent(c, command, job) /\ refresh' = [refresh EXCEPT ![c] = job]
  /\ UNCHANGED <<standing, call, late, down>>

RefreshFires(c) == refresh[c].at = "timer" /\ refresh[c].due = 0 /\ Refreshes(c, "set")
RefreshGoesOn(c) == Ahead(c, refresh[c]) # "none" /\ Refreshes(c, Ahead(c, refresh[c]))

Refreshed(c) ==
  /\ Won(c, refresh[c])
  /\ refresh' = [refresh EXCEPT ![c] = Job("timer", c, RefreshPeriod)]
  /\ UNCHANGED <<keyVars, standing, call, late, down, strayed, faults>>

\* Another holds the key, or the command failed.
RefreshFailed(c) == Lost(c, refresh[c]) \/ refresh[c].ans = Failed

\* Mutants: losing the key ends the loop only, or the leadership only.
RefreshEnds(c) ==
  /\ RefreshFailed(c)
  /\ refresh' = [refresh EXCEPT ![c] = NoJob]
  /\ UNCHANGED <<keyVars, standing, call, late, down, strayed, faults>>
StopsLeading(c) ==
  /\ RefreshFailed(c)
  /\ refresh' = [refresh EXCEPT ![c] = Job("timer", c, RefreshPeriod)]
  /\ Falls(c)
  /\ UNCHANGED <<keyVars, call, late, down, strayed, faults>>

LeadershipLost(c) ==
  /\ RefreshFailed(c)
  /\ refresh' = [refresh EXCEPT ![c] = NoJob]
  /\ Falls(c)
  /\ UNCHANGED <<keyVars, call, late, down, strayed, faults>>

\* A cancelled refresh goes through backend.campaign() to its end.
CancelledRefresh(c) ==
  /\ late[c] # NoJob
  /\ \E job \in Jobs :
       /\ job.ans # Failed
       /\ Sent(c, Ahead(c, late[c]), job)
       /\ late' = [late EXCEPT ![c] = IF Ahead(c, job) = "none" THEN NoJob ELSE job]
  /\ UNCHANGED <<standing, call, refresh, down>>

-----------------------------------------------------------------------------
(* resign() and shutdown()                                                   *)

Resign(c, closing) ==
  /\ Idle(c)
  /\ IsLeader(c)
  /\ standing' = [standing EXCEPT ![c] = "resigning"]
  /\ down' = [down EXCEPT ![c] = closing]
  /\ \E job \in Jobs : Sent(c, "check", job) /\ CallGoesTo(c, job)
  /\ UNCHANGED <<refresh, late>>

KeyReleased(c) ==
  call[c].at = "check" /\ call[c].ans = c /\ Calls(c, "delete") /\ UNCHANGED down

BackendResigned(c) ==
  /\ \/ call[c].at = "check" /\ call[c].ans \notin {c, Failed}
     \/ call[c].at = "delete" /\ call[c].ans # Failed
  /\ StopRefresh(c, NoJob)
  /\ Awaits(c, "farewell", c)
  /\ UNCHANGED <<keyVars, standing, down, strayed>>

ResignationKnown(c) ==
  /\ call[c].at = "farewell"
  /\ Falls(c)
  /\ CallGoesTo(c, NoJob)
  /\ UNCHANGED <<keyVars, refresh, late, down, strayed, faults>>

\* resign() rejects where it announces the resignation: isLeader() stays true
\* without key and refresh, but for shutdown().
FarewellFails(c) ==
  /\ call[c].at = "farewell" /\ ~down[c]
  /\ faults < MaxFaults
  /\ faults' = faults + 1
  /\ CallGoesTo(c, NoJob)
  /\ UNCHANGED <<keyVars, standing, refresh, late, down, strayed>>

\* resign() rejects and c leads on; shutdown() does not mind.
ResignRejects(c) ==
  /\ call[c].at \in {"check", "delete"} /\ call[c].ans = Failed
  /\ CallGoesTo(c, NoJob)
  /\ \/ ~down[c] /\ UNCHANGED <<standing, refresh, late>>
     \/ down[c] /\ Falls(c) /\ StopRefresh(c, NoJob)
  /\ UNCHANGED <<keyVars, down, strayed, faults>>

\* shutdown() of an instance that does not lead.
Shutdown(c) ==
  /\ Idle(c)
  /\ ~IsLeader(c)
  /\ down' = [down EXCEPT ![c] = TRUE]
  /\ StopRefresh(c, NoJob)
  /\ UNCHANGED <<keyVars, standing, call, strayed, faults>>

-----------------------------------------------------------------------------
\* The process dies and is started again under the same agentId.
Crash(c) ==
  /\ faults < MaxFaults
  /\ faults' = faults + 1
  /\ Falls(c)
  /\ CallGoesTo(c, NoJob)
  /\ refresh' = [refresh EXCEPT ![c] = NoJob]
  /\ late' = [late EXCEPT ![c] = NoJob]
  /\ down' = [down EXCEPT ![c] = FALSE]
  /\ UNCHANGED <<keyVars, strayed>>

Less(n) == IF n = 0 THEN 0 ELSE n - 1
Nearer(jobs) == [c \in Candidate |-> [jobs[c] EXCEPT !.due = Less(@)]]

JobsNearer == call' = Nearer(call) /\ refresh' = Nearer(refresh) /\ late' = Nearer(late)
NothingDue == \A c \in Candidate : \A job \in {call[c], refresh[c], late[c]} :
                job.at = "none" \/ job.due > 0

\* Mutant: the key is set without PX.
TickWithoutExpiry ==
  /\ NothingDue
  /\ JobsNearer
  /\ UNCHANGED <<keyVars, standing, down, strayed, faults>>

Tick ==
  /\ NothingDue
  /\ keyLeft' = Less(keyLeft)
  /\ leaderKey' = IF keyLeft <= 1 THEN Nobody ELSE leaderKey
  /\ JobsNearer
  /\ UNCHANGED <<standing, down, strayed, faults>>

AppCall(c) ==
  \/ Campaign(c)
  \/ \E closing \in BOOLEAN : Resign(c, closing)
  \/ Shutdown(c) \/ WaitTimesOut(c)

CallStep(c) ==
  \/ CampaignGoesOn(c) \/ CampaignRejects(c) \/ TermAsked(c) \/ TermKnown(c)
  \/ Announced(c) \/ AnnouncementFails(c) \/ TriesAgain(c) \/ FarewellFails(c)
  \/ KeyReleased(c) \/ BackendResigned(c) \/ ResignationKnown(c) \/ ResignRejects(c)

RefreshStep(c) ==
  RefreshFires(c) \/ RefreshGoesOn(c) \/ Refreshed(c) \/ LeadershipLost(c)

ElectionNext ==
  \/ \E c \in Candidate : \/ AppCall(c) \/ CallStep(c) \/ RefreshStep(c)
                          \/ CancelledRefresh(c) \/ Crash(c)
  \/ Tick

ElectionSpec == ElectionInit /\ [][ElectionNext]_electionVars

\* Answers arrive and time passes, however often the application calls; nothing
\* is promised of the application.
ElectionFairness ==
  /\ \A c \in Candidate : /\ WF_electionVars(CallStep(c))
                          /\ WF_electionVars(RefreshStep(c))
                          /\ WF_electionVars(CancelledRefresh(c))
  /\ SF_electionVars(Tick)

FairElectionSpec == ElectionSpec /\ ElectionFairness

-----------------------------------------------------------------------------
(* Properties                                                                *)

ElectionTypeOK ==
  /\ leaderKey \in Candidate \cup {Nobody} /\ keyLeft \in 0..RoundedTTL
  /\ leaderKey = Nobody <=> keyLeft = 0
  /\ \A c \in Candidate :
       /\ call[c].at \in {"none", "set", "get", "expire", "term", "announce", "pause",
                          "check", "delete", "farewell"}
       /\ refresh[c].at \in {"none", "timer", "set", "get", "expire"}
       /\ late[c].at \in {"none", "set", "get"}
       /\ {call[c].ans, refresh[c].ans, late[c].ans} \subseteq Answers
  /\ standing \in [Candidate -> {"follower", "leader", "unrefreshed", "resigning"}]
  /\ {down, strayed} \subseteq [Candidate -> BOOLEAN]

\* An instance that answers isLeader() with true and has not asked to resign
\* holds the key, so there is one at most.
LeaderHoldsKey == \A c \in Candidate : standing[c] = "leader" => leaderKey = c

\* There are three ways to lead without the key: an EXPIRE or DEL that is sent
\* without asking again whose key it is, an announcement that fails before the
\* refresh is started, and a resignation that was asked for.  Refreshes, failed
\* or slow commands, slow announcements, restarts and overlaps are none.
OnlyStrayLeadersMislead ==
  \A c \in Candidate : standing[c] = "leader" /\ ~strayed[c] => leaderKey = c

\* Nobody holds the key for good without leading: what a campaign, a refresh or
\* a crash left behind expires or is taken up.
KeyHolderLeads == []<>(leaderKey = Nobody \/ IsLeader(leaderKey))

\* As long as some instance waits for leadership, the role gets leaders,
\* whatever crashes, fails, resigns or is shut down.
SomeoneLeads ==
  []<>(\E c \in Candidate : IsLeader(c)) \/ []<>(\A c \in Candidate : call[c] = NoJob)
=============================================================================
