--------------------------- MODULE AgentRegistry ---------------------------
(* The registry of agents (src/distributed/AgentRegistry.ts): records with a *)
(* time to live in a backend that several registries share, and in each of   *)
(* them one heartbeat loop per agent it registered, and a watch that         *)
(* unregisters agents whose heartbeat is far too old.                        *)
(* A call of the backend takes effect when it is made; its answer is a step  *)
(* of its own, so other calls run between a read and the write made from it. *)
(* Of a record only its two ages are kept: the ticks its entry still has,    *)
(* and the ticks since its lastHeartbeat.                                    *)
EXTENDS Naturals, FiniteSets

CONSTANTS
  Member,       \* agent identifiers
  Registry,     \* the AgentRegistry instances of one backendUrl
  NoRecord,     \* the entry of an agent that is not registered
  Ttl,          \* config.ttl in ticks; heartbeatInterval is half of it
  MaxAnswers    \* bound: calls of the backend under way

ASSUME RegistryAssumption == Ttl \in Nat \ {0, 1} /\ MaxAnswers \in Nat

VARIABLES
  store,        \* backend: [Member -> NoRecord or a record]
  heart,        \* heartbeatCancellers of each registry: ticks to an agent's next
                \* heartbeat, or Off
  answers,      \* continuations of register, updateStatus and heartbeats
  watch,        \* watchHealth: ticks to the next check (or Off), agents still to
                \* report, and whether they are reported for the present watch
  up,           \* ~isShutdown
  gone          \* history: the agents unregistered at each registry that nothing
                \* but a heartbeat of that registry may have brought back

registryVars == <<store, heart, answers, watch, up, gone>>

Off == 99
TooOld == 2 * Ttl + 1
Entry == [left: 0 .. Ttl, quiet: 0 .. TooOld]
Fresh(quiet) == [left |-> Ttl, quiet |-> quiet]
Answer == [kind: {"join", "update", "beat"}, at: Registry, agent: Member, cancelled: BOOLEAN]
Watch == [left: 0 .. Ttl \cup {Off}, report: SUBSET Member, current: BOOLEAN]

RegistryInit ==
  /\ store = [a \in Member |-> NoRecord]
  /\ heart = [p \in Registry \X Member |-> Off]
  /\ answers = {}
  /\ watch = [g \in Registry |-> [left |-> Off, report |-> {}, current |-> FALSE]]
  /\ up = [g \in Registry |-> TRUE]
  /\ gone = {}

Put(a, r) == store' = [store EXCEPT ![a] = r]
Discovered == {a \in Member : store[a] # NoRecord}

Ask(kind, g, a) ==
  /\ Cardinality(answers) < MaxAnswers
  /\ answers' = answers \cup {[kind |-> kind, at |-> g, agent |-> a, cancelled |-> FALSE]}

\* stopHeartbeat: the loop of an agent is cancelled, in its timer and in its
\* read; another registry's loop for the agent is not.
Cancelled(g, agents) ==
  {IF t.kind = "beat" /\ t.at = g /\ t.agent \in agents THEN [t EXCEPT !.cancelled = TRUE] ELSE t : t \in answers}
Stopped(g, agents) == [p \in Registry \X Member |-> IF p[1] = g /\ p[2] \in agents THEN Off ELSE heart[p]]

\* An agent that is written by register() or an update is nobody's to keep away;
\* one written by a heartbeat of g, only g's.
Returned(a) == gone \ (Registry \X {a})
ReturnedBy(g, a) == gone \ ((Registry \ {g}) \X {a})

(* register: setNX fails when the agent has an entry. lastHeartbeat is the *)
(* caller's, and may be old.                                               *)
Register(g, a, quiet) ==
  /\ up[g] /\ store[a] = NoRecord
  /\ Put(a, Fresh(quiet))
  /\ Ask("join", g, a)
  /\ gone' = Returned(a)
  /\ UNCHANGED <<heart, watch, up>>

\* The entry was created: startHeartbeat replaces whatever loop the agent had.
Registered(t) ==
  /\ t \in answers /\ t.kind = "join"
  /\ heart' = [heart EXCEPT ![<<t.at, t.agent>>] = Ttl \div 2]
  /\ answers' = {u \in Cancelled(t.at, {t.agent}) : u # t}
  /\ UNCHANGED <<store, watch, up, gone>>

Removed(g, a) ==
  /\ heart' = Stopped(g, {a})
  /\ Put(a, NoRecord)
  /\ gone' = gone \cup {<<g, a>>}
  /\ answers' = Cancelled(g, {a})

\* unregister: at any registry, also at one that did not register the agent.
Unregister(g, a) ==
  /\ Removed(g, a)
  /\ UNCHANGED <<watch, up>>

\* updateStatus, updateMetadata: an unknown agent is refused ...
Update(g, a) ==
  /\ store[a] # NoRecord
  /\ Ask("update", g, a)
  /\ UNCHANGED <<store, heart, watch, up, gone>>

\* ... and what was read is written back, whatever became of the entry.
Updated(t) ==
  /\ t \in answers /\ t.kind = "update"
  /\ Put(t.agent, Fresh(0))
  /\ answers' = answers \ {t}
  /\ gone' = Returned(t.agent)
  /\ UNCHANGED <<heart, watch, up>>

\* A heartbeat that finds no entry ends its loop.
HeartbeatFires(g, a) ==
  /\ heart[g, a] = 0
  /\ heart' = [heart EXCEPT ![<<g, a>>] = Off]
  /\ IF store[a] = NoRecord THEN UNCHANGED answers ELSE Ask("beat", g, a)
  /\ UNCHANGED <<store, watch, up, gone>>

\* A heartbeat that goes on writes what it had read, though another registry
\* unregistered the agent meanwhile.
Written(t) ==
  /\ Put(t.agent, Fresh(0))
  /\ heart' = [heart EXCEPT ![<<t.at, t.agent>>] = Ttl \div 2]
  /\ gone' = ReturnedBy(t.at, t.agent)

\* Mutant: a heartbeat does not look whether its loop was cancelled.
BeatsAlways(t) == Written(t)

Beats(t) == IF t.cancelled THEN UNCHANGED <<store, heart, gone>> ELSE Written(t)

HeartbeatAnswered(t) ==
  /\ t \in answers /\ t.kind = "beat"
  /\ Beats(t)
  /\ answers' = answers \ {t}
  /\ UNCHANGED <<watch, up>>

\* stopHealthWatch: a round under way goes on, for nobody.
WatchSet(g, ticks) ==
  watch' = [watch EXCEPT ![g] = [left |-> ticks, report |-> watch[g].report, current |-> FALSE]]
WatchHealth(g) == WatchSet(g, Ttl) /\ UNCHANGED <<store, heart, answers, up, gone>>
StopHealthWatch(g) == WatchSet(g, Off) /\ UNCHANGED <<store, heart, answers, up, gone>>

\* discover(), then every agent whose heartbeat is older than 2 * ttl.
Overdue == {a \in Discovered : store[a].quiet = TooOld}
WatchFires(g) ==
  /\ watch[g].left = 0 /\ watch[g].report = {}
  /\ watch' = [watch EXCEPT ![g] = [left |-> IF Overdue = {} THEN Ttl ELSE Off, report |-> Overdue,
                                    current |-> Overdue # {}]]
  /\ UNCHANGED <<store, heart, answers, up, gone>>

\* The callback, then unregister; the next check is set when all are done.
WatchReports(g, a) ==
  /\ a \in watch[g].report
  /\ Removed(g, a)
  /\ LET ended == watch[g].report = {a} /\ watch[g].current IN
     watch' = [watch EXCEPT ![g] = [left |-> IF ended THEN Ttl ELSE watch[g].left,
                                    report |-> watch[g].report \ {a}, current |-> watch[g].current]]
  /\ UNCHANGED up

\* A callback that throws ends the loop, as does an announcement that is
\* rejected when unregister() has removed the agent: the error is swallowed.
WatchGivesUp(g) ==
  watch' = [watch EXCEPT ![g] = [left |-> watch[g].left, report |-> {}, current |-> FALSE]]
WatchFails(g) ==
  /\ watch[g].report # {}
  /\ WatchGivesUp(g)
  /\ UNCHANGED <<store, heart, answers, up, gone>>
WatchFailsLate(g, a) ==
  /\ a \in watch[g].report
  /\ Removed(g, a)
  /\ WatchGivesUp(g)
  /\ UNCHANGED up

RegistryShutdown(g) ==
  /\ up[g] /\ up' = [up EXCEPT ![g] = FALSE]
  /\ heart' = Stopped(g, Member)
  /\ answers' = Cancelled(g, Member)
  /\ WatchSet(g, Off)
  /\ UNCHANGED <<store, gone>>

RegistryInitialize(g) ==
  /\ ~up[g] /\ up' = [up EXCEPT ![g] = TRUE]
  /\ UNCHANGED <<store, heart, answers, watch, gone>>

\* The clock: timers fire on time, an entry past its time to live is no entry.
Aged(r) ==
  IF r = NoRecord \/ r.left = 0 THEN NoRecord
  ELSE [left |-> r.left - 1, quiet |-> IF r.quiet = TooOld THEN TooOld ELSE r.quiet + 1]
Sooner(ticks) == IF ticks = Off THEN Off ELSE ticks - 1
RegistryTick ==
  /\ \A g \in Registry : watch[g].left # 0 /\ \A a \in Member : heart[g, a] # 0
  /\ store' = [a \in Member |-> Aged(store[a])]
  /\ heart' = [p \in Registry \X Member |-> Sooner(heart[p])]
  /\ watch' = [g \in Registry |-> [left |-> Sooner(watch[g].left), report |-> watch[g].report,
                                   current |-> watch[g].current]]
  /\ UNCHANGED <<answers, up, gone>>

RegistryStep ==
  \/ \E g \in Registry, a \in Member :
       \/ \E quiet \in {0, TooOld} : Register(g, a, quiet)
       \/ Unregister(g, a) \/ Update(g, a) \/ HeartbeatFires(g, a) \/ WatchReports(g, a) \/ WatchFailsLate(g, a)
  \/ \E t \in answers : Registered(t) \/ Updated(t) \/ HeartbeatAnswered(t)
  \/ \E g \in Registry : \/ WatchHealth(g) \/ StopHealthWatch(g) \/ WatchFires(g) \/ WatchFails(g)
                         \/ RegistryShutdown(g) \/ RegistryInitialize(g)

RegistryTypeOK ==
  /\ store \in [Member -> Entry \cup {NoRecord}]
  /\ heart \in [Registry \X Member -> 0 .. Ttl \cup {Off}]
  /\ answers \subseteq Answer
  /\ watch \in [Registry -> Watch]
  /\ up \in [Registry -> BOOLEAN] /\ gone \subseteq Registry \X Member

(* An agent that was unregistered at a registry is not brought back by a      *)
(* heartbeat of that registry, whichever was waiting for its read: only       *)
(* register(), an update that had read the record before it was removed, or   *)
(* the heartbeat of another registry that had, makes it an agent again.       *)
GoneStaysGone == \A p \in gone : store[p[2]] = NoRecord
=============================================================================
