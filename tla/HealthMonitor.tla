--------------------------- MODULE HealthMonitor ---------------------------
(* The health monitor (src/distributed/HealthMonitor.ts) over the registry: a *)
(* loop of rounds that judges every agent by the records it read when the     *)
(* round began, and recovers the work of an agent first found dead.           *)
EXTENDS AgentRegistry

CONSTANTS
  Timeout,      \* heartbeatTimeout, in ticks
  MaxRounds     \* bound: rounds under way (an old watch's may go on)

VARIABLES
  checks,       \* healthChecks: the status last given to each agent
  timers,       \* the loop: ticks to the next round, or Off
  rounds,       \* checkAllAgents() calls under way
  recoveries    \* history: recoveries begun since the agent was last not dead

monitorVars == <<checks, timers, rounds, recoveries>>

Health == {"unknown", "healthy", "degraded", "dead"}
\* A round: the agents read and not yet judged with what their records said,
\* the agent whose recovery it awaits, and whether its watch was stopped.
Round == [todo: SUBSET (Member \X Health), busy: SUBSET Member, cancelled: BOOLEAN]

MonitorInit ==
  /\ checks = [a \in Member |-> "unknown"]
  /\ timers = Off
  /\ rounds = {}
  /\ recoveries = [a \in Member |-> 0]

\* computeHealth
HealthOf(r) ==
  IF r.quiet > Timeout THEN "dead" ELSE IF 2 * r.quiet > Timeout THEN "degraded" ELSE "healthy"

\* stopWatching: the round under way goes on, but sets no further timer.
Stopping == rounds' = {[r EXCEPT !.cancelled = TRUE] : r \in rounds}
WatchAgents ==
  /\ Stopping /\ timers' = 1
  /\ UNCHANGED <<checks, recoveries>>
StopWatching ==
  /\ Stopping /\ timers' = Off
  /\ UNCHANGED <<checks, recoveries>>

RoundFires ==
  /\ timers = 0 /\ Cardinality(rounds) < MaxRounds
  /\ timers' = Off
  /\ rounds' = rounds \cup {[todo |-> {<<a, HealthOf(store[a])>> : a \in Discovered},
                             busy |-> {}, cancelled |-> FALSE]}
  /\ UNCHANGED <<checks, recoveries>>

\* Mutant: an agent found dead is noted once its recovery is over.
NotedLater(a, health) == IF health = "dead" THEN checks ELSE [checks EXCEPT ![a] = health]
Noted(a, health) == [checks EXCEPT ![a] = health]

\* An agent found dead that was not dead before is recovered, if autoRecover.
Judge(r, a, health) ==
  /\ r \in rounds /\ r.busy = {} /\ <<a, health>> \in r.todo
  /\ checks' = Noted(a, health)
  /\ LET recover == health = "dead" /\ checks[a] # "dead" IN
     /\ rounds' = (rounds \ {r}) \cup {[r EXCEPT !.todo = @ \ {<<a, health>>},
                                                 !.busy = IF recover THEN {a} ELSE {}]}
     /\ recoveries' = [recoveries EXCEPT ![a] = IF health # "dead" THEN 0 ELSE IF recover THEN @ + 1 ELSE @]
  /\ UNCHANGED timers

\* recoverFromFailure: the coordinator and the parent answered, or failed.
Recovered(r) ==
  /\ r \in rounds /\ r.busy # {}
  /\ rounds' = (rounds \ {r}) \cup {[r EXCEPT !.busy = {}]}
  /\ UNCHANGED <<checks, timers, recoveries>>

\* discover() failed: the error is reported and the next round set.
RoundFails ==
  /\ timers = 0 /\ timers' = 1
  /\ UNCHANGED <<checks, rounds, recoveries>>

\* The round is over: the next is set unless the watch was stopped.
RoundEnds(r) ==
  /\ r \in rounds /\ r.busy = {} /\ r.todo = {}
  /\ rounds' = rounds \ {r}
  /\ timers' = IF r.cancelled THEN timers ELSE 1
  /\ UNCHANGED <<checks, recoveries>>

MonitorShutdown ==
  /\ Stopping /\ timers' = Off
  /\ checks' = [a \in Member |-> "unknown"]
  /\ recoveries' = [a \in Member |-> 0]

MonitorStep ==
  \/ WatchAgents \/ StopWatching \/ RoundFires \/ RoundFails \/ MonitorShutdown
  \/ \E r \in rounds : \/ \E a \in Member, health \in Health : Judge(r, a, health)
                       \/ Recovered(r) \/ RoundEnds(r)

FleetInit == RegistryInit /\ MonitorInit
fleetVars == <<registryVars, monitorVars>>
FleetNext ==
  \/ RegistryStep /\ UNCHANGED monitorVars
  \/ MonitorStep /\ UNCHANGED registryVars
  \/ /\ RegistryTick
     /\ timers # 0 /\ timers' = Sooner(timers)
     /\ UNCHANGED <<checks, rounds, recoveries>>

FleetTypeOK ==
  /\ RegistryTypeOK
  /\ checks \in [Member -> Health]
  /\ timers \in {0, 1, Off}
  /\ rounds \subseteq Round
  /\ recoveries \in [Member -> Nat]

(* Two rounds may overlap when watchAgents() is called during one, and each   *)
(* waits for the recoveries it began. All the same an agent's work is         *)
(* recovered once for a silence: not again before a round found it alive.     *)
SilenceRecoveredOnce == \A a \in Member : recoveries[a] <= 1
=============================================================================
