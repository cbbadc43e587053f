-------------------------------- MODULE MCFleet --------------------------------
(* The parts by which agents, tabs, stores and workers know of each other: each *)
(* behaviour is one of them, with several instances whose steps interleave.     *)
EXTENDS HealthMonitor, AgentMessageBus, DistributedHierarchy, RedisTransport,
        MemoryTransport, TabTransport, BroadcastCoordinator, VersionedPool,
        AgentGraph, MemoryStore, TLC

CONSTANTS n1, n2, j1, j2, v1, v2, v3, v4

MCFirstNodes == n1 :> Top @@ n2 :> n1
MCPattern == {<<"a">>, <<"a", "b">>, <<"*">>, <<">">>, <<"a", ">">>, <<"*", "b">>}
MCUrgency == j1 :> 1 @@ j2 :> 2
MCKind == v1 :> "task" @@ v2 :> "human-input" @@ v3 :> "spawn" @@ v4 :> "condition"
MCFirstEdges == {<<v1, v2, "next">>, <<v1, v3, "next">>, <<v3, v4, "next">>}

VARIABLE focus

agentVars == <<fleetVars, busVars, hierarchyVars>>
transportVars == <<linkVars, memoryVars, pageVars, tabVars>>
workVars == <<poolVars, graphVars, memoryStoreVars>>

\* A part that does not run has one initial state.
Init ==
  /\ focus \in {"fleet", "registries", "bus", "hierarchy", "redis", "memory", "pages", "tabs", "pool", "graph", "stores"}
  /\ FleetInit /\ BusInit /\ HierarchyInit /\ LinkInit /\ MemoryInit /\ PageInit /\ TabInit
  /\ PoolInit /\ GraphInit /\ MemoryStoreInit
  /\ focus = "redis" \/ redisUp
  /\ focus = "stores" \/ resolution = "manual"

\* The registries are many and watch the agents themselves where no health monitor
\* runs; one is at work, without its watch, where it does.
Monitored == CHOOSE g \in Registry : TRUE
OneAtWork ==
  /\ \A t \in answers' : t.at = Monitored
  /\ \A g \in Registry \ {Monitored} : up'[g] = up[g]
  /\ gone' \subseteq {Monitored} \X Member
  /\ watch' = watch

AgentsStep ==
  \/ focus = "fleet" /\ FleetNext /\ OneAtWork /\ UNCHANGED <<busVars, hierarchyVars>>
  \/ focus = "registries" /\ FleetNext /\ UNCHANGED <<monitorVars, busVars, hierarchyVars>>
  \/ focus = "bus" /\ BusNext /\ UNCHANGED <<fleetVars, hierarchyVars>>
  \/ focus = "hierarchy" /\ HierarchyNext /\ UNCHANGED <<fleetVars, busVars>>

TransportStep ==
  \/ focus = "redis" /\ LinkNext /\ UNCHANGED <<memoryVars, pageVars, tabVars>>
  \/ focus = "memory" /\ MemoryNext /\ UNCHANGED <<linkVars, pageVars, tabVars>>
  \/ focus = "pages" /\ PageNext /\ UNCHANGED <<linkVars, memoryVars, tabVars>>
  \/ focus = "tabs" /\ TabNext /\ UNCHANGED <<linkVars, memoryVars, pageVars>>

\* Bound: vector clocks tell apart who writes, the other merges what is written.
OneVaries ==
  \A s \in Store, k \in Key :
     LET e == kept'[s][k] IN
     e = Missing \/ IF resolution = "vector-clock" THEN e.value = CHOOSE v \in Value : TRUE
                    ELSE e.by = CHOOSE a \in Author : TRUE

WorkStep ==
  \/ focus = "pool" /\ PoolNext /\ UNCHANGED <<graphVars, memoryStoreVars>>
  \/ focus = "graph" /\ GraphNext /\ UNCHANGED <<poolVars, memoryStoreVars>>
  \/ focus = "stores" /\ MemoryStoreNext /\ OneVaries /\ UNCHANGED <<poolVars, graphVars>>

Next ==
  /\ UNCHANGED focus
  /\ \/ AgentsStep /\ UNCHANGED <<transportVars, workVars>>
     \/ TransportStep /\ UNCHANGED <<agentVars, workVars>>
     \/ WorkStep /\ UNCHANGED <<agentVars, transportVars>>

Spec == Init /\ [][Next]_<<focus, agentVars, transportVars, workVars>>

TypeOK ==
  /\ FleetTypeOK /\ BusTypeOK /\ HierarchyTypeOK
  /\ LinkTypeOK /\ MemoryTypeOK /\ PageTypeOK /\ TabTypeOK
  /\ PoolTypeOK /\ GraphTypeOK /\ MemoryStoreTypeOK

(* Tabs and stores that do not see each other agree once they have heard of    *)
(* each other: on one leader, and on what they hold, but for entries whose     *)
(* times and versions disagree, and for who wrote the same value as the same   *)
(* version and when.                                                           *)
ReplicasAgree == TwoLeadersOnlyInFlight /\ MergesConverge

(* A message reaches whom it is for: what a bus or the Redis transport holds  *)
(* stays until it is handed over or its time is up, whoever matches a topic   *)
(* hears it, and nobody hears it twice.                                       *)
DeliveredAsDue == NoMessageVanishes /\ AcceptedIsKept /\ [](MatchesHear /\ NobodyHearsTwice)

(* Work that was begun goes on, and in its turn: a worker of the versioned    *)
(* pool takes a second task, or one while it is paused, only if it was resumed *)
(* at work or paused twice, no task of the pool is lost or doubled, and a walk *)
(* through the agent graph waits for good only where two waited at once.      *)
WorkStaysInHand == OutOfTurnOnlyIf /\ [](EachTaskOnce /\ OnlyOverlappedStrand)
=============================================================================
