------------------------ MODULE DistributedHierarchy ------------------------
(* Parents and children in the registry (src/distributed/                     *)
(* DistributedHierarchy.ts). A record is changed by unregistering the agent   *)
(* and registering it again from what was read earlier; spawns and the        *)
(* reassignment of orphans run side by side, one step from await to await.    *)
(* register() throws while the registry is shut down, and both calls announce *)
(* what they did, to a bus and to listeners that may reject it (~told): the   *)
(* caller then stops half way.                                                *)
(* The children in a record are left out: no operation of the class reads     *)
(* them back, getChildren goes by the parentId of the others.                 *)
EXTENDS Naturals, FiniteSets

CONSTANTS
  Node,        \* agents; a spawned child gets an unused one
  Top,         \* parentId of an agent without parent
  Absent,      \* no record
  FirstNodes,  \* the agents at the start, with their parents
  MaxOps       \* bound: spawns and reassignments under way

ASSUME HierarchyAssumption ==
  /\ MaxOps \in Nat /\ Top \notin Node /\ Absent \notin Node \cup {Top}
  /\ DOMAIN FirstNodes \subseteq Node /\ \A n \in DOMAIN FirstNodes : FirstNodes[n] \in Node \cup {Top}

VARIABLES
  parentOf,    \* the registry: the parentId of each agent, or Absent
  moves,       \* spawnChild and handleOrphans calls under way
  open,        \* the registry is not shut down
  born,        \* history: agents registered at the start or as children
  departed,    \* history: agents unregistered by someone else
  unplaced     \* history: agents whose second half of a rewriting was rejected

hierarchyVars == <<parentOf, moves, open, born, departed, unplaced>>

Recorded == {n \in Node : parentOf[n] # Absent}
SpawnCall == [kind: {"child", "drop", "restore"}, parent: Node, child: Node, of: Node \cup {Top}]
Reassignment == [kind: {"next", "carry"}, orphans: SUBSET Node, now: Node, to: Node]

HierarchyInit ==
  /\ parentOf = [n \in Node |-> IF n \in DOMAIN FirstNodes THEN FirstNodes[n] ELSE Absent]
  /\ moves = {} /\ open = TRUE /\ born = DOMAIN FirstNodes /\ departed = {} /\ unplaced = {}

Recreate(n, parent) == parentOf' = [parentOf EXCEPT ![n] = parent]
Erase(n) == Recreate(n, Absent)
Then(op, ahead) == moves' = (moves \ {op}) \cup ahead

\* spawnChild: the parent is read; its child gets an identifier of its own.
TakenNames == born \cup {s.child : s \in {o \in moves : o.kind = "child"}}
SpawnChild(p, c) ==
  /\ Cardinality(moves) < MaxOps
  /\ parentOf[p] # Absent /\ c \notin TakenNames
  /\ moves' = moves \cup {[kind |-> "child", parent |-> p, child |-> c, of |-> parentOf[p]]}
  /\ UNCHANGED <<parentOf, open, born, departed, unplaced>>

RegisterChild(op, told) ==
  /\ op \in moves /\ op.kind = "child"
  /\ IF open THEN Recreate(op.child, op.parent) /\ born' = born \cup {op.child} ELSE UNCHANGED <<parentOf, born>>
  /\ Then(op, IF open /\ told THEN {[op EXCEPT !.kind = "drop"]} ELSE {})
  /\ UNCHANGED <<open, departed, unplaced>>

\* unregister() asks no questions: the parent may be gone, or be new again. It
\* is removed, whatever becomes of the announcement.
UnregisterParent(op, told) ==
  /\ op \in moves /\ op.kind = "drop"
  /\ Erase(op.parent)
  /\ Then(op, IF told THEN {[op EXCEPT !.kind = "restore"]} ELSE {})
  /\ unplaced' = IF told THEN unplaced ELSE unplaced \cup {op.parent}
  /\ UNCHANGED <<open, born, departed>>

\* register() of an agent that was taken out: it throws when the registry is shut
\* down, or when the agent is back already.
BackOr(n) ==
  /\ departed' = IF open THEN departed \ {n} ELSE departed
  /\ unplaced' = IF open \/ parentOf[n] # Absent THEN unplaced \ {n} ELSE unplaced \cup {n}
  /\ UNCHANGED <<open, born>>

\* register() throws if another spawn restored the parent first: the spawn is
\* rejected although its child is registered.
RestoreParent(op) ==
  /\ op \in moves /\ op.kind = "restore"
  /\ IF open /\ parentOf[op.parent] = Absent THEN Recreate(op.parent, op.of) ELSE UNCHANGED parentOf
  /\ Then(op, {})
  /\ BackOr(op.parent)

\* handleOrphans(parent, "reassign"): the orphans and the grandparent are read.
GetChildren(p) == {n \in Node : parentOf[n] = p}
HandleOrphans(p) ==
  /\ Cardinality(moves) < MaxOps
  /\ parentOf[p] \in Node /\ GetChildren(p) # {}
  /\ moves' = moves \cup {[kind |-> "next", orphans |-> GetChildren(p), now |-> p, to |-> parentOf[p]]}
  /\ UNCHANGED <<parentOf, open, born, departed, unplaced>>

TakeOrphan(op, n, told) ==
  /\ op \in moves /\ op.kind = "next" /\ n \in op.orphans
  /\ Erase(n)
  /\ Then(op, IF told THEN {[op EXCEPT !.kind = "carry", !.now = n, !.orphans = @ \ {n}]} ELSE {})
  /\ unplaced' = IF told THEN unplaced ELSE unplaced \cup {n}
  /\ UNCHANGED <<open, born, departed>>

\* Mutant: the orphan is registered only if the new parent is there.
GiveIfParent(op) ==
  IF open /\ parentOf[op.now] = Absent /\ parentOf[op.to] # Absent THEN Recreate(op.now, op.to)
  ELSE UNCHANGED parentOf
Give(op) ==
  IF open /\ parentOf[op.now] = Absent THEN Recreate(op.now, op.to) ELSE UNCHANGED parentOf

\* register() throws if the orphan is back already: the other orphans are left alone.
GiveOrphan(op, told) ==
  /\ op \in moves /\ op.kind = "carry"
  /\ Give(op) /\ BackOr(op.now)
  /\ LET goesOn == open /\ parentOf[op.now] = Absent /\ told /\ op.orphans # {}
     IN  Then(op, IF goesOn THEN {[op EXCEPT !.kind = "next"]} ELSE {})

\* An agent is unregistered from elsewhere: its parent's record still lists it.
AgentLeaves(n) ==
  /\ n \in Recorded
  /\ Erase(n) /\ departed' = departed \cup {n}
  /\ UNCHANGED <<moves, open, born, unplaced>>

\* shutdown() and initialize() of the registry.
RegistryTurns ==
  /\ open' = ~open
  /\ UNCHANGED <<parentOf, moves, born, departed, unplaced>>

HierarchyNext ==
  \/ \E p, c \in Node : SpawnChild(p, c)
  \/ \E n \in Node : HandleOrphans(n) \/ AgentLeaves(n)
  \/ \E op \in moves, told \in BOOLEAN :
       \/ RegisterChild(op, told) \/ UnregisterParent(op, told) \/ GiveOrphan(op, told)
       \/ \E n \in Node : TakeOrphan(op, n, told)
  \/ \E op \in moves : RestoreParent(op)
  \/ RegistryTurns

HierarchyTypeOK ==
  /\ parentOf \in [Node -> Node \cup {Top, Absent}]
  /\ moves \subseteq SpawnCall \cup Reassignment
  /\ open \in BOOLEAN
  /\ {born, departed, unplaced} \subseteq SUBSET Node

(* Records are rewritten by removing and re-creating them, from stale reads    *)
(* and by several calls at once. However they interleave, an agent that nobody *)
(* else unregistered has a record, or is in the hands of a call that is about  *)
(* to create it again, unless the registry rejected its rewriting half way:    *)
(* an announcement of its removal failed, or the registry was shut down before *)
(* it was registered again.                                                    *)
InHands(n) ==
  \E op \in moves : \/ op.kind = "restore" /\ op.parent = n
                    \/ op.kind = "carry" /\ op.now = n
NobodyFallsOut == \A n \in born : n \in Recorded \cup departed \cup unplaced \/ InHands(n)
=============================================================================
