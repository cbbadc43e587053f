----------------------------- MODULE AgentGraph -----------------------------
(* Executing a graph of agents (src/cross-cutting/AgentGraph.ts): an execute() *)
(* call walks along the edges and calls execute() for each of several branches *)
(* that leave a node; all of them, and executions of other callers, share one  *)
(* paused flag and one pauseResolver. Contexts, the log and the same edge      *)
(* added twice are left out.                                                   *)
EXTENDS Naturals, FiniteSets, FiniteSetsExt, Graphs

CONSTANTS
  Vertex,         \* node ids
  Kind,           \* their types: "task", "condition", "spawn", "human-input"
  FirstEdges,     \* edges at the start
  Start,          \* nodes where callers start
  MaxIterations,  \* maxIterations
  MaxSpawned,     \* maxSpawnedAgents
  MaxWalks,       \* bound: execute() calls
  MaxEdits        \* bound: changes of the graph

ASSUME GraphAssumption ==
  /\ IsFiniteSet(Vertex) /\ Vertex # {}
  /\ Kind \in [Vertex -> {"task", "condition", "spawn", "human-input"}] /\ Start \subseteq Vertex
  /\ FirstEdges \subseteq Vertex \X Vertex \X {"next", "error"}
  /\ {MaxIterations, MaxSpawned, MaxWalks, MaxEdits} \subseteq Nat

\* execute() calls, callers' and branches', in the order they began.
Walk == 1 .. MaxWalks
NoWalk == 0

VARIABLES
  nodes, edges,   \* the graph
  walks,          \* per execute() call: the node, what it is doing, iteration, the call it is a branch of
  graphPaused,    \* paused
  resolver,       \* pauseResolver
  active,         \* walks whose sub-agent is listed as running
  edits,          \* changes of the graph so far
  overlapped      \* history: walks that waited when another began to wait

graphVars == <<nodes, edges, walks, graphPaused, resolver, active, edits, overlapped>>
shapeVars == <<nodes, edges, edits>>
pauseVars == <<graphPaused, resolver, overlapped>>

Unused == [at |-> CHOOSE v \in Vertex : TRUE, doing |-> "unused", steps |-> 0, of |-> NoWalk]
WaitsIn == {"human", "paused"}
\* The next k walks.
NextWalks(k) ==
  LET free == {w \in Walk : walks[w] = Unused} IN
  {us \in kSubset(k, free) : \A u \in us, w \in free \ us : u < w}
Waiting == {w \in Walk : walks[w].doing \in WaitsIn}

GraphInit ==
  /\ nodes = Vertex /\ edges = FirstEdges /\ walks = [w \in Walk |-> Unused]
  /\ graphPaused = FALSE /\ resolver = NoWalk /\ active = {} /\ edits = 0 /\ overlapped = {}

Starts(v, of) == [at |-> v, doing |-> "top", steps |-> 0, of |-> of]
Does(w, what) == walks' = [walks EXCEPT ![w].doing = what]
Enters(w, what) == walks' = [walks EXCEPT ![w].doing = what, ![w].steps = @ + 1]
GoesTo(w, v) == walks' = [walks EXCEPT ![w].at = v, ![w].doing = "top"]
Waits(w) == resolver' = w /\ overlapped' = overlapped \cup (Waiting \ {w})

ExecuteGraph(w, v) ==
  /\ {w} \in NextWalks(1)
  /\ walks' = [walks EXCEPT ![w] = Starts(v, NoWalk)]
  /\ UNCHANGED <<shapeVars, pauseVars, active>>

\* The rest of the loop body: to the next node, or into branches of its own.
Outgoing(v, labels) == {e \in edges : e[1] = v /\ e[3] \in labels}
FollowEdges(w) ==
  LET next == {e[2] : e \in Outgoing(walks[w].at, {"next"})} IN
  \/ Cardinality(next) = 0 /\ Does(w, "done")
  \/ \E v \in next : Cardinality(next) = 1 /\ GoesTo(w, v)
  \/ /\ Cardinality(next) > 1
     /\ \E us \in NextWalks(Cardinality(next)) :
          LET to == CHOOSE f \in [us -> next] : \A v \in next : \E u \in us : f[u] = v IN
          walks' = [u \in Walk |-> IF u \in us THEN Starts(to[u], w)
                                   ELSE IF u = w THEN [walks[w] EXCEPT !.doing = "join"] ELSE walks[u]]

\* A spawn beyond the limit only notes an error.
SpawnHere(w) ==
  IF Cardinality(active) < MaxSpawned
  THEN Enters(w, "spawn") /\ \E ids \in {{}, {u \in active : walks[u].at = walks[w].at}} : active' = (active \ ids) \cup {w}
  ELSE Enters(w, "leaving") /\ UNCHANGED active
HumanHere(w) == Enters(w, "human") /\ graphPaused' = TRUE /\ Waits(w)
VisitNode(w) ==
  \/ walks[w].at \notin nodes /\ Does(w, "done") /\ UNCHANGED <<pauseVars, active>>
  \/ /\ walks[w].at \in nodes
     /\ CASE Kind[walks[w].at] = "task" -> Enters(w, "task") /\ UNCHANGED <<pauseVars, active>>
          [] Kind[walks[w].at] = "condition" -> Enters(w, "condition") /\ UNCHANGED <<pauseVars, active>>
          [] Kind[walks[w].at] = "spawn" -> SpawnHere(w) /\ UNCHANGED pauseVars
          [] OTHER -> HumanHere(w) /\ UNCHANGED active

LoopTop(w) ==
  /\ walks[w].doing = "top"
  /\ \/ walks[w].steps >= MaxIterations /\ Does(w, "done") /\ UNCHANGED <<pauseVars, active>>
     \/ walks[w].steps < MaxIterations /\ graphPaused /\ Does(w, "paused") /\ Waits(w) /\ UNCHANGED <<graphPaused, active>>
     \/ walks[w].steps < MaxIterations /\ ~graphPaused /\ VisitNode(w)
  /\ UNCHANGED shapeVars

\* condition() names the next node, whatever the edges say, or throws.
Condition(w) ==
  /\ walks[w].doing = "condition"
  /\ Does(w, "done") \/ \E v \in Vertex : GoesTo(w, v)
  /\ UNCHANGED <<shapeVars, pauseVars, active>>

NodeExecuted(w) ==
  /\ walks[w].doing \in {"task", "leaving"} /\ FollowEdges(w)
  /\ UNCHANGED <<shapeVars, pauseVars, active>>
\* It throws or times out: the error edge, or the end.
NodeFails(w) ==
  /\ walks[w].doing = "task"
  /\ IF Outgoing(walks[w].at, {"error"}) = {} THEN Does(w, "done")
     ELSE \E e \in Outgoing(walks[w].at, {"error"}) : GoesTo(w, e[2])
  /\ UNCHANGED <<shapeVars, pauseVars, active>>
SubAgentEnds(w) ==
  /\ walks[w].doing = "spawn" /\ active' = active \ {w}
  /\ FollowEdges(w) /\ UNCHANGED <<shapeVars, pauseVars>>
\* Its function goes on: only the list forgets it.
TerminateSubAgent(w) ==
  /\ w \in active /\ active' = active \ {w}
  /\ UNCHANGED <<shapeVars, pauseVars, walks>>

Resumes(w) == w = resolver
GraphResume ==
  /\ graphPaused' = FALSE /\ resolver' = NoWalk
  /\ walks' = [w \in Walk |-> IF Resumes(w)
       THEN [walks[w] EXCEPT !.doing = IF @ = "human" THEN "answered" ELSE "woken"] ELSE walks[w]]
  /\ UNCHANGED <<shapeVars, active, overlapped>>

\* Continuations of the two waits: the flag of whoever else waits is cleared, too.
HumanAnswered(w) ==
  /\ walks[w].doing = "answered" /\ graphPaused' = FALSE
  /\ FollowEdges(w) /\ UNCHANGED <<shapeVars, resolver, overlapped, active>>
Woken(w) == walks[w].doing = "woken" /\ VisitNode(w) /\ UNCHANGED shapeVars

BranchesJoin(w) ==
  /\ walks[w].doing = "join"
  /\ \A u \in Walk : walks[u].of = w => walks[u].doing = "done"
  /\ Does(w, "done") /\ UNCHANGED <<shapeVars, pauseVars, active>>

\* Changes of the graph: an edge that would close a cycle is refused.
WouldCreateCycle(from, to) == ConnectionsIn([node |-> Vertex, edge |-> {<<e[1], e[2]>> : e \in edges}])[to, from]
Edited == edits < MaxEdits /\ edits' = edits + 1 /\ UNCHANGED <<walks, pauseVars, active>>
AddNode(v) == nodes' = nodes \cup {v} /\ UNCHANGED edges /\ Edited
RemoveNode(v) ==
  /\ v \in nodes /\ nodes' = nodes \ {v}
  /\ edges' = {e \in edges : v \notin {e[1], e[2]}} /\ Edited
AddEdge(from, to, label) ==
  /\ ~WouldCreateCycle(from, to)
  /\ edges' = edges \cup {<<from, to, label>>} /\ UNCHANGED nodes /\ Edited
RemoveEdge(e) == e \in edges /\ edges' = edges \ {e} /\ UNCHANGED nodes /\ Edited
\* The resolver is kept, and so are the walks.
GraphReset ==
  /\ edits < MaxEdits /\ edits' = edits + 1
  /\ nodes' = {} /\ edges' = {} /\ active' = {} /\ graphPaused' = FALSE
  /\ UNCHANGED <<walks, resolver, overlapped>>

GraphNext ==
  \/ GraphResume \/ GraphReset
  \/ \E w \in Walk : \/ LoopTop(w) \/ Condition(w) \/ NodeExecuted(w) \/ NodeFails(w) \/ SubAgentEnds(w)
                     \/ TerminateSubAgent(w) \/ HumanAnswered(w) \/ Woken(w) \/ BranchesJoin(w)
                     \/ \E v \in Start : ExecuteGraph(w, v)
  \/ \E v \in Vertex : AddNode(v) \/ RemoveNode(v)
  \/ \E from, to \in Vertex, label \in {"next", "error"} : AddEdge(from, to, label)
  \/ \E e \in edges : RemoveEdge(e)

GraphTypeOK ==
  /\ nodes \subseteq Vertex /\ edges \subseteq Vertex \X Vertex \X {"next", "error"}
  /\ walks \in [Walk -> [at : Vertex, steps : 0 .. MaxIterations + 1, of : Walk \cup {NoWalk},
       doing : WaitsIn \cup {"unused", "top", "task", "condition", "spawn", "leaving", "answered", "woken", "join", "done"}]]
  /\ graphPaused \in BOOLEAN /\ resolver \in Walk \cup {NoWalk} /\ active \subseteq Walk
  /\ edits \in 0 .. MaxEdits /\ overlapped \subseteq Walk

(* There is one resolver for all: a walk that waits, for a human or because   *)
(* another one does, is out of reach of resume() only if another began to     *)
(* wait while it did. A walk alone always gets its answer.                    *)
OnlyOverlappedStrand == \A w \in Waiting : w = resolver \/ w \in overlapped
=============================================================================
