------------------------ MODULE BroadcastCoordinator ------------------------
(* Browser tabs that share work over a broadcast channel (src/threading/       *)
(* BroadcastChannelCoordinator.ts): every tab keeps the tabs it has heard of,  *)
(* one that knows no other makes itself the leader, and the leader assigns     *)
(* the work. Messages of one tab arrive in order, each tab at its own pace.    *)
(* ELECTION and VICTORY are stubs in the code, and left out.                   *)
EXTENDS Naturals, Sequences, FiniteSets

CONSTANTS
  Tab,
  Work,          \* work items, each submitted once
  MaxLoad,       \* maxWorkloadPerTab
  MaxWire        \* bound: messages under way from one tab to another

ASSUME CoordinatorBounds == {MaxLoad, MaxWire} \subseteq Nat \ {0}

VARIABLES
  tabs,          \* "new", "open" or "closed"
  lead,          \* isLeader
  known,         \* knownTabs: [Tab -> SUBSET Tab]
  view,          \* of the tabs it knows: is it leader, its workload
  votes,         \* election timers set
  wire,          \* [sender -> [receiver -> messages]]
  running,       \* items a tab executes: its currentWorkload counts them
  promised       \* pendingWork: items with the tab that waits for them

tabVars == <<tabs, lead, known, view, votes, wire, running, promised>>

NoView == [leads |-> FALSE, load |-> 0]
TabInit ==
  /\ tabs = [t \in Tab |-> "new"]
  /\ lead = [t \in Tab |-> FALSE]
  /\ known = [t \in Tab |-> {}]
  /\ view = [t \in Tab |-> [o \in Tab |-> NoView]]
  /\ votes = [t \in Tab |-> 0]
  /\ wire = [t \in Tab |-> [o \in Tab |-> <<>>]]
  /\ running = {} /\ promised = {}

Open == {t \in Tab : tabs[t] = "open"}

\* broadcast: to every other tab whose channel is open.
TabMessage(type, item, to) == [type |-> type, item |-> item, to |-> to]
Plain(type, t) == TabMessage(type, "none", t)
Sent(net, t, m) == [net EXCEPT ![t] = [o \in Tab |-> IF o \in Open \ {t} THEN Append(@[o], m) ELSE @[o]]]
Roomy(net) == \A t, o \in Tab : Len(net[t][o]) <= MaxWire
Broadcast(t, m) == wire' = Sent(wire, t, m) /\ Roomy(wire')

Heartbeat(t) ==
  [type |-> "heartbeat", leads |-> lead[t], load |-> Cardinality({r \in running : r[1] = t})]

TabInitialize(t) ==
  /\ tabs[t] = "new" /\ tabs' = [tabs EXCEPT ![t] = "open"]
  /\ known' = [known EXCEPT ![t] = {t}]
  /\ votes' = [votes EXCEPT ![t] = 1]
  /\ Broadcast(t, Plain("hello", t))
  /\ UNCHANGED <<lead, view, running, promised>>

\* startLeaderElection's timer: only a tab that knows no other is elected.
ElectionTimer(t) ==
  /\ t \in Open /\ votes[t] > 0
  /\ votes' = [votes EXCEPT ![t] = @ - 1]
  /\ IF known[t] = {t}
     THEN lead' = [lead EXCEPT ![t] = TRUE] /\ Broadcast(t, Plain("announce", t))
     ELSE UNCHANGED <<lead, wire>>
  /\ UNCHANGED <<tabs, known, view, running, promised>>

TabBeats(t) ==
  /\ t \in Open
  /\ Broadcast(t, Heartbeat(t))
  /\ UNCHANGED <<tabs, lead, known, view, votes, running, promised>>

(* startTabMonitoring: timers of a tab in the background are late, so that a *)
(* tab that is well may be taken for dead. One election timer stands for all *)
(* that are set at once.                                                     *)
TabSuspects(t, o) ==
  /\ t \in Open /\ o \in known[t] \ {t}
  /\ known' = [known EXCEPT ![t] = @ \ {o}]
  /\ votes' = [votes EXCEPT ![t] = IF view[t][o].leads THEN 1 ELSE @]
  /\ UNCHANGED <<tabs, lead, view, wire, running, promised>>

(* assignWork: to a known tab with the least work, on the leader's word; the *)
(* leader does not hear its own claim, and nothing takes from its queue.     *)
Candidates(t) ==
  {o \in known[t] : view[t][o].load < MaxLoad /\ \A x \in known[t] : view[t][o].load <= view[t][x].load}
AssignWork(t, item, net) ==
  IF Candidates(t) = {} THEN wire' = net /\ UNCHANGED view
  ELSE \E o \in Candidates(t) :
         /\ view' = [view EXCEPT ![t][o].load = @ + 1]
         /\ wire' = Sent(net, t, TabMessage("claim", item, o))

ExecuteWork(t, item) ==
  /\ t \in Open /\ \A p \in promised : p[1] # item
  /\ promised' = promised \cup {<<item, t, "waiting">>}
  /\ IF lead[t] THEN AssignWork(t, item, wire)
     ELSE wire' = Sent(wire, t, TabMessage("offer", item, t)) /\ UNCHANGED view
  /\ Roomy(wire')
  /\ UNCHANGED <<tabs, lead, known, votes, running>>

ExecuteWorkLocally(t, item) ==
  /\ <<t, item>> \in running /\ running' = running \ {<<t, item>>}
  /\ IF t \in Open THEN Broadcast(t, TabMessage("done", item, t)) ELSE UNCHANGED wire
  /\ UNCHANGED <<tabs, lead, known, view, votes, promised>>

\* Mutant: an announcement is noted, and one's own leadership kept.
StaysLeader(t) == lead
DeposedBy(t) == [lead EXCEPT ![t] = FALSE]

HandleMembership(f, t, m, net) ==
  \/ /\ m.type = "hello"
     /\ known' = [known EXCEPT ![t] = @ \cup {f}]
     /\ view' = [view EXCEPT ![t][f] = NoView]
     /\ wire' = Sent(net, t, Heartbeat(t))
     /\ UNCHANGED lead
  \/ /\ m.type = "goodbye"
     /\ known' = [known EXCEPT ![t] = @ \ {f}]
     /\ wire' = net /\ UNCHANGED <<lead, view>>
  \/ /\ m.type = "heartbeat"
     /\ view' = IF f \in known[t] THEN [view EXCEPT ![t][f] = [leads |-> m.leads, load |-> m.load]] ELSE view
     /\ wire' = net /\ UNCHANGED <<lead, known>>
  \/ /\ m.type = "announce"
     /\ lead' = DeposedBy(t)
     /\ view' = IF f \in known[t] THEN [view EXCEPT ![t][f].leads = TRUE] ELSE view
     /\ wire' = net /\ UNCHANGED known

HandleWork(t, m, net) ==
  \/ /\ m.type = "offer"
     /\ IF lead[t] THEN AssignWork(t, m.item, net) ELSE wire' = net /\ UNCHANGED view
     /\ UNCHANGED <<running, promised>>
  \/ /\ m.type = "claim"
     /\ running' = IF m.to = t THEN running \cup {<<t, m.item>>} ELSE running
     /\ wire' = net /\ UNCHANGED <<view, promised>>
  \/ /\ m.type = "done"
     /\ promised' = {IF p = <<m.item, t, "waiting">> THEN <<m.item, t, "settled">> ELSE p : p \in promised}
     /\ wire' = net /\ UNCHANGED <<view, running>>

HandleBroadcast(f, t) ==
  /\ t \in Open /\ wire[f][t] # <<>>
  /\ LET m == Head(wire[f][t])
         net == [wire EXCEPT ![f][t] = Tail(@)] IN
       \/ HandleMembership(f, t, m, net) /\ UNCHANGED <<running, promised>>
       \/ HandleWork(t, m, net) /\ UNCHANGED <<lead, known>>
  /\ Roomy(wire')
  /\ UNCHANGED <<tabs, votes>>

\* shutdown, or the end of a tab that says nothing.
TabCloses(t) ==
  /\ t \in Open /\ tabs' = [tabs EXCEPT ![t] = "closed"]
  /\ \E last \in {wire} \cup {Sent(wire, t, Plain("goodbye", t))} :
       wire' = [o \in Tab |-> [last[o] EXCEPT ![t] = <<>>]]
  /\ Roomy(wire')
  /\ UNCHANGED <<lead, known, view, votes, running, promised>>

TabNext ==
  \E t \in Tab :
    \/ TabInitialize(t) \/ ElectionTimer(t) \/ TabBeats(t) \/ TabCloses(t)
    \/ \E o \in Tab : TabSuspects(t, o) \/ HandleBroadcast(o, t)
    \/ \E item \in Work : ExecuteWork(t, item) \/ ExecuteWorkLocally(t, item)

TabTypeOK ==
  /\ tabs \in [Tab -> {"new", "open", "closed"}] /\ lead \in [Tab -> BOOLEAN]
  /\ known \in [Tab -> SUBSET Tab]
  /\ view \in [Tab -> [Tab -> [leads: BOOLEAN, load: Nat]]]
  /\ votes \in [Tab -> 0 .. 1]
  /\ running \subseteq Tab \X Work /\ Roomy(wire)
  /\ promised \subseteq Work \X Tab \X {"waiting", "settled"}

(* However tabs open, close, fall silent and elect themselves, two open tabs  *)
(* are leaders only until one hears the other's announcement.                 *)
Announced(p, q) == \E i \in DOMAIN wire[p][q] : wire[p][q][i].type = "announce"
TwoLeadersOnlyInFlight ==
  \A p, q \in Open : p # q /\ lead[p] /\ lead[q] => Announced(p, q) \/ Announced(q, p)
=============================================================================
