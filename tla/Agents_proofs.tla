---------------------------- MODULE Agents_proofs ----------------------------
(***************************************************************************)
(* How agents know of each other and how messages get across, for any      *)
(* number of agents, buses, messages, requests, subscriptions and tabs:    *)
(* who is in the registry, who is recovered, who falls out of the          *)
(* hierarchy, what becomes of requests and messages, what the Redis        *)
(* transport keeps, who hears what, and who leads the tabs.                *)
(***************************************************************************)
EXTENDS HealthMonitor, AgentMessageBus, DistributedHierarchy,
        RedisTransport, MemoryTransport, TabTransport, BroadcastCoordinator,
        SequenceTheorems, FiniteSetTheorems, WellFoundedInduction, TLAPS

FleetSpec == FleetInit /\ [][FleetNext]_fleetVars
BusSpec == BusInit /\ [][BusNext]_busVars
HierarchySpec == HierarchyInit /\ [][HierarchyNext]_hierarchyVars

-----------------------------------------------------------------------------
(* The message bus.                                                        *)

\* A call of subscribe() that is under way has set a handler of the transport.
JoinersAreWired == \A b \in Bus : joining[b] <= wires[b]

BusInv == BusTypeOK /\ JoinersAreWired /\ RequestsAreAnswered

LEMMA BusStarts == BusInit => BusInv
BY BusAssumption DEF BusInit, BusInv, BusTypeOK, JoinersAreWired, RequestsAreAnswered, Outcome

\* What is done to requests keeps them in the table for as long as they wait.
LEMMA RequestsKeep ==
  ASSUME BusInv, NEW b \in Bus, NEW r \in Request,
         MakeRequest(b, r) \/ Respond(b, r) \/ RequestTimesOut(b, r)
  PROVE  BusInv'
<1> USE DEF BusInv, BusTypeOK, JoinersAreWired
<1>1. UNCHANGED <<busUp, mailVars>>
  BY DEF MakeRequest, Respond, RequestTimesOut
<1>2. pending' \subseteq Bus \X Request /\ outcome' \in [Request -> Outcome]
  BY DEF MakeRequest, Respond, RequestTimesOut, Settle, Outcome
<1>3. RequestsAreAnswered'
  <2>1. CASE MakeRequest(b, r)
    BY <2>1 DEF MakeRequest, RequestsAreAnswered
  <2>2. CASE Respond(b, r) \/ RequestTimesOut(b, r)
    BY <2>2 DEF Respond, RequestTimesOut, Settle, RequestsAreAnswered
  <2>3. QED
    BY <2>1, <2>2
<1>4. QED
  BY <1>1, <1>2, <1>3 DEF mailVars

\* A bus that is shut down settles the requests it forgets.
LEMMA ShutdownKeeps ==
  ASSUME BusInv, NEW b \in Bus, BusShutdown(b)
  PROVE  BusInv'
<1> USE DEF BusInv, BusTypeOK, JoinersAreWired
<1>1. UNCHANGED <<wires, joining, sending, buffered, handed, lapsed>>
      /\ busUp' = busUp \ {b} /\ subscribed' = subscribed \ {b}
  BY DEF BusShutdown
<1>2. /\ pending' = {p \in pending : p[1] # b}
      /\ outcome' = [r \in Request |-> IF <<b, r>> \in pending /\ outcome[r] = "waiting"
                                       THEN "shutdown" ELSE outcome[r]]
  BY DEF BusShutdown, RejectAll, Settle
<1>3. RequestsAreAnswered'
  BY <1>2 DEF RequestsAreAnswered
<1>4. pending' \subseteq Bus \X Request /\ outcome' \in [Request -> Outcome]
  BY <1>2 DEF Outcome
<1>5. QED
  BY <1>1, <1>3, <1>4

\* The calls that leave requests alone.
LEMMA MailKeeps ==
  ASSUME BusInv, UNCHANGED <<pending, outcome>>, NEW b \in Bus,
         \/ Subscribe(b) \/ Subscribed(b) \/ Unsubscribe(b) \/ BusInitialize(b)
         \/ \E m \in Message : SendTo(b, m) \/ Published(b, m)
  PROVE  BusInv'
<1>1. RequestsAreAnswered'
  BY DEF BusInv, RequestsAreAnswered
<1>2. pending' \subseteq Bus \X Request /\ outcome' \in [Request -> Outcome]
  BY DEF BusInv, BusTypeOK, Outcome
<1> USE BusAssumption DEF BusInv, BusTypeOK, JoinersAreWired
<1>3. ASSUME NEW m \in Message, SendTo(b, m) PROVE BusInv'
  BY <1>1, <1>2, <1>3 DEF SendTo
<1>4. ASSUME NEW m \in Message, Published(b, m) PROVE BusInv'
  <2>1. buffered' \in [Bus -> SUBSET Message] /\ handed' \subseteq Message
    BY <1>4 DEF Published
  <2>2. QED
    BY <1>1, <1>2, <1>4, <2>1 DEF Published
<1>5. ASSUME Subscribe(b) PROVE BusInv'
  <2>1. wires[b] \in 0 .. MaxWires /\ joining[b] \in 0 .. MaxWires /\ joining[b] <= wires[b]
    OBVIOUS
  <2>2. wires' = [wires EXCEPT ![b] = wires[b] + 1] /\ joining' = [joining EXCEPT ![b] = joining[b] + 1]
        /\ wires[b] < MaxWires
    BY <1>5 DEF Subscribe
  <2>3. wires' \in [Bus -> 0 .. MaxWires] /\ joining' \in [Bus -> 0 .. MaxWires] /\ JoinersAreWired'
    BY <2>1, <2>2
  <2>4. QED
    BY <1>1, <1>2, <1>5, <2>3 DEF Subscribe
<1>6. ASSUME Subscribed(b) PROVE BusInv'
  <2>1. wires[b] \in 0 .. MaxWires /\ joining[b] \in 0 .. MaxWires /\ joining[b] <= wires[b]
    OBVIOUS
  <2>2. wires' = wires /\ joining' = [joining EXCEPT ![b] = joining[b] - 1] /\ joining[b] > 0
    BY <1>6 DEF Subscribed
  <2>3. joining' \in [Bus -> 0 .. MaxWires] /\ JoinersAreWired'
    BY <2>1, <2>2
  <2>4. buffered' \in [Bus -> SUBSET Message] /\ handed' \subseteq Message /\ lapsed' \subseteq Message
    BY <1>6 DEF Subscribed, Drained
  <2>5. QED
    BY <1>1, <1>2, <1>6, <2>3, <2>4 DEF Subscribed
<1>7. ASSUME Unsubscribe(b) \/ BusInitialize(b) PROVE BusInv'
  BY <1>1, <1>2, <1>7 DEF Unsubscribe, BusInitialize, mailVars
<1>8. QED
  BY <1>3, <1>4, <1>5, <1>6, <1>7

LEMMA BusKeeps == BusInv /\ [BusNext]_busVars => BusInv'
<1> SUFFICES ASSUME BusInv, [BusNext]_busVars PROVE BusInv'
  OBVIOUS
<1>1. ASSUME NEW b \in Bus,
             \/ Subscribe(b) \/ Subscribed(b) \/ Unsubscribe(b) \/ BusInitialize(b)
             \/ \E m \in Message : SendTo(b, m) \/ Published(b, m)
      PROVE  BusInv'
  <2>1. UNCHANGED <<pending, outcome>>
    BY <1>1 DEF Subscribe, Subscribed, Unsubscribe, BusInitialize, SendTo, Published
  <2>2. QED
    BY <1>1, <2>1, MailKeeps
<1>2. ASSUME UNCHANGED busVars PROVE BusInv'
  BY <1>2 DEF busVars, BusInv, BusTypeOK, JoinersAreWired, RequestsAreAnswered
<1>3. QED
  BY <1>1, <1>2, RequestsKeep, ShutdownKeeps DEF BusNext

\* A promise that is still open has an entry in its bus's table, whose timer will
\* settle it: none is left hanging, whatever subscribe(), shutdown(), timers and
\* late responses do in between.
THEOREM RequestsAreNeverForgotten == BusSpec => []RequestsAreAnswered
<1>1. BusInv => RequestsAreAnswered
  BY DEF BusInv
<1>2. QED
  BY <1>1, BusStarts, BusKeeps, PTL DEF BusSpec

\* Every step keeps what is known of a message.
LEMMA BusStepKeepsKnown ==
  ASSUME BusTypeOK, [BusNext]_busVars
  PROVE  Known \subseteq Known'
<1> SUFFICES ASSUME NEW m \in Known PROVE m \in Known'
  OBVIOUS
<1> USE DEF BusTypeOK, Known
<1>1. ASSUME NEW b \in Bus, NEW n \in Message, SendTo(b, n) PROVE m \in Known'
  BY <1>1 DEF SendTo
<1>2. ASSUME NEW b \in Bus, NEW n \in Message, Published(b, n) PROVE m \in Known'
  <2>1. /\ sending' = sending \ {<<b, n>>} /\ lapsed' = lapsed /\ handed \subseteq handed'
        /\ n \in handed' \/ n \in buffered'[b]
        /\ \A c \in Bus : buffered[c] \subseteq buffered'[c]
    BY <1>2 DEF Published
  <2>2. QED
    BY <2>1
<1>3. ASSUME NEW b \in Bus, Subscribed(b) PROVE m \in Known'
  BY <1>3 DEF Subscribed, Drained
<1>4. ASSUME NEW b \in Bus, Subscribe(b) \/ Unsubscribe(b) \/ BusShutdown(b) \/ BusInitialize(b) PROVE m \in Known'
  BY <1>4 DEF Subscribe, Unsubscribe, BusShutdown, BusInitialize, mailVars
<1>5. ASSUME NEW b \in Bus, NEW r \in Request, MakeRequest(b, r) \/ Respond(b, r) \/ RequestTimesOut(b, r)
      PROVE  m \in Known'
  BY <1>5 DEF MakeRequest, Respond, RequestTimesOut, mailVars
<1>6. ASSUME UNCHANGED busVars PROVE m \in Known'
  BY <1>6 DEF busVars
<1>7. QED
  BY <1>1, <1>2, <1>3, <1>4, <1>5, <1>6 DEF BusNext

\* A message handed to sendTo() is never lost sight of: it was handled, waits in a
\* buffer or in the transport, or outlived its time to live.
THEOREM MessagesAreKept == BusSpec => NoMessageVanishes
<1>1. BusInv /\ [BusNext]_busVars => [\A m \in Message : m \in Known => m \in Known']_busVars
  BY BusStepKeepsKnown DEF BusInv
<1>2. QED
  BY <1>1, BusStarts, BusKeeps, PTL DEF BusSpec, NoMessageVanishes

-----------------------------------------------------------------------------
(* The registry.                                                           *)

\* The heartbeats of an agent that was unregistered were cancelled with it, at the
\* registry where it was.
GoneBeatsAreCancelled ==
  \A p \in gone : \A t \in answers : t.kind = "beat" /\ t.at = p[1] /\ t.agent = p[2] => t.cancelled

RegistryInv == RegistryTypeOK /\ GoneStaysGone /\ GoneBeatsAreCancelled

LEMMA CancelledTypes ==
  ASSUME RegistryTypeOK, NEW g \in Registry, NEW agents \in SUBSET Member
  PROVE  /\ Cancelled(g, agents) \subseteq Answer
         /\ Stopped(g, agents) \in [Registry \X Member -> 0 .. Ttl \cup {Off}]
         /\ \A t \in Cancelled(g, agents) :
              t.kind = "beat" => t.cancelled \/ (t \in answers /\ ~(t.at = g /\ t.agent \in agents))
<1> USE DEF RegistryTypeOK
<1>1. \A t \in answers : t \in Answer /\ [t EXCEPT !.cancelled = TRUE] \in Answer
  BY DEF Answer
<1>2. ASSUME NEW t \in Cancelled(g, agents)
      PROVE  t \in Answer /\ (t.kind = "beat" => t.cancelled \/ (t \in answers /\ ~(t.at = g /\ t.agent \in agents)))
  <2>1. PICK u \in answers : t = IF u.kind = "beat" /\ u.at = g /\ u.agent \in agents
                                 THEN [u EXCEPT !.cancelled = TRUE] ELSE u
    BY <1>2 DEF Cancelled
  <2>2. u \in [kind: {"join", "update", "beat"}, at: Registry, agent: Member, cancelled: BOOLEAN]
    BY DEF Answer
  <2>3. CASE u.kind = "beat" /\ u.at = g /\ u.agent \in agents
    BY <1>1, <2>1, <2>2, <2>3
  <2>4. CASE ~(u.kind = "beat" /\ u.at = g /\ u.agent \in agents)
    BY <1>1, <2>1, <2>2, <2>4
  <2>5. QED
    BY <2>3, <2>4
<1>3. Stopped(g, agents) \in [Registry \X Member -> 0 .. Ttl \cup {Off}]
  BY DEF Stopped
<1>4. QED
  BY <1>2, <1>3

LEMMA FreshIsEntry ==
  /\ 0 \in 0 .. TooOld /\ TooOld \in 0 .. TooOld /\ Ttl \in 0 .. Ttl /\ Ttl \div 2 \in 0 .. Ttl
  /\ Fresh(0) \in Entry /\ Fresh(TooOld) \in Entry
BY RegistryAssumption DEF TooOld, Fresh, Entry

LEMMA RegistryStarts == RegistryInit => RegistryInv
BY DEF RegistryInit, RegistryInv, RegistryTypeOK, Watch, GoneStaysGone, GoneBeatsAreCancelled

\* An agent that is taken out of the registry, by whomever.
LEMMA RemovedKeeps ==
  ASSUME RegistryInv, NEW g \in Registry, NEW a \in Member, Removed(g, a), up' = up, watch' \in [Registry -> Watch]
  PROVE  RegistryInv'
<1> USE DEF RegistryInv
<1>1. /\ answers' \subseteq Answer /\ heart' \in [Registry \X Member -> 0 .. Ttl \cup {Off}]
      /\ \A t \in answers' : t.kind = "beat" => t.cancelled \/ (t \in answers /\ ~(t.at = g /\ t.agent = a))
  <2>1. RegistryTypeOK /\ {a} \in SUBSET Member
    OBVIOUS
  <2>2. heart' = Stopped(g, {a}) /\ answers' = Cancelled(g, {a})
    BY DEF Removed
  <2>3. /\ Cancelled(g, {a}) \subseteq Answer /\ Stopped(g, {a}) \in [Registry \X Member -> 0 .. Ttl \cup {Off}]
        /\ \A t \in Cancelled(g, {a}) :
             t.kind = "beat" => t.cancelled \/ (t \in answers /\ ~(t.at = g /\ t.agent \in {a}))
    BY <2>1, CancelledTypes
  <2>4. QED
    BY <2>2, <2>3
<1>2. store' = [store EXCEPT ![a] = NoRecord] /\ gone' = gone \cup {<<g, a>>}
  BY DEF Removed, Put
<1>3. RegistryTypeOK'
  BY <1>1, <1>2 DEF RegistryTypeOK
<1>4. GoneStaysGone'
  BY <1>2 DEF RegistryTypeOK, GoneStaysGone
<1>5. GoneBeatsAreCancelled'
  BY <1>1, <1>2 DEF GoneBeatsAreCancelled
<1>6. QED
  BY <1>3, <1>4, <1>5

\* A call whose answer is still to come is one of an agent with a record.
LEMMA AskKeeps ==
  ASSUME RegistryTypeOK, GoneBeatsAreCancelled, NEW g \in Registry, NEW a \in Member,
         NEW kind \in {"join", "update", "beat"},
         Ask(kind, g, a), gone' \subseteq gone, <<g, a>> \notin gone'
  PROVE  answers' \subseteq Answer /\ GoneBeatsAreCancelled'
<1> DEFINE t == [kind |-> kind, at |-> g, agent |-> a, cancelled |-> FALSE]
<1>1. answers' = answers \cup {t} /\ t \in Answer /\ t.agent = a /\ t.at = g
  BY DEF Ask, Answer
<1> HIDE DEF t
<1>2. \A p \in gone' : p \in Registry \X Member /\ p = <<p[1], p[2]>>
  BY DEF RegistryTypeOK
<1>3. QED
  BY <1>1, <1>2 DEF RegistryTypeOK, GoneBeatsAreCancelled

\* What callers do about an agent.
LEMMA CallerKeeps ==
  ASSUME RegistryInv, NEW g \in Registry, NEW a \in Member,
         Unregister(g, a) \/ Update(g, a) \/ \E quiet \in {0, TooOld} : Register(g, a, quiet)
  PROVE  RegistryInv'
<1> USE DEF RegistryInv
<1>1. ASSUME NEW quiet \in {0, TooOld}, Register(g, a, quiet) PROVE RegistryInv'
  <2>1. store' = [store EXCEPT ![a] = Fresh(quiet)] /\ Fresh(quiet) \in Entry
    BY <1>1, FreshIsEntry DEF Register, Put
  <2>2. gone' = gone \ (Registry \X {a}) /\ UNCHANGED <<heart, watch, up>> /\ Ask("join", g, a)
    BY <1>1 DEF Register, Returned
  <2>3. gone' \subseteq gone /\ \A p \in gone' : p[2] \in Member /\ p[2] # a
    BY <2>2 DEF RegistryTypeOK
  <2>4. answers' \subseteq Answer /\ GoneBeatsAreCancelled'
    BY <2>2, <2>3, AskKeeps
  <2>5. RegistryTypeOK'
    BY <2>1, <2>2, <2>4 DEF RegistryTypeOK
  <2>6. GoneStaysGone'
    BY <2>1, <2>3 DEF RegistryTypeOK, GoneStaysGone
  <2>7. QED
    BY <2>4, <2>5, <2>6
<1>2. CASE Unregister(g, a)
  <2>1. Removed(g, a) /\ up' = up /\ watch' = watch
    BY <1>2 DEF Unregister
  <2>2. watch' \in [Registry -> Watch]
    BY <2>1 DEF RegistryTypeOK
  <2>3. QED
    BY <2>1, <2>2, RemovedKeeps
<1>3. CASE Update(g, a)
  <2>1. Ask("update", g, a) /\ UNCHANGED <<store, heart, watch, up, gone>> /\ <<g, a>> \notin gone
    BY <1>3 DEF Update, GoneStaysGone
  <2>2. answers' \subseteq Answer /\ GoneBeatsAreCancelled'
    BY <2>1, AskKeeps
  <2>3. QED
    BY <2>1, <2>2 DEF RegistryTypeOK, GoneStaysGone
<1>4. QED
  BY <1>1, <1>2, <1>3

\* The answers of the backend: a heartbeat that was cancelled writes nothing, and one
\* that was not is of a registry where the agent was not unregistered.
LEMMA AnswerKeeps ==
  ASSUME RegistryInv, NEW t \in answers, Registered(t) \/ Updated(t) \/ HeartbeatAnswered(t)
  PROVE  RegistryInv'
<1> USE DEF RegistryInv
<1>1. t \in Answer /\ t.agent \in Member /\ {t.agent} \in SUBSET Member /\ t.at \in Registry
      /\ <<t.at, t.agent>> \in Registry \X Member
  BY DEF RegistryTypeOK, Answer
<1> DEFINE a == t.agent
           g == t.at
<1>2. CASE Registered(t)
  <2>1. /\ heart' = [heart EXCEPT ![<<g, a>>] = Ttl \div 2] /\ UNCHANGED <<store, watch, up, gone>>
        /\ answers' \subseteq Cancelled(g, {a})
    BY <1>2 DEF Registered
  <2>2. /\ Cancelled(g, {a}) \subseteq Answer
        /\ \A u \in Cancelled(g, {a}) : u.kind = "beat" => u.cancelled \/ (u \in answers /\ ~(u.at = g /\ u.agent \in {a}))
    BY <1>1, CancelledTypes
  <2>3. RegistryTypeOK' /\ GoneStaysGone'
    BY <1>1, <2>1, <2>2, FreshIsEntry DEF RegistryTypeOK, GoneStaysGone
  <2>4. GoneBeatsAreCancelled'
    BY <2>1, <2>2 DEF GoneBeatsAreCancelled
  <2>5. QED
    BY <2>3, <2>4
<1>3. CASE Updated(t)
  <2>1. /\ store' = [store EXCEPT ![a] = Fresh(0)] /\ answers' = answers \ {t} /\ gone' = gone \ (Registry \X {a})
        /\ UNCHANGED <<heart, watch, up>>
    BY <1>3 DEF Updated, Put, Returned
  <2>2. gone' \subseteq gone /\ \A p \in gone' : p[2] \in Member /\ p[2] # a
    BY <2>1 DEF RegistryTypeOK
  <2>3. RegistryTypeOK' /\ GoneStaysGone'
    BY <1>1, <2>1, <2>2, FreshIsEntry DEF RegistryTypeOK, GoneStaysGone
  <2>4. GoneBeatsAreCancelled'
    BY <2>1, <2>2 DEF GoneBeatsAreCancelled
  <2>5. QED
    BY <2>3, <2>4
<1>4. CASE HeartbeatAnswered(t)
  <2>1. t.kind = "beat" /\ Beats(t) /\ answers' = answers \ {t} /\ UNCHANGED <<watch, up>>
    BY <1>4 DEF HeartbeatAnswered
  <2>2. CASE t.cancelled
    <3>1. UNCHANGED <<store, heart, gone>>
      BY <2>1, <2>2 DEF Beats
    <3>2. QED
      BY <2>1, <3>1 DEF RegistryTypeOK, GoneStaysGone, GoneBeatsAreCancelled
  <2>3. CASE ~t.cancelled
    <3>1. /\ store' = [store EXCEPT ![a] = Fresh(0)] /\ heart' = [heart EXCEPT ![<<g, a>>] = Ttl \div 2]
          /\ gone' = gone \ ((Registry \ {g}) \X {a})
      BY <2>1, <2>3 DEF Beats, Written, Put, ReturnedBy
    <3>2. \A p \in gone : p[1] \in Registry /\ p[2] \in Member /\ ~(p[1] = g /\ p[2] = a)
      BY <2>1, <2>3 DEF GoneBeatsAreCancelled, RegistryTypeOK
    <3>3. gone' \subseteq gone /\ \A p \in gone' : p[2] \in Member /\ p[2] # a
      BY <3>1, <3>2 DEF RegistryTypeOK
    <3>4. RegistryTypeOK' /\ GoneStaysGone'
      BY <1>1, <2>1, <3>1, <3>3, FreshIsEntry DEF RegistryTypeOK, GoneStaysGone
    <3>5. GoneBeatsAreCancelled'
      BY <2>1, <3>3 DEF GoneBeatsAreCancelled
    <3>6. QED
      BY <3>4, <3>5
  <2>4. QED
    BY <2>2, <2>3
<1>5. QED
  BY <1>2, <1>3, <1>4

LEMMA GivingUpTypes ==
  ASSUME RegistryTypeOK, NEW g \in Registry, WatchGivesUp(g)
  PROVE  watch' \in [Registry -> Watch]
<1> DEFINE now == [left |-> watch[g].left, report |-> {}, current |-> FALSE]
<1>1. watch \in [Registry -> Watch] /\ now \in Watch /\ watch' = [watch EXCEPT ![g] = now]
  BY DEF RegistryTypeOK, Watch, WatchGivesUp
<1> HIDE DEF now
<1>2. QED
  BY <1>1

\* The timers.
LEMMA TimersKeep ==
  ASSUME RegistryInv, NEW g \in Registry, NEW a \in Member,
         HeartbeatFires(g, a) \/ WatchReports(g, a) \/ WatchFailsLate(g, a)
  PROVE  RegistryInv'
<1> USE DEF RegistryInv
<1>1. CASE HeartbeatFires(g, a)
  <2>1. heart' = [heart EXCEPT ![<<g, a>>] = Off] /\ UNCHANGED <<store, watch, up, gone>>
    BY <1>1 DEF HeartbeatFires
  <2>2. answers' \subseteq Answer /\ GoneBeatsAreCancelled'
    <3>1. CASE store[a] = NoRecord
      BY <1>1, <2>1, <3>1 DEF HeartbeatFires, RegistryTypeOK, GoneBeatsAreCancelled
    <3>2. CASE store[a] # NoRecord
      <4>1. Ask("beat", g, a) /\ <<g, a>> \notin gone'
        BY <1>1, <2>1, <3>2 DEF HeartbeatFires, GoneStaysGone
      <4>2. QED
        BY <2>1, <4>1, AskKeeps
    <3>3. QED
      BY <3>1, <3>2
  <2>3. RegistryTypeOK' /\ GoneStaysGone'
    BY <2>1, <2>2 DEF RegistryTypeOK, GoneStaysGone
  <2>4. QED
    BY <2>2, <2>3
<1>2. CASE WatchReports(g, a)
  <2> DEFINE ended == watch[g].report = {a} /\ watch[g].current
             now == [left |-> IF ended THEN Ttl ELSE watch[g].left,
                     report |-> watch[g].report \ {a}, current |-> watch[g].current]
  <2>1. Removed(g, a) /\ up' = up /\ watch' = [watch EXCEPT ![g] = now]
    BY <1>2 DEF WatchReports
  <2>2. watch \in [Registry -> Watch] /\ now \in Watch
    BY FreshIsEntry DEF RegistryTypeOK, Watch
  <2> HIDE DEF now
  <2>3. watch' \in [Registry -> Watch]
    BY <2>1, <2>2
  <2>4. QED
    BY <2>1, <2>3, RemovedKeeps
<1>3. CASE WatchFailsLate(g, a)
  <2>1. Removed(g, a) /\ up' = up /\ WatchGivesUp(g)
    BY <1>3 DEF WatchFailsLate
  <2>2. watch' \in [Registry -> Watch]
    BY <2>1, GivingUpTypes
  <2>3. QED
    BY <2>1, <2>2, RemovedKeeps
<1>4. QED
  BY <1>1, <1>2, <1>3

LEMMA WatchKeeps ==
  ASSUME RegistryInv, NEW g \in Registry, WatchFires(g) \/ WatchFails(g)
  PROVE  RegistryInv'
<1>1. watch \in [Registry -> Watch] /\ Ttl \in 0 .. Ttl
  BY FreshIsEntry DEF RegistryInv, RegistryTypeOK
<1>2. UNCHANGED <<store, heart, answers, up, gone>>
  BY DEF WatchFires, WatchFails
<1>3. watch' \in [Registry -> Watch]
  <2>1. CASE WatchFires(g)
    <3>1. Overdue \in SUBSET Member
      BY DEF Overdue, Discovered
    <3> DEFINE now == [left |-> IF Overdue = {} THEN Ttl ELSE Off, report |-> Overdue, current |-> Overdue # {}]
    <3>2. watch' = [watch EXCEPT ![g] = now]
      BY <2>1 DEF WatchFires
    <3>3. (Overdue # {}) \in BOOLEAN /\ (IF Overdue = {} THEN Ttl ELSE Off) \in 0 .. Ttl \cup {Off}
      BY <1>1
    <3> HIDE DEF Overdue
    <3>4. now \in Watch
      BY <3>1, <3>3 DEF Watch
    <3> HIDE DEF now
    <3>5. QED
      BY <1>1, <3>2, <3>4
  <2>2. CASE WatchFails(g)
    BY <2>2, GivingUpTypes DEF WatchFails, RegistryInv
  <2>3. QED
    BY <2>1, <2>2
<1>4. QED
  BY <1>2, <1>3 DEF RegistryInv, RegistryTypeOK, GoneStaysGone, GoneBeatsAreCancelled

\* Switching a registry and its watch on and off.
LEMMA SwitchKeeps ==
  ASSUME RegistryInv, NEW g \in Registry,
         WatchHealth(g) \/ StopHealthWatch(g) \/ RegistryShutdown(g) \/ RegistryInitialize(g)
  PROVE  RegistryInv'
<1> USE DEF RegistryInv
<1>1. watch \in [Registry -> Watch] /\ Ttl \in 0 .. Ttl
  BY FreshIsEntry DEF RegistryTypeOK
<1>2. ASSUME NEW n \in {Ttl, Off}, WatchSet(g, n) PROVE watch' \in [Registry -> Watch]
  <2> DEFINE now == [left |-> n, report |-> watch[g].report, current |-> FALSE]
  <2>1. now \in Watch /\ watch' = [watch EXCEPT ![g] = now]
    BY <1>1, <1>2 DEF Watch, WatchSet
  <2> HIDE DEF now
  <2>2. QED
    BY <1>1, <2>1
<1>3. watch' \in [Registry -> Watch]
  BY <1>1, <1>2 DEF WatchHealth, StopHealthWatch, RegistryShutdown, RegistryInitialize
<1>4. UNCHANGED <<store, gone>> /\ up' \in [Registry -> BOOLEAN]
  BY DEF WatchHealth, StopHealthWatch, RegistryShutdown, RegistryInitialize, RegistryTypeOK
<1>5. CASE WatchHealth(g) \/ StopHealthWatch(g) \/ RegistryInitialize(g)
  <2>1. UNCHANGED <<heart, answers>>
    BY <1>5 DEF WatchHealth, StopHealthWatch, RegistryInitialize
  <2>2. QED
    BY <1>3, <1>4, <2>1 DEF RegistryTypeOK, GoneStaysGone, GoneBeatsAreCancelled
<1>6. CASE RegistryShutdown(g)
  <2>1. /\ heart' = Stopped(g, Member) /\ answers' = Cancelled(g, Member) /\ Member \in SUBSET Member
        /\ RegistryTypeOK
    BY <1>6 DEF RegistryShutdown
  <2>2. /\ answers' \subseteq Answer /\ heart' \in [Registry \X Member -> 0 .. Ttl \cup {Off}]
        /\ \A t \in answers' : t.kind = "beat" => t.cancelled \/ (t \in answers /\ ~(t.at = g /\ t.agent \in Member))
    BY <2>1, CancelledTypes
  <2>3. RegistryTypeOK' /\ GoneStaysGone'
    BY <1>3, <1>4, <2>2 DEF RegistryTypeOK, GoneStaysGone
  <2>4. GoneBeatsAreCancelled'
    BY <1>4, <2>2 DEF GoneBeatsAreCancelled
  <2>5. QED
    BY <2>3, <2>4
<1>7. QED
  BY <1>5, <1>6

\* Time passes: a record grows older, and is gone when its time to live is over.
LEMMA TickKeeps ==
  ASSUME RegistryInv, RegistryTick
  PROVE  RegistryInv'
<1> USE DEF RegistryInv
<1>1. /\ store' = [a \in Member |-> Aged(store[a])]
      /\ heart' = [p \in Registry \X Member |-> Sooner(heart[p])]
      /\ \A g \in Registry : watch[g].left # 0 /\ \A a \in Member : heart[<<g, a>>] # 0
      /\ watch' = [g \in Registry |-> [left |-> Sooner(watch[g].left), report |-> watch[g].report,
                                       current |-> watch[g].current]]
      /\ UNCHANGED <<answers, up, gone>>
  BY DEF RegistryTick
<1>2. ASSUME NEW r \in Entry \cup {NoRecord} PROVE Aged(r) \in Entry \cup {NoRecord}
  BY <1>2, RegistryAssumption DEF Aged, Entry, TooOld
<1>3. ASSUME NEW n \in 0 .. Ttl \cup {Off}, n # 0 PROVE Sooner(n) \in 0 .. Ttl \cup {Off}
  BY <1>3, RegistryAssumption DEF Sooner, Off
<1>4. store' \in [Member -> Entry \cup {NoRecord}]
  BY <1>1, <1>2 DEF RegistryTypeOK
<1>5. heart' \in [Registry \X Member -> 0 .. Ttl \cup {Off}]
  <2>1. ASSUME NEW p \in Registry \X Member PROVE Sooner(heart[p]) \in 0 .. Ttl \cup {Off}
    <3>1. PICK g \in Registry, a \in Member : p = <<g, a>>
      OBVIOUS
    <3>2. heart[p] \in 0 .. Ttl \cup {Off} /\ heart[p] # 0
      BY <1>1, <3>1 DEF RegistryTypeOK
    <3>3. QED
      BY <1>3, <3>2
  <2>2. QED
    BY <1>1, <2>1
<1>6. watch' \in [Registry -> Watch]
  <2>1. ASSUME NEW g \in Registry
        PROVE  [left |-> Sooner(watch[g].left), report |-> watch[g].report, current |-> watch[g].current] \in Watch
    <3>1. watch[g] \in Watch
      BY DEF RegistryTypeOK
    <3>2. Sooner(watch[g].left) \in 0 .. Ttl \cup {Off}
      BY <1>1, <1>3, <3>1 DEF Watch
    <3>3. QED
      BY <3>1, <3>2 DEF Watch
  <2>2. QED
    BY <1>1, <2>1
<1>7. RegistryTypeOK'
  BY <1>1, <1>4, <1>5, <1>6 DEF RegistryTypeOK
<1>8. GoneStaysGone' /\ GoneBeatsAreCancelled'
  BY <1>1 DEF GoneStaysGone, GoneBeatsAreCancelled, Aged, RegistryTypeOK
<1>9. QED
  BY <1>7, <1>8

LEMMA RegistryStepKeeps == RegistryInv /\ RegistryStep => RegistryInv'
<1> SUFFICES ASSUME RegistryInv, RegistryStep PROVE RegistryInv'
  OBVIOUS
<1>1. QED
  BY CallerKeeps, AnswerKeeps, TimersKeep, WatchKeeps, SwitchKeeps DEF RegistryStep

-----------------------------------------------------------------------------
(* The health monitor.                                                     *)

MonitorTypeOK ==
  /\ checks \in [Member -> Health]
  /\ timers \in {0, 1, Off}
  /\ rounds \subseteq Round
  /\ recoveries \in [Member -> Nat]

\* An agent whose work was recovered is one noted as dead.
OnlyTheDeadAreRecovered ==
  \A a \in Member : recoveries[a] # 0 => recoveries[a] = 1 /\ checks[a] = "dead"

MonitorInv == MonitorTypeOK /\ OnlyTheDeadAreRecovered

LEMMA MonitorStarts == MonitorInit => MonitorInv
BY DEF MonitorInit, MonitorInv, MonitorTypeOK, OnlyTheDeadAreRecovered, Health

\* A round judges an agent by what it had read.
LEMMA JudgeKeeps ==
  ASSUME MonitorInv, NEW r \in rounds, NEW a \in Member, NEW health \in Health, Judge(r, a, health)
  PROVE  MonitorInv'
<1> USE DEF MonitorInv, MonitorTypeOK
<1> DEFINE recover == health = "dead" /\ checks[a] # "dead"
           after == [r EXCEPT !.todo = r.todo \ {<<a, health>>}, !.busy = IF recover THEN {a} ELSE {}]
<1>1. /\ checks' = [checks EXCEPT ![a] = health] /\ timers' = timers
      /\ rounds' = (rounds \ {r}) \cup {after}
      /\ recoveries' = [recoveries EXCEPT ![a] = IF health # "dead" THEN 0
                                                ELSE IF recover THEN recoveries[a] + 1 ELSE recoveries[a]]
  BY DEF Judge, Noted
<1>2. r \in [todo: SUBSET (Member \X Health), busy: SUBSET Member, cancelled: BOOLEAN]
  BY DEF Round
<1>3. r.todo \ {<<a, health>>} \in SUBSET (Member \X Health) /\ (IF recover THEN {a} ELSE {}) \in SUBSET Member
  BY <1>2
<1>4. after \in Round
  BY <1>2, <1>3 DEF Round
<1> HIDE DEF after
<1>5. MonitorTypeOK'
  BY <1>1, <1>4
<1>6. OnlyTheDeadAreRecovered'
  BY <1>1 DEF OnlyTheDeadAreRecovered
<1>7. QED
  BY <1>5, <1>6

LEMMA HealthIsKnown == \A r : HealthOf(r) \in Health
BY DEF HealthOf, Health

LEMMA RoundsKeep ==
  ASSUME MonitorInv, NEW r \in rounds, Recovered(r) \/ RoundEnds(r)
  PROVE  MonitorInv'
<1> USE DEF MonitorInv, MonitorTypeOK
<1>1. r \in [todo: SUBSET (Member \X Health), busy: SUBSET Member, cancelled: BOOLEAN]
  BY DEF Round
<1>2. [r EXCEPT !.busy = {}] \in Round
  BY <1>1 DEF Round
<1>3. rounds' \subseteq Round /\ timers' \in {0, 1, Off} /\ UNCHANGED <<checks, recoveries>>
  BY <1>2 DEF Recovered, RoundEnds
<1>4. QED
  BY <1>3 DEF OnlyTheDeadAreRecovered

\* The loop, and what starts and stops it.
LEMMA LoopKeeps ==
  ASSUME MonitorInv, WatchAgents \/ StopWatching \/ RoundFires \/ RoundFails \/ MonitorShutdown
  PROVE  MonitorInv'
<1> USE DEF MonitorInv, MonitorTypeOK
<1>1. \A r \in rounds : [r EXCEPT !.cancelled = TRUE] \in Round
  BY DEF Round
<1>2. Stopping => rounds' \subseteq Round
  BY <1>1 DEF Stopping
<1>3. CASE WatchAgents \/ StopWatching \/ RoundFails
  BY <1>2, <1>3 DEF WatchAgents, StopWatching, RoundFails, OnlyTheDeadAreRecovered
<1>4. CASE MonitorShutdown
  BY <1>2, <1>4 DEF MonitorShutdown, Health, OnlyTheDeadAreRecovered
<1>5. CASE RoundFires
  <2> DEFINE todo == {<<a, HealthOf(store[a])>> : a \in Discovered}
  <2>1. todo \in SUBSET (Member \X Health)
    BY HealthIsKnown DEF Discovered
  <2>2. timers' = Off /\ rounds' = rounds \cup {[todo |-> todo, busy |-> {}, cancelled |-> FALSE]}
        /\ UNCHANGED <<checks, recoveries>>
    BY <1>5 DEF RoundFires
  <2> HIDE DEF todo
  <2>3. {} \in SUBSET Member /\ FALSE \in BOOLEAN
    OBVIOUS
  <2>4. [todo |-> todo, busy |-> {}, cancelled |-> FALSE] \in Round
    BY <2>1, <2>3 DEF Round
  <2>5. rounds' \subseteq Round
    BY <2>2, <2>4
  <2>6. QED
    BY <2>2, <2>5 DEF OnlyTheDeadAreRecovered
<1>6. QED
  BY <1>3, <1>4, <1>5

FleetInv == RegistryInv /\ MonitorInv

LEMMA FleetStarts == FleetInit => FleetInv
BY RegistryStarts, MonitorStarts DEF FleetInit, FleetInv

LEMMA FleetKeeps == FleetInv /\ [FleetNext]_fleetVars => FleetInv'
<1> SUFFICES ASSUME FleetInv, [FleetNext]_fleetVars PROVE FleetInv'
  OBVIOUS
<1>1. UNCHANGED registryVars => RegistryInv'
  BY DEF FleetInv, registryVars, RegistryInv, RegistryTypeOK, GoneStaysGone, GoneBeatsAreCancelled
<1>2. UNCHANGED <<checks, rounds, recoveries>> /\ timers' \in {0, 1, Off} => MonitorInv'
  BY DEF FleetInv, MonitorInv, MonitorTypeOK, OnlyTheDeadAreRecovered
<1>3. UNCHANGED monitorVars => MonitorInv'
  BY <1>2 DEF FleetInv, MonitorInv, MonitorTypeOK, monitorVars
<1>4. ASSUME RegistryStep, UNCHANGED monitorVars PROVE FleetInv'
  BY <1>3, <1>4, RegistryStepKeeps DEF FleetInv
<1>5. ASSUME MonitorStep, UNCHANGED registryVars PROVE FleetInv'
  <2>1. MonitorInv'
    BY <1>5, JudgeKeeps, RoundsKeep, LoopKeeps DEF FleetInv, MonitorStep
  <2>2. QED
    BY <1>1, <1>5, <2>1 DEF FleetInv
<1>6. ASSUME RegistryTick, timers # 0, timers' = Sooner(timers), UNCHANGED <<checks, rounds, recoveries>>
      PROVE  FleetInv'
  <2>1. timers' \in {0, 1, Off}
    BY <1>6 DEF FleetInv, MonitorInv, MonitorTypeOK, Sooner, Off
  <2>2. QED
    BY <1>2, <1>6, <2>1, TickKeeps DEF FleetInv
<1>7. ASSUME UNCHANGED fleetVars PROVE FleetInv'
  BY <1>1, <1>3, <1>7 DEF fleetVars, FleetInv
<1>8. QED
  BY <1>4, <1>5, <1>6, <1>7 DEF FleetNext

LEMMA FleetCorrect == FleetSpec => []FleetInv
BY FleetStarts, FleetKeeps, PTL DEF FleetSpec

LEMMA FleetTypes == FleetInv => FleetTypeOK
BY DEF FleetInv, RegistryInv, MonitorInv, MonitorTypeOK, FleetTypeOK

\* An agent that was unregistered stays out of the registry until it is registered
\* or updated, or another registry of the same backend writes a heartbeat that was
\* under way: none of the registry it was unregistered at brings it back.
THEOREM GoneAgentsStayGone == FleetSpec => []GoneStaysGone
<1>1. FleetInv => GoneStaysGone
  BY DEF FleetInv, RegistryInv
<1>2. QED
  BY <1>1, FleetCorrect, PTL

\* The work of an agent is recovered at most once for a silence, however many
\* rounds overlap and whatever they wait for.
THEOREM RecoveredOncePerSilence == FleetSpec => []SilenceRecoveredOnce
<1>1. FleetInv => SilenceRecoveredOnce
  BY DEF FleetInv, MonitorInv, MonitorTypeOK, OnlyTheDeadAreRecovered, SilenceRecoveredOnce
<1>2. QED
  BY <1>1, FleetCorrect, PTL

-----------------------------------------------------------------------------
(* The hierarchy.                                                          *)

HierarchyInv == HierarchyTypeOK /\ NobodyFallsOut

Calls == SpawnCall \cup Reassignment

LEMMA CallTypes ==
  ASSUME NEW op \in Calls
  PROVE  /\ op.kind \in {"child", "drop", "restore"} =>
              /\ op.parent \in Node /\ op.child \in Node /\ op.of \in Node \cup {Top}
              /\ \A kind \in {"child", "drop", "restore"} : [op EXCEPT !.kind = kind] \in Calls
         /\ op.kind \in {"next", "carry"} =>
              /\ op.now \in Node /\ op.to \in Node /\ op.orphans \subseteq Node
              /\ [op EXCEPT !.kind = "next"] \in Calls
              /\ \A n \in Node : [op EXCEPT !.kind = "carry", !.now = n, !.orphans = op.orphans \ {n}] \in Calls
<1>1. CASE op \in SpawnCall
  BY <1>1 DEF Calls, SpawnCall
<1>2. CASE op \in Reassignment
  BY <1>2 DEF Calls, Reassignment
<1>3. QED
  BY <1>1, <1>2 DEF Calls

\* An agent some call of ops is about to record again.
Kept(n, ops) ==
  \E op \in ops : \/ op.kind = "restore" /\ op.parent = n
                  \/ op.kind = "carry" /\ op.now = n

LEMMA HierarchyStarts == HierarchyInit => HierarchyInv
BY HierarchyAssumption DEF HierarchyInit, HierarchyInv, HierarchyTypeOK, NobodyFallsOut, Recorded

\* The step by which a call goes on: it takes effect on at most one record, lets go
\* of no agent but one it has recorded or was refused, and hands nobody else over.
LEMMA CallGoesOn ==
  ASSUME HierarchyInv, NEW op \in moves, NEW ahead \in SUBSET Calls, Then(op, ahead),
         NEW n \in Node, NEW v \in Node \cup {Top, Absent},
         parentOf' \in {parentOf, [parentOf EXCEPT ![n] = v]}, open' = open,
         born' \in {born, born \cup {n}},
         departed' \in {departed, departed \ {n}},
         unplaced' \in {unplaced, unplaced \ {n}, unplaced \cup {n}},
         parentOf'[n] # Absent \/ Kept(n, ahead) \/ n \in unplaced',
         \A m \in Node : m # n /\ Kept(m, {op}) => Kept(m, ahead)
  PROVE  HierarchyInv'
<1>1. moves' = (moves \ {op}) \cup ahead
  BY DEF Then
<1>2. HierarchyTypeOK'
  <2>1. moves' \subseteq SpawnCall \cup Reassignment
    BY <1>1 DEF HierarchyInv, HierarchyTypeOK, Calls
  <2>2. parentOf' \in [Node -> Node \cup {Top, Absent}]
    BY DEF HierarchyInv, HierarchyTypeOK
  <2>3. born' \in SUBSET Node /\ departed' \in SUBSET Node /\ unplaced' \in SUBSET Node /\ open' \in BOOLEAN
    BY DEF HierarchyInv, HierarchyTypeOK
  <2>4. QED
    BY <2>1, <2>2, <2>3 DEF HierarchyTypeOK
<1>3. ASSUME NEW m \in born' PROVE m \in Recorded' \cup departed' \cup unplaced' \/ InHands(m)'
  <2>1. m \in Node
    BY <1>2, <1>3 DEF HierarchyTypeOK
  <2>2. CASE m = n
    <3>1. CASE parentOf'[n] # Absent
      BY <2>1, <2>2, <3>1 DEF Recorded
    <3>2. CASE Kept(n, ahead)
      BY <1>1, <2>2, <3>2 DEF Kept, InHands
    <3>3. CASE n \in unplaced'
      BY <2>2, <3>3
    <3>4. QED
      BY <3>1, <3>2, <3>3
  <2>3. CASE m # n
    <3>1. parentOf'[m] = parentOf[m] /\ (m \in departed' <=> m \in departed) /\ (m \in unplaced' <=> m \in unplaced)
      BY <2>1, <2>3 DEF HierarchyInv, HierarchyTypeOK
    <3>2. m \in Recorded \cup departed \cup unplaced \/ InHands(m)
      BY <1>3, <2>3 DEF HierarchyInv, NobodyFallsOut
    <3>3. InHands(m) => InHands(m)'
      <4>1. InHands(m) => Kept(m, moves \ {op}) \/ Kept(m, {op})
        BY DEF InHands, Kept
      <4>2. Kept(m, moves \ {op}) \/ Kept(m, ahead) => InHands(m)'
        BY <1>1 DEF InHands, Kept
      <4>3. QED
        BY <2>1, <2>3, <4>1, <4>2
    <3>4. QED
      BY <2>1, <3>1, <3>2, <3>3 DEF Recorded
  <2>4. QED
    BY <2>2, <2>3
<1>4. QED
  BY <1>2, <1>3 DEF HierarchyInv, NobodyFallsOut

\* The register() of a child that throws ends the spawn, and the child was nobody.
LEMMA RefusedKeeps ==
  ASSUME HierarchyInv, NEW op \in moves, \A m \in Node : ~Kept(m, {op}), Then(op, {}),
         UNCHANGED <<parentOf, open, born, departed, unplaced>>
  PROVE  HierarchyInv'
<1>1. moves' = moves \ {op}
  BY DEF Then
<1>2. HierarchyTypeOK' /\ born \subseteq Node
  BY <1>1 DEF HierarchyInv, HierarchyTypeOK
<1>3. ASSUME NEW m \in born, InHands(m) PROVE InHands(m)'
  BY <1>1, <1>2, <1>3 DEF InHands, Kept
<1>4. QED
  BY <1>2, <1>3 DEF HierarchyInv, NobodyFallsOut, Recorded

\* register() of an agent that was taken out: it is recorded, or was turned away.
LEMMA BackIsKept ==
  ASSUME NEW n \in Node, NEW v \in Node \cup {Top}, parentOf \in [Node -> Node \cup {Top, Absent}], BackOr(n),
         parentOf' = IF open /\ parentOf[n] = Absent THEN [parentOf EXCEPT ![n] = v] ELSE parentOf
  PROVE  /\ departed' \in {departed, departed \ {n}} /\ open' = open /\ born' = born
         /\ unplaced' \in {unplaced, unplaced \ {n}, unplaced \cup {n}}
         /\ parentOf'[n] # Absent \/ n \in unplaced'
BY HierarchyAssumption DEF BackOr

\* The steps of spawnChild().
LEMMA SpawnKeeps ==
  ASSUME HierarchyInv, NEW op \in moves,
         RestoreParent(op) \/ \E told \in BOOLEAN : RegisterChild(op, told) \/ UnregisterParent(op, told)
  PROVE  HierarchyInv'
<1>1. /\ op \in Calls /\ parentOf \in [Node -> Node \cup {Top, Absent}] /\ moves \subseteq Calls
      /\ op.kind \in {"child", "drop", "restore"}
  BY DEF HierarchyInv, HierarchyTypeOK, Calls, RegisterChild, UnregisterParent, RestoreParent
<1>2. /\ op.parent \in Node /\ op.child \in Node /\ op.of \in Node \cup {Top}
      /\ \A kind \in {"child", "drop", "restore"} : [op EXCEPT !.kind = kind] \in Calls
  BY <1>1, CallTypes
<1>3. ASSUME NEW kind \in {"drop", "restore"}
      PROVE  /\ [op EXCEPT !.kind = kind].kind = kind
             /\ [op EXCEPT !.kind = kind].parent = op.parent /\ [op EXCEPT !.kind = kind].child = op.child
  BY <1>1 DEF Calls, SpawnCall, Reassignment
<1>4. ASSUME NEW told \in BOOLEAN, RegisterChild(op, told) PROVE HierarchyInv'
  <2> DEFINE ahead == IF open /\ told THEN {[op EXCEPT !.kind = "drop"]} ELSE {}
  <2>1. op.kind = "child" /\ Then(op, ahead) /\ UNCHANGED <<open, departed, unplaced>>
    BY <1>4 DEF RegisterChild
  <2>2. ahead \in SUBSET Calls
    BY <1>2
  <2>3. \A m \in Node : ~Kept(m, {op})
    BY <2>1 DEF Kept
  <2>4. CASE open
    <3>1. parentOf' = [parentOf EXCEPT ![op.child] = op.parent] /\ born' = born \cup {op.child}
      BY <1>4, <2>4 DEF RegisterChild, Recreate
    <3>2. parentOf'[op.child] # Absent
      BY <1>1, <1>2, <3>1, HierarchyAssumption
    <3> HIDE DEF ahead
    <3>3. QED
      BY <1>2, <2>1, <2>2, <2>3, <3>1, <3>2, CallGoesOn
  <2>5. CASE ~open
    <3>1. parentOf' = parentOf /\ born' = born /\ ahead = {}
      BY <1>4, <2>5 DEF RegisterChild
    <3>2. QED
      BY <2>1, <2>3, <3>1, RefusedKeeps
  <2>6. QED
    BY <2>4, <2>5
<1>5. ASSUME NEW told \in BOOLEAN, UnregisterParent(op, told) PROVE HierarchyInv'
  <2> DEFINE ahead == IF told THEN {[op EXCEPT !.kind = "restore"]} ELSE {}
  <2>1. /\ op.kind = "drop" /\ Then(op, ahead) /\ UNCHANGED <<open, born, departed>>
        /\ parentOf' = [parentOf EXCEPT ![op.parent] = Absent]
        /\ unplaced' = IF told THEN unplaced ELSE unplaced \cup {op.parent}
    BY <1>5 DEF UnregisterParent, Erase, Recreate
  <2>2. ahead \in SUBSET Calls
    BY <1>2
  <2>3. (Kept(op.parent, ahead) \/ op.parent \in unplaced') /\ \A m \in Node : ~Kept(m, {op})
    BY <1>3, <2>1 DEF Kept
  <2> HIDE DEF ahead
  <2>5. QED
    BY <1>2, <2>1, <2>2, <2>3, CallGoesOn
<1>6. CASE RestoreParent(op)
  <2>1. /\ op.kind = "restore" /\ Then(op, {}) /\ BackOr(op.parent)
        /\ parentOf' = IF open /\ parentOf[op.parent] = Absent THEN [parentOf EXCEPT ![op.parent] = op.of] ELSE parentOf
    BY <1>6 DEF RestoreParent, Recreate
  <2>2. /\ departed' \in {departed, departed \ {op.parent}} /\ open' = open /\ born' = born
        /\ unplaced' \in {unplaced, unplaced \ {op.parent}, unplaced \cup {op.parent}}
        /\ parentOf'[op.parent] # Absent \/ op.parent \in unplaced'
    BY <1>1, <1>2, <2>1, BackIsKept
  <2>3. \A m \in Node : m # op.parent => ~Kept(m, {op})
    BY <2>1 DEF Kept
  <2>4. {} \in SUBSET Calls
    OBVIOUS
  <2>5. QED
    BY <1>2, <2>1, <2>2, <2>3, <2>4, CallGoesOn
<1>7. QED
  BY <1>4, <1>5, <1>6

\* The steps of handleOrphans().
LEMMA ReassignKeeps ==
  ASSUME HierarchyInv, NEW op \in moves,
         \E told \in BOOLEAN : GiveOrphan(op, told) \/ \E n \in Node : TakeOrphan(op, n, told)
  PROVE  HierarchyInv'
<1>1. /\ op \in Calls /\ parentOf \in [Node -> Node \cup {Top, Absent}]
      /\ op.kind \in {"next", "carry"}
  BY DEF HierarchyInv, HierarchyTypeOK, Calls, GiveOrphan, TakeOrphan
<1>2. /\ op.now \in Node /\ op.to \in Node /\ op.orphans \subseteq Node
      /\ [op EXCEPT !.kind = "next"] \in Calls
      /\ \A n \in Node : [op EXCEPT !.kind = "carry", !.now = n, !.orphans = op.orphans \ {n}] \in Calls
  BY <1>1, CallTypes
<1>3. [op EXCEPT !.kind = "next"].kind = "next"
  BY <1>1 DEF Calls, SpawnCall, Reassignment
<1>4. ASSUME NEW told \in BOOLEAN, NEW n \in Node, TakeOrphan(op, n, told) PROVE HierarchyInv'
  <2> DEFINE then == [op EXCEPT !.kind = "carry", !.now = n, !.orphans = op.orphans \ {n}]
             ahead == IF told THEN {then} ELSE {}
  <2>1. /\ op.kind = "next" /\ Then(op, ahead) /\ UNCHANGED <<open, born, departed>>
        /\ parentOf' = [parentOf EXCEPT ![n] = Absent]
        /\ unplaced' = IF told THEN unplaced ELSE unplaced \cup {n}
    BY <1>4 DEF TakeOrphan, Erase, Recreate
  <2>2. then \in Calls
    BY <1>2
  <2>3. then.kind = "carry" /\ then.now = n
    BY <1>1, <2>1 DEF Calls, SpawnCall, Reassignment
  <2> HIDE DEF then
  <2>4. (Kept(n, ahead) \/ n \in unplaced') /\ \A m \in Node : ~Kept(m, {op})
    BY <2>1, <2>3 DEF Kept
  <2>5. ahead \in SUBSET Calls
    BY <2>2
  <2> HIDE DEF ahead
  <2>6. QED
    BY <2>1, <2>4, <2>5, CallGoesOn
<1>5. ASSUME NEW told \in BOOLEAN, GiveOrphan(op, told) PROVE HierarchyInv'
  <2> DEFINE goesOn == open /\ parentOf[op.now] = Absent /\ told /\ op.orphans # {}
             ahead == IF goesOn THEN {[op EXCEPT !.kind = "next"]} ELSE {}
  <2>1. /\ op.kind = "carry" /\ Then(op, ahead) /\ BackOr(op.now)
        /\ parentOf' = IF open /\ parentOf[op.now] = Absent THEN [parentOf EXCEPT ![op.now] = op.to] ELSE parentOf
    BY <1>5 DEF GiveOrphan, Give, Recreate
  <2>2. /\ departed' \in {departed, departed \ {op.now}} /\ open' = open /\ born' = born
        /\ unplaced' \in {unplaced, unplaced \ {op.now}, unplaced \cup {op.now}}
        /\ parentOf'[op.now] # Absent \/ op.now \in unplaced'
    BY <1>1, <1>2, <2>1, BackIsKept
  <2>3. \A m \in Node : m # op.now => ~Kept(m, {op})
    BY <2>1 DEF Kept
  <2>4. ahead \in SUBSET Calls
    BY <1>2
  <2> HIDE DEF ahead
  <2>5. QED
    BY <1>2, <2>1, <2>2, <2>3, <2>4, CallGoesOn
<1>6. QED
  BY <1>4, <1>5

\* The reads that begin a call, and the agents that leave.
LEMMA BeginKeeps ==
  ASSUME HierarchyInv,
         \/ \E p, c \in Node : SpawnChild(p, c)
         \/ \E n \in Node : HandleOrphans(n) \/ AgentLeaves(n)
         \/ RegistryTurns
  PROVE  HierarchyInv'
<1> USE DEF HierarchyInv, HierarchyTypeOK
<1>1. ASSUME NEW p \in Node, NEW c \in Node, SpawnChild(p, c) PROVE HierarchyInv'
  <2> DEFINE op == [kind |-> "child", parent |-> p, child |-> c, of |-> parentOf[p]]
  <2>1. moves' = moves \cup {op} /\ UNCHANGED <<parentOf, open, born, departed, unplaced>> /\ op \in SpawnCall
    BY <1>1 DEF SpawnChild, SpawnCall
  <2> HIDE DEF op
  <2>2. \A n : InHands(n) => InHands(n)'
    BY <2>1 DEF InHands
  <2>3. QED
    BY <2>1, <2>2 DEF NobodyFallsOut, Recorded
<1>2. ASSUME NEW p \in Node, HandleOrphans(p) PROVE HierarchyInv'
  <2> DEFINE op == [kind |-> "next", orphans |-> GetChildren(p), now |-> p, to |-> parentOf[p]]
  <2>1. moves' = moves \cup {op} /\ UNCHANGED <<parentOf, open, born, departed, unplaced>> /\ op \in Reassignment
    BY <1>2 DEF HandleOrphans, Reassignment, GetChildren
  <2> HIDE DEF op
  <2>2. \A n : InHands(n) => InHands(n)'
    BY <2>1 DEF InHands
  <2>3. QED
    BY <2>1, <2>2 DEF NobodyFallsOut, Recorded
<1>3. ASSUME NEW n \in Node, AgentLeaves(n) PROVE HierarchyInv'
  <2>1. /\ parentOf' = [parentOf EXCEPT ![n] = Absent] /\ departed' = departed \cup {n}
        /\ UNCHANGED <<moves, open, born, unplaced>> /\ n \in Recorded
    BY <1>3 DEF AgentLeaves, Erase, Recreate
  <2>2. \A m : InHands(m) => InHands(m)'
    BY <2>1 DEF InHands
  <2>3. \A m \in Recorded : m \in Recorded' \cup departed'
    BY <2>1 DEF Recorded
  <2>4. QED
    BY <2>1, <2>2, <2>3 DEF NobodyFallsOut
<1>4. CASE RegistryTurns
  BY <1>4 DEF RegistryTurns, NobodyFallsOut, Recorded, InHands
<1>5. QED
  BY <1>1, <1>2, <1>3, <1>4

LEMMA HierarchyKeeps == HierarchyInv /\ [HierarchyNext]_hierarchyVars => HierarchyInv'
<1> SUFFICES ASSUME HierarchyInv, [HierarchyNext]_hierarchyVars PROVE HierarchyInv'
  OBVIOUS
<1>1. ASSUME UNCHANGED hierarchyVars PROVE HierarchyInv'
  BY <1>1 DEF hierarchyVars, HierarchyInv, HierarchyTypeOK, NobodyFallsOut, Recorded, InHands
<1>2. QED
  BY <1>1, SpawnKeeps, ReassignKeeps, BeginKeeps DEF HierarchyNext

\* However spawns, reassignments, departures and shutdowns of the registry interleave,
\* an agent that nobody else unregistered has a record, a call under way is about to
\* record it, or the registry rejected its rewriting half way.
THEOREM AgentsStayInHierarchy == HierarchySpec => []NobodyFallsOut
<1>1. HierarchyInv => NobodyFallsOut
  BY DEF HierarchyInv
<1>2. QED
  BY <1>1, HierarchyStarts, HierarchyKeeps, PTL DEF HierarchySpec

-----------------------------------------------------------------------------
(* The transports.                                                         *)

LinkSpec == LinkInit /\ [][LinkNext]_linkVars

-----------------------------------------------------------------------------
(* Sequences and what is in them.                                          *)

Distinct(s) == \A i, j \in DOMAIN s : s[i] = s[j] => i = j

LEMMA AppendSet ==
  ASSUME NEW S, NEW s \in Seq(S), NEW x \in S
  PROVE  /\ Append(s, x) \in Seq(S) /\ Len(Append(s, x)) = Len(s) + 1
         /\ ToSet(Append(s, x)) = ToSet(s) \cup {x}
         /\ Distinct(s) /\ x \notin ToSet(s) => Distinct(Append(s, x))
<1> DEFINE t == Append(s, x)
<1>1. /\ t \in Seq(S) /\ Len(t) = Len(s) + 1 /\ Len(s) \in Nat
      /\ \A i \in 1 .. Len(s) : t[i] = s[i]
      /\ t[Len(s) + 1] = x
      /\ DOMAIN s = 1 .. Len(s) /\ DOMAIN t = 1 .. Len(s) + 1
  BY AppendProperties, LenProperties
<1> HIDE DEF t
<1>2. ToSet(t) = ToSet(s) \cup {x}
  BY <1>1 DEF ToSet
<1>3. Distinct(s) /\ x \notin ToSet(s) => Distinct(t)
  BY <1>1 DEF ToSet, Distinct
<1>4. QED
  BY <1>1, <1>2, <1>3 DEF t

LEMMA TailSet ==
  ASSUME NEW S, NEW s \in Seq(S), s # <<>>
  PROVE  /\ Tail(s) \in Seq(S) /\ Len(Tail(s)) = Len(s) - 1 /\ Head(s) \in S
         /\ ToSet(s) = ToSet(Tail(s)) \cup {Head(s)}
         /\ Distinct(s) => Distinct(Tail(s)) /\ Head(s) \notin ToSet(Tail(s))
<1> DEFINE t == Tail(s)
           h == Head(s)
<1>1. /\ t \in Seq(S) /\ h \in S /\ Len(t) = Len(s) - 1 /\ Len(s) \in Nat \ {0}
      /\ \A i \in 1 .. Len(t) : t[i] = s[i + 1]
      /\ DOMAIN s = 1 .. Len(s) /\ DOMAIN t = 1 .. Len(t) /\ h = s[1]
  BY HeadTailProperties, LenProperties, EmptySeq
<1> HIDE DEF t, h
<1>2. \A i \in 1 .. Len(s) : i = 1 \/ (i - 1 \in 1 .. Len(t) /\ s[i] = t[i - 1])
  BY <1>1
<1>3. \A i \in 1 .. Len(t) : i + 1 \in 1 .. Len(s) /\ i + 1 # 1
  BY <1>1
<1>4. 1 \in 1 .. Len(s)
  BY <1>1
<1>5. ToSet(s) = ToSet(t) \cup {h}
  <2>1. ASSUME NEW i \in 1 .. Len(s) PROVE s[i] \in ToSet(t) \cup {h}
    BY <1>1, <1>2 DEF ToSet
  <2>2. ToSet(t) \cup {h} \subseteq ToSet(s)
    BY <1>1, <1>3, <1>4 DEF ToSet
  <2>3. ASSUME NEW x \in ToSet(s) PROVE x \in ToSet(t) \cup {h}
    <3>1. PICK i \in DOMAIN s : x = s[i]
      BY Zenon DEF ToSet
    <3>2. i \in 1 .. Len(s)
      BY <1>1, <3>1, Zenon
    <3>3. QED
      BY <2>1, <3>1, <3>2, Zenon
  <2>4. QED
    BY <2>2, <2>3, Zenon
<1>6. ASSUME Distinct(s) PROVE Distinct(t) /\ h \notin ToSet(t)
  <2>1. ASSUME NEW i \in 1 .. Len(t), NEW j \in 1 .. Len(t), t[i] = t[j] PROVE i = j
    <3>1. i + 1 \in 1 .. Len(s) /\ j + 1 \in 1 .. Len(s) /\ s[i + 1] = s[j + 1]
      BY <1>1, <1>3, <2>1
    <3>2. i + 1 = j + 1
      BY <1>1, <1>6, <3>1 DEF Distinct
    <3>3. QED
      BY <3>2
  <2>2. ASSUME NEW i \in 1 .. Len(t), t[i] = h PROVE FALSE
    <3>1. i + 1 \in 1 .. Len(s) /\ i + 1 # 1 /\ s[i + 1] = s[1]
      BY <1>1, <1>3, <2>2
    <3>2. QED
      BY <1>1, <1>4, <1>6, <3>1 DEF Distinct
  <2>3. QED
    BY <1>1, <2>1, <2>2 DEF ToSet, Distinct
<1>7. QED
  BY <1>1, <1>5, <1>6 DEF t, h

\* A sequence without repetition is no longer than the set it is drawn from.
LEMMA DistinctIsBounded ==
  ASSUME NEW S, IsFiniteSet(S), NEW s \in Seq(S), Distinct(s)
  PROVE  s \in BoundedSeq(S, Cardinality(S))
<1>1. Len(s) \in Nat /\ s \in [1 .. Len(s) -> S] /\ DOMAIN s = 1 .. Len(s)
  BY LenProperties
<1>2. s \in Injection(1 .. Len(s), S)
  BY <1>1 DEF Distinct, Injection, IsInjective
<1>3. Cardinality(1 .. Len(s)) <= Cardinality(S)
  BY <1>2, FS_Injection
<1>4. Cardinality(1 .. Len(s)) = Len(s) /\ Cardinality(S) \in Nat
  <2>1. Cardinality(1 .. Len(s)) = IF 1 > Len(s) THEN 0 ELSE Len(s) - 1 + 1
    BY <1>1, FS_Interval
  <2>2. Cardinality(S) \in Nat
    BY FS_CardinalityType
  <2>3. QED
    BY <1>1, <2>1, <2>2
<1>5. Len(s) \in 0 .. Cardinality(S)
  BY <1>1, <1>3, <1>4
<1>6. QED
  BY <1>1, <1>5 DEF BoundedSeq, SeqOf

LEMMA EmptySet == ToSet(<<>>) = {} /\ Distinct(<<>>) /\ \A S : <<>> \in Seq(S) /\ Len(<<>>) = 0
BY EmptySeq DEF ToSet, Distinct

LEMMA NonEmptySeq ==
  ASSUME NEW S, NEW s \in Seq(S)
  PROVE  s # <<>> <=> Len(s) > 0
BY EmptySeq, LenProperties

-----------------------------------------------------------------------------
(* The Redis transport.                                                    *)

Call == [at: {"idle", "wire", "send", "wait"}, todo: SUBSET Listener, rest: Seq(Letter)]

LinkTyped ==
  /\ {redisUp, linked, configured} \subseteq BOOLEAN
  /\ listeners \subseteq Listener /\ wired \subseteq Listener
  /\ outbox \in Seq(Letter) /\ connects \in [Connection -> Call]
  /\ posting \subseteq Letter /\ arrived \subseteq Letter /\ refused \subseteq Letter

\* A connect() has messages to send exactly while it sends.
SendersHaveRest == \A c \in Connection : connects[c].at \in {"send", "wait"} <=> connects[c].rest # <<>>

\* No message is kept twice, in the buffer or by the calls that send it.
KeptOnce ==
  /\ Distinct(outbox)
  /\ \A c \in Connection : /\ Distinct(connects[c].rest)
                           /\ ToSet(outbox) \cap ToSet(connects[c].rest) = {}
                           /\ \A d \in Connection \ {c} : ToSet(connects[c].rest) \cap ToSet(connects[d].rest) = {}

LinkInv == LinkTyped /\ SendersHaveRest /\ KeptOnce

LEMMA LinkStarts == LinkInit => LinkInv
<1> SUFFICES ASSUME LinkInit PROVE LinkInv
  OBVIOUS
<1>1. [at |-> "idle", todo |-> {}, rest |-> <<>>] \in Call
  BY EmptySet DEF Call
<1>2. LinkTyped
  BY <1>1, EmptySet DEF LinkInit, LinkTyped
<1>3. SendersHaveRest /\ KeptOnce
  BY EmptySet DEF LinkInit, SendersHaveRest, KeptOnce
<1>4. QED
  BY <1>2, <1>3 DEF LinkInv

\* One connect() goes on as r: it and the buffer hold no message they did not hold
\* before, and those they let go of have arrived.
LEMMA CallGoesOnAs ==
  ASSUME LinkInv, NEW c \in Connection, NEW r \in Call, connects' = [connects EXCEPT ![c] = r],
         r.at \in {"send", "wait"} <=> r.rest # <<>>,
         outbox' \in Seq(Letter), Distinct(outbox'), Distinct(r.rest), ToSet(outbox') \cap ToSet(r.rest) = {},
         ToSet(outbox') \cup ToSet(r.rest) \subseteq ToSet(outbox) \cup ToSet(connects[c].rest),
         ToSet(outbox) \cup ToSet(connects[c].rest) \subseteq ToSet(outbox') \cup ToSet(r.rest) \cup arrived',
         arrived \subseteq arrived', arrived' \subseteq Letter, wired' \subseteq Listener,
         {linked', configured'} \subseteq BOOLEAN, UNCHANGED <<redisUp, listeners, posting, refused>>
  PROVE  LinkInv' /\ Safe \subseteq Safe'
<1> USE DEF LinkInv
<1>1. connects'[c] = r /\ \A d \in Connection \ {c} : connects'[d] = connects[d]
  BY DEF LinkTyped
<1>2. LinkTyped'
  BY DEF LinkTyped
<1>3. SendersHaveRest'
  BY <1>1 DEF SendersHaveRest
<1>4. KeptOnce'
  <2>1. ASSUME NEW d \in Connection \ {c}
        PROVE  /\ ToSet(outbox') \cap ToSet(connects[d].rest) = {}
               /\ ToSet(r.rest) \cap ToSet(connects[d].rest) = {}
               /\ Distinct(connects[d].rest)
    BY DEF KeptOnce
  <2>2. ASSUME NEW d \in Connection, NEW e \in Connection \ {d}
        PROVE  ToSet(connects'[d].rest) \cap ToSet(connects'[e].rest) = {}
    <3>1. CASE d = c
      BY <1>1, <2>1, <3>1, Zenon
    <3>2. CASE e = c
      <4>1. ToSet(connects'[e].rest) \cap ToSet(connects'[d].rest) = {}
        BY <1>1, <2>1, <3>2, Zenon
      <4>2. QED
        BY <4>1
    <3>3. CASE d # c /\ e # c
      BY <1>1, <3>3, Zenon DEF KeptOnce
    <3>4. QED
      BY <3>1, <3>2, <3>3
  <2>3. QED
    BY <1>1, <2>1, <2>2 DEF KeptOnce
<1>5. Safe \subseteq Safe'
  <2>1. ASSUME NEW m \in Flushing PROVE m \in Flushing' \/ m \in ToSet(connects[c].rest)
    BY <1>1 DEF Flushing
  <2>2. ToSet(r.rest) \subseteq Flushing'
    BY <1>1 DEF Flushing
  <2>3. QED
    BY <2>1, <2>2 DEF Safe
<1>6. QED
  BY <1>2, <1>3, <1>4, <1>5

\* connect() wires the subscriptions, then takes the buffer over.
LEMMA ConnectKeeps ==
  ASSUME LinkInv, NEW c \in Connection, Connect(c) \/ FlushBegins(c) \/ \E s \in Listener : Rewire(c, s)
  PROVE  LinkInv' /\ Safe \subseteq Safe'
<1>1. /\ connects[c] \in Call /\ connects \in [Connection -> Call] /\ outbox \in Seq(Letter)
      /\ {redisUp, linked, configured} \subseteq BOOLEAN /\ listeners \subseteq Listener /\ wired \subseteq Listener
      /\ arrived \subseteq Letter
      /\ (connects[c].at \in {"send", "wait"} <=> connects[c].rest # <<>>)
      /\ Distinct(outbox) /\ Distinct(connects[c].rest) /\ ToSet(outbox) \cap ToSet(connects[c].rest) = {}
  BY DEF LinkInv, LinkTyped, SendersHaveRest, KeptOnce
<1>2. UNCHANGED <<redisUp, listeners, posting, refused, arrived>>
  BY DEF Connect, FlushBegins, Rewire
<1>3. CASE Connect(c)
  <2> DEFINE r == [at |-> "wire", todo |-> listeners, rest |-> <<>>]
  <2>1. /\ connects' = [connects EXCEPT ![c] = r] /\ outbox' = outbox /\ connects[c].rest = <<>>
        /\ linked' = TRUE /\ configured' = TRUE /\ wired' = wired
    BY <1>1, <1>3 DEF Connect
  <2>2. r \in Call /\ r.rest = <<>> /\ r.at = "wire"
    BY <1>1, EmptySet DEF Call
  <2> HIDE DEF r
  <2>3. QED
    BY <1>1, <1>2, <2>1, <2>2, EmptySet, CallGoesOnAs
<1>4. ASSUME NEW s \in Listener, Rewire(c, s) PROVE LinkInv' /\ Safe \subseteq Safe'
  <2> DEFINE r == [connects[c] EXCEPT !.todo = connects[c].todo \ {s}]
  <2>1. connects' = [connects EXCEPT ![c] = r] /\ UNCHANGED <<outbox, linked, configured>> /\ wired' = {s}
    BY <1>1, <1>4 DEF Rewire
  <2>2. r \in Call /\ r.rest = connects[c].rest /\ r.at = connects[c].at
    BY <1>1 DEF Call
  <2> HIDE DEF r
  <2>3. QED
    BY <1>1, <1>2, <2>1, <2>2, CallGoesOnAs
<1>5. CASE FlushBegins(c)
  <2> DEFINE r == [connects[c] EXCEPT !.at = IF outbox = <<>> THEN "idle" ELSE "send", !.rest = outbox]
  <2>1. /\ connects' = [connects EXCEPT ![c] = r] /\ outbox' = <<>> /\ connects[c].rest = <<>>
        /\ UNCHANGED <<linked, configured, wired>>
    BY <1>1, <1>5 DEF FlushBegins
  <2>2. r \in Call /\ r.rest = outbox /\ (r.at \in {"send", "wait"} <=> r.rest # <<>>)
    BY <1>1 DEF Call
  <2> HIDE DEF r
  <2>3. outbox' \in Seq(Letter) /\ Distinct(outbox') /\ ToSet(outbox') = {} /\ ToSet(connects[c].rest) = {}
    BY <2>1, EmptySet
  <2>4. QED
    BY <1>1, <1>2, <2>1, <2>2, <2>3, CallGoesOnAs
<1>6. QED
  BY <1>3, <1>4, <1>5

\* A kept message is sent, or kept again behind the others.
LEMMA FlushKeeps ==
  ASSUME LinkInv, NEW c \in Connection, FlushNext(c) \/ FlushAnswered(c)
  PROVE  LinkInv' /\ Safe \subseteq Safe'
<1> DEFINE rest == connects[c].rest
           m == Head(rest)
           on == [connects[c] EXCEPT !.at = IF Len(rest) = 1 THEN "idle" ELSE "send", !.rest = Tail(rest)]
<1>1. /\ connects[c] \in Call /\ connects \in [Connection -> Call] /\ outbox \in Seq(Letter) /\ rest \in Seq(Letter)
      /\ {redisUp, linked, configured} \subseteq BOOLEAN /\ listeners \subseteq Listener /\ wired \subseteq Listener
      /\ arrived \subseteq Letter /\ rest # <<>>
      /\ Distinct(outbox) /\ Distinct(rest) /\ ToSet(outbox) \cap ToSet(rest) = {}
  BY DEF LinkInv, LinkTyped, SendersHaveRest, KeptOnce, Call, FlushNext, FlushAnswered
<1>2. UNCHANGED <<redisUp, listeners, posting, refused, configured, wired>>
  BY DEF FlushNext, FlushAnswered
<1>3. /\ Tail(rest) \in Seq(Letter) /\ m \in Letter /\ ToSet(rest) = ToSet(Tail(rest)) \cup {m}
      /\ Distinct(Tail(rest)) /\ m \notin ToSet(Tail(rest)) /\ (Len(rest) = 1 <=> Tail(rest) = <<>>)
  <2>1. /\ Tail(rest) \in Seq(Letter) /\ Len(Tail(rest)) = Len(rest) - 1 /\ m \in Letter
        /\ ToSet(rest) = ToSet(Tail(rest)) \cup {m}
        /\ Distinct(Tail(rest)) /\ m \notin ToSet(Tail(rest))
    BY <1>1, TailSet
  <2>2. Len(rest) \in Nat /\ (Tail(rest) # <<>> <=> Len(Tail(rest)) > 0)
    BY <1>1, <2>1, NonEmptySeq, LenProperties
  <2>3. Len(Tail(rest)) \in Nat
    BY <2>1, LenProperties
  <2> HIDE DEF rest, m
  <2>4. Len(rest) = 1 <=> Tail(rest) = <<>>
    BY <2>1, <2>2, <2>3
  <2>5. QED
    BY <2>1, <2>4
<1>4. on \in Call /\ on.rest = Tail(rest) /\ (on.at \in {"send", "wait"} <=> on.rest # <<>>)
  BY <1>1, <1>3 DEF Call
<1>5. /\ Append(outbox, m) \in Seq(Letter) /\ Distinct(Append(outbox, m))
      /\ ToSet(Append(outbox, m)) = ToSet(outbox) \cup {m}
  BY <1>1, <1>3, AppendSet
<1>6. linked' \in BOOLEAN
  BY <1>1 DEF FlushNext, FlushAnswered
<1>7. Passed(c) => connects' = [connects EXCEPT ![c] = on]
  BY <1>1 DEF Passed
<1> HIDE DEF on, m, rest
<1>8. ASSUME Passed(c), outbox' = Append(outbox, m), arrived' = arrived PROVE LinkInv' /\ Safe \subseteq Safe'
  <2>1. /\ connects' = [connects EXCEPT ![c] = on] /\ ToSet(outbox') \cap ToSet(on.rest) = {}
        /\ ToSet(outbox') \cup ToSet(on.rest) = ToSet(outbox) \cup ToSet(connects[c].rest)
    BY <1>1, <1>3, <1>4, <1>5, <1>7, <1>8 DEF rest
  <2>2. /\ outbox' \in Seq(Letter) /\ Distinct(outbox') /\ Distinct(on.rest)
        /\ {linked', configured'} \subseteq BOOLEAN /\ wired' \subseteq Listener /\ arrived' \subseteq Letter
    BY <1>1, <1>2, <1>3, <1>4, <1>5, <1>6, <1>8
  <2>3. QED
    BY <1>2, <1>4, <1>8, <2>1, <2>2, CallGoesOnAs
<1>9. ASSUME Passed(c), outbox' = outbox, arrived' = arrived \cup {m} PROVE LinkInv' /\ Safe \subseteq Safe'
  <2>1. /\ connects' = [connects EXCEPT ![c] = on] /\ ToSet(outbox') \cap ToSet(on.rest) = {}
        /\ ToSet(outbox') \cup ToSet(on.rest) \subseteq ToSet(outbox) \cup ToSet(connects[c].rest)
        /\ ToSet(outbox) \cup ToSet(connects[c].rest) \subseteq ToSet(outbox') \cup ToSet(on.rest) \cup arrived'
    BY <1>1, <1>3, <1>4, <1>7, <1>9 DEF rest
  <2>2. /\ outbox' \in Seq(Letter) /\ Distinct(outbox') /\ Distinct(on.rest)
        /\ {linked', configured'} \subseteq BOOLEAN /\ wired' \subseteq Listener
        /\ arrived \subseteq arrived' /\ arrived' \subseteq Letter
    BY <1>1, <1>2, <1>3, <1>4, <1>6, <1>9
  <2>3. QED
    BY <1>2, <1>4, <2>1, <2>2, CallGoesOnAs
<1>10. ASSUME connects' = [connects EXCEPT ![c].at = "wait"], outbox' = outbox, arrived' = arrived, connects[c].at = "send"
       PROVE  LinkInv' /\ Safe \subseteq Safe'
  <2> DEFINE r == [connects[c] EXCEPT !.at = "wait"]
  <2>1. connects' = [connects EXCEPT ![c] = r] /\ r \in Call /\ r.at = "wait" /\ r.rest = rest
    BY <1>1, <1>10 DEF Call, rest
  <2> HIDE DEF r
  <2>2. QED
    BY <1>1, <1>2, <1>6, <1>10, <2>1, CallGoesOnAs DEF rest
<1>11. CASE FlushNext(c)
  BY <1>8, <1>10, <1>11 DEF FlushNext, m, rest
<1>12. CASE FlushAnswered(c)
  BY <1>8, <1>9, <1>12 DEF FlushAnswered, KeptAgain, m, rest
<1>13. QED
  BY <1>11, <1>12

\* Calls that leave connect() alone.
LEMMA PublishKeeps ==
  ASSUME LinkInv, NEW m \in Letter, Publish(m) \/ PublishEnds(m)
  PROVE  LinkInv' /\ Safe \subseteq Safe'
<1> USE DEF LinkInv
<1>1. /\ UNCHANGED <<redisUp, configured, listeners, wired, connects>> /\ linked' \in BOOLEAN
      /\ posting' \subseteq Letter /\ arrived' \subseteq Letter /\ refused' \subseteq Letter
  BY DEF Publish, PublishEnds, LinkTyped, Reachable
<1>2. outbox' = outbox \/ (outbox' = Append(outbox, m) /\ m \notin Safe)
  BY DEF Publish, PublishEnds
<1>3. /\ Append(outbox, m) \in Seq(Letter) /\ ToSet(Append(outbox, m)) = ToSet(outbox) \cup {m}
      /\ m \notin ToSet(outbox) => Distinct(Append(outbox, m))
  BY AppendSet DEF LinkTyped, KeptOnce
<1>4. LinkTyped' /\ SendersHaveRest'
  BY <1>1, <1>2, <1>3 DEF LinkTyped, SendersHaveRest
<1>5. KeptOnce'
  <2>1. Distinct(outbox')
    BY <1>2, <1>3 DEF KeptOnce, Safe
  <2>2. ASSUME NEW c \in Connection PROVE ToSet(outbox') \cap ToSet(connects[c].rest) = {}
    <3>1. ToSet(connects[c].rest) \subseteq Safe
      BY DEF Safe, Flushing
    <3>2. ToSet(outbox) \cap ToSet(connects[c].rest) = {}
      BY DEF KeptOnce
    <3>3. QED
      BY <1>2, <1>3, <3>1, <3>2
  <2>3. QED
    BY <1>1, <2>1, <2>2 DEF KeptOnce
<1>6. Safe \subseteq Safe'
  <2>1. Flushing' = Flushing /\ ToSet(outbox) \subseteq ToSet(outbox')
    BY <1>1, <1>2, <1>3 DEF Flushing
  <2>2. posting \cup arrived \cup refused \subseteq posting' \cup arrived' \cup refused'
    BY DEF Publish, PublishEnds
  <2>3. QED
    BY <2>1, <2>2 DEF Safe
<1>7. QED
  BY <1>4, <1>5, <1>6

LEMMA LinkStep == LinkInv /\ [LinkNext]_linkVars => LinkInv' /\ Safe \subseteq Safe'
<1> SUFFICES ASSUME LinkInv, [LinkNext]_linkVars PROVE LinkInv' /\ Safe \subseteq Safe'
  OBVIOUS
<1>1. ASSUME Disconnect \/ RedisChanges \/ UNCHANGED linkVars \/ \E s \in Listener : Listen(s) \/ Unlisten(s)
      PROVE  LinkInv' /\ Safe \subseteq Safe'
  <2>1. /\ UNCHANGED <<configured, outbox, connects, posting, arrived, refused>>
        /\ {redisUp', linked'} \subseteq BOOLEAN /\ listeners' \subseteq Listener /\ wired' \subseteq Listener
    BY <1>1 DEF Disconnect, RedisChanges, linkVars, Listen, Unlisten, LinkInv, LinkTyped
  <2>2. QED
    BY <2>1 DEF LinkInv, LinkTyped, SendersHaveRest, KeptOnce, Safe, Flushing
<1>2. QED
  BY <1>1, PublishKeeps, ConnectKeeps, FlushKeeps DEF LinkNext

LEMMA LinkTypes == LinkInv => LinkTypeOK
<1> SUFFICES ASSUME LinkInv PROVE LinkTypeOK
  OBVIOUS
<1>1. outbox \in BoundedSeq(Letter, Cardinality(Letter))
  BY LinkAssumption, DistinctIsBounded DEF LinkInv, LinkTyped, KeptOnce
<1>2. ASSUME NEW c \in Connection
      PROVE  connects[c] \in [at: {"idle", "wire", "send", "wait"}, todo: SUBSET Listener,
                              rest: BoundedSeq(Letter, Cardinality(Letter))]
  <2>1. connects[c] \in Call /\ Distinct(connects[c].rest)
    BY DEF LinkInv, LinkTyped, KeptOnce
  <2>2. connects[c].rest \in BoundedSeq(Letter, Cardinality(Letter))
    BY <2>1, LinkAssumption, DistinctIsBounded DEF Call
  <2>3. QED
    BY <2>1, <2>2 DEF Call
<1>3. QED
  BY <1>1, <1>2 DEF LinkInv, LinkTyped, LinkTypeOK

LEMMA LinkCorrect == LinkSpec => []LinkInv
BY LinkStarts, LinkStep, PTL DEF LinkSpec

\* However often Redis goes and comes back, a message that publish() took is kept,
\* in the hands of a call, or with Redis.
THEOREM AcceptedMessagesAreKept == LinkSpec => AcceptedIsKept
<1>1. LinkInv /\ [LinkNext]_linkVars => [\A m \in Letter : m \in Safe => m \in Safe']_linkVars
  BY LinkStep
<1>2. QED
  BY <1>1, LinkCorrect, PTL DEF LinkSpec, AcceptedIsKept

-----------------------------------------------------------------------------
(* The transport between tabs.                                             *)

PageSpec == PageInit /\ [][PageNext]_pageVars

\* A message on its way to a subscription is not yet handled by its page, or is one
\* of the page's own, which it leaves alone.
StillToHear ==
  \A n \in Note, t \in Page : <<n, <<t, "sub">>>> \in flight => n \in own[t] \/ <<t, n>> \notin heard

PageInv == PageTypeOK /\ StillToHear /\ NobodyHearsTwice

LEMMA PageStarts == PageInit => PageInv
BY DEF PageInit, PageInv, PageTypeOK, StillToHear, NobodyHearsTwice

LEMMA DisconnectKeeps ==
  ASSUME PageInv, NEW t \in Page, PageDisconnect(t)
  PROVE  PageInv'
<1> USE DEF PageInv
<1> DEFINE closed == {c \in channels : c[1] = t}
<1>1. /\ online' = online \ {t} /\ channels' = channels \ closed /\ flight' = {f \in flight : f[2] \notin closed}
      /\ own' = [own EXCEPT ![t] = {}] /\ UNCHANGED <<heard, again, replies>>
      /\ requests' = [r \in Inquiry |-> IF requests[r] = [by |-> t, how |-> "waiting"]
                                        THEN [by |-> t, how |-> "disconnected"] ELSE requests[r]]
  BY DEF PageDisconnect, Closes
<1>2. flight' \subseteq (Note \cup Inquiry) \X channels'
  BY <1>1 DEF PageTypeOK
<1>3. [by |-> t, how |-> "disconnected"] \in
        [by: Page \cup {"nobody"}, how: {"unmade", "waiting", "answered", "echoed", "timeout", "disconnected"}]
  OBVIOUS
<1>4. requests' \in
        [Inquiry -> [by: Page \cup {"nobody"}, how: {"unmade", "waiting", "answered", "echoed", "timeout", "disconnected"}]]
  BY <1>1, <1>3 DEF PageTypeOK
<1>5. PageTypeOK'
  <2>1. own' \in [Page -> SUBSET Note] /\ channels' \subseteq Page \X {"sub", "reply"}
    BY <1>1 DEF PageTypeOK
  <2>2. QED
    BY <1>1, <1>2, <1>4, <2>1 DEF PageTypeOK
<1>6. ASSUME NEW n \in Note, NEW u \in Page, <<n, <<u, "sub">>>> \in flight'
      PROVE  n \in own'[u] \/ <<u, n>> \notin heard'
  <2>1. <<n, <<u, "sub">>>> \in flight /\ <<u, "sub">> \in channels /\ <<u, "sub">> \notin closed
    BY <1>1, <1>6 DEF PageTypeOK
  <2>2. u # t
    BY <2>1
  <2>3. QED
    BY <1>1, <2>1, <2>2 DEF StillToHear, PageTypeOK
<1>7. QED
  BY <1>1, <1>5, <1>6 DEF StillToHear, NobodyHearsTwice

LEMMA PagePublishKeeps ==
  ASSUME PageInv, NEW t \in Page, NEW n \in Note, PagePublish(t, n)
  PROVE  PageInv'
<1> USE DEF PageInv
<1>1. /\ own' = [own EXCEPT ![t] = own[t] \cup {n}] /\ flight' = flight \cup ({n} \X channels)
      /\ \A u \in Page : <<u, n>> \notin heard
      /\ UNCHANGED <<online, channels, requests, replies>>
  BY DEF PagePublish, Posts
<1>2. PICK handlers \in SUBSET {<<t, n>>} : heard' = heard \cup handlers /\ again' = again \cup (heard \cap handlers)
  BY DEF PagePublish, Hears
<1>3. again' = again
  BY <1>1, <1>2
<1>4. PageTypeOK'
  BY <1>1, <1>2, <1>3 DEF PageTypeOK
<1>5. ASSUME NEW m \in Note, NEW u \in Page, <<m, <<u, "sub">>>> \in flight'
      PROVE  m \in own'[u] \/ <<u, m>> \notin heard'
  <2>1. CASE m = n /\ u = t
    BY <1>1, <2>1 DEF PageTypeOK
  <2>2. CASE m = n /\ u # t
    BY <1>1, <1>2, <2>2
  <2>3. CASE m # n
    <3>1. <<m, <<u, "sub">>>> \in flight /\ own[u] \subseteq own'[u] /\ (<<u, m>> \in heard' => <<u, m>> \in heard)
      BY <1>1, <1>2, <1>5, <2>3 DEF PageTypeOK
    <3>2. QED
      BY <3>1 DEF StillToHear
  <2>4. QED
    BY <2>1, <2>2, <2>3
<1>6. QED
  BY <1>3, <1>4, <1>5 DEF StillToHear, NobodyHearsTwice

LEMMA ReceiveNoteKeeps ==
  ASSUME PageInv, NEW n, NEW c, ReceiveNote(n, c)
  PROVE  PageInv'
<1> USE DEF PageInv
<1>1. /\ n \in Note /\ <<n, c>> \in flight /\ flight' = flight \ {<<n, c>>}
      /\ UNCHANGED <<online, channels, own, requests, replies>>
  BY DEF ReceiveNote
<1>2. c \in channels /\ c[1] \in Page /\ c = <<c[1], c[2]>>
  BY <1>1 DEF PageTypeOK
<1>3. CASE UNCHANGED <<heard, again>>
  BY <1>1, <1>3 DEF PageTypeOK, StillToHear, NobodyHearsTwice
<1>4. CASE c[2] = "sub" /\ n \notin own[c[1]] /\ Hears({<<c[1], n>>})
  <2>1. <<c[1], n>> \notin heard
    BY <1>1, <1>2, <1>4 DEF StillToHear
  <2>2. again' = again /\ heard' = heard \cup {<<c[1], n>>}
    BY <1>4, <2>1 DEF Hears
  <2>3. PageTypeOK' /\ NobodyHearsTwice'
    BY <1>1, <1>2, <2>2 DEF PageTypeOK, NobodyHearsTwice
  <2>4. StillToHear'
    BY <1>1, <1>2, <1>4, <2>2 DEF StillToHear
  <2>5. QED
    BY <2>3, <2>4
<1>5. QED
  BY <1>3, <1>4 DEF ReceiveNote, HandsOver

LEMMA SettlesTypes ==
  ASSUME PageTypeOK, NEW r \in Inquiry, NEW how \in {"answered", "echoed", "timeout"}, Settles(r, how)
  PROVE  requests' \in
           [Inquiry -> [by: Page \cup {"nobody"}, how: {"unmade", "waiting", "answered", "echoed", "timeout", "disconnected"}]]
BY DEF PageTypeOK, Settles

LEMMA RequestsOfPagesKeep ==
  ASSUME PageInv, NEW r \in Inquiry,
         \/ \E t \in Page : PageRequest(t, r)
         \/ ReceiveReply(r) \/ PageTimesOut(r)
  PROVE  PageInv'
<1> USE DEF PageInv
<1>1. UNCHANGED <<online, channels, own, heard, again>> /\ replies' \subseteq Inquiry
  BY DEF PageRequest, ReceiveReply, PageTimesOut, PageTypeOK
<1>2. flight' \subseteq (Note \cup Inquiry) \X channels /\ \A f \in flight' \ flight : f[1] = r
  BY DEF PageRequest, ReceiveReply, PageTimesOut, Posts, PageTypeOK
<1>3. requests' \in
        [Inquiry -> [by: Page \cup {"nobody"}, how: {"unmade", "waiting", "answered", "echoed", "timeout", "disconnected"}]]
  <2>1. ASSUME NEW t \in Page, PageRequest(t, r)
        PROVE  requests' \in [Inquiry -> [by: Page \cup {"nobody"},
                                 how: {"unmade", "waiting", "answered", "echoed", "timeout", "disconnected"}]]
    BY <2>1 DEF PageRequest, PageTypeOK
  <2>2. QED
    BY <2>1, SettlesTypes DEF ReceiveReply, PageTimesOut
<1>4. PageTypeOK'
  BY <1>1, <1>2, <1>3 DEF PageTypeOK
<1>5. \A n \in Note, u \in Page : <<n, <<u, "sub">>>> \in flight' => <<n, <<u, "sub">>>> \in flight
  <2>1. r \notin Note
    BY PageAssumption
  <2>2. QED
    BY <1>2, <2>1
<1>6. QED
  BY <1>1, <1>4, <1>5 DEF StillToHear, NobodyHearsTwice

LEMMA ReceiveRequestKeeps ==
  ASSUME PageInv, NEW r, NEW c, ReceiveRequest(r, c)
  PROVE  PageInv'
<1> USE DEF PageInv
<1>1. /\ r \in Inquiry /\ <<r, c>> \in flight /\ flight' = flight \ {<<r, c>>} /\ r \notin Note
      /\ UNCHANGED <<online, channels, own>>
  BY PageAssumption DEF ReceiveRequest
<1>2. c[1] \in Page
  BY <1>1 DEF PageTypeOK
<1>3. replies' \subseteq Inquiry /\ (UNCHANGED <<heard, again>> \/ Hears({<<c[1], r>>}))
  BY <1>1 DEF ReceiveRequest, PageTypeOK
<1>4. requests' \in
        [Inquiry -> [by: Page \cup {"nobody"}, how: {"unmade", "waiting", "answered", "echoed", "timeout", "disconnected"}]]
  <2>1. requests' = requests \/ Settles(r, "echoed")
    BY DEF ReceiveRequest
  <2>2. QED
    BY <1>1, <2>1, SettlesTypes DEF PageTypeOK
<1>5. heard' \subseteq heard \cup {<<c[1], r>>} /\ again' \subseteq again \cup {<<c[1], r>>} /\ again' \subseteq heard'
  BY <1>3 DEF Hears, PageTypeOK
<1>6. PageTypeOK'
  BY <1>1, <1>2, <1>3, <1>4, <1>5 DEF PageTypeOK
<1>7. QED
  BY <1>1, <1>5, <1>6 DEF StillToHear, NobodyHearsTwice

LEMMA PageKeeps == PageInv /\ [PageNext]_pageVars => PageInv'
<1> SUFFICES ASSUME PageInv, [PageNext]_pageVars PROVE PageInv'
  OBVIOUS
<1>1. ASSUME NEW t \in Page, PageConnect(t) \/ \E kind \in {"sub", "reply"} : OpenChannel(t, kind) PROVE PageInv'
  BY <1>1 DEF PageConnect, OpenChannel, PageInv, PageTypeOK, StillToHear, NobodyHearsTwice
<1>2. ASSUME NEW t \in Page, PageUnsubscribe(t) PROVE PageInv'
  BY <1>2 DEF PageUnsubscribe, Closes, PageInv, PageTypeOK, StillToHear, NobodyHearsTwice
<1>3. ASSUME UNCHANGED pageVars PROVE PageInv'
  BY <1>3 DEF pageVars, PageInv, PageTypeOK, StillToHear, NobodyHearsTwice
<1>4. QED
  BY <1>1, <1>2, <1>3, DisconnectKeeps, PagePublishKeeps, ReceiveNoteKeeps, RequestsOfPagesKeep, ReceiveRequestKeeps
  DEF PageNext

\* Though every page hears the channel it posts on, no subscription is handed a
\* message twice, whatever channels are closed and opened meanwhile.
THEOREM NotesAreHeardOnce == PageSpec => []NobodyHearsTwice
<1>1. PageInv => NobodyHearsTwice
  BY DEF PageInv
<1>2. QED
  BY <1>1, PageStarts, PageKeeps, PTL DEF PageSpec

-----------------------------------------------------------------------------
(* The tabs and their leader.                                              *)

TabSpec == TabInit /\ [][TabNext]_tabVars

Letters == [type: {"hello", "goodbye", "announce"}, item: {"none"}, to: Tab]
             \cup [type: {"offer", "claim", "done"}, item: Work, to: Tab]
             \cup [type: {"heartbeat"}, leads: BOOLEAN, load: Nat]
Net == [Tab -> [Tab -> Seq(Letters)]]

TabTyped ==
  /\ tabs \in [Tab -> {"new", "open", "closed"}] /\ lead \in [Tab -> BOOLEAN]
  /\ known \in [Tab -> SUBSET Tab]
  /\ view \in [Tab -> [Tab -> [leads: BOOLEAN, load: Nat]]]
  /\ votes \in [Tab -> 0 .. 1]
  /\ running \subseteq Tab \X Work /\ IsFiniteSet(running)
  /\ promised \subseteq Work \X Tab \X {"waiting", "settled"}
  /\ wire \in Net /\ Roomy(wire)

\* A tab that is not yet open leads nobody.
NewTabsFollow == \A t \in Tab : tabs[t] = "new" => ~lead[t]

TabInv == TabTyped /\ NewTabsFollow /\ TwoLeadersOnlyInFlight

Announces(s) == \E i \in DOMAIN s : s[i].type = "announce"

LEMMA AnnouncedIs == \A p, q \in Tab : Announced(p, q) <=> Announces(wire[p][q])
BY DEF Announced, Announces

\* What a tab broadcasts reaches the wires to the other open tabs, behind what is there.
LEMMA SentReaches ==
  ASSUME NEW net \in Net, NEW t \in Tab, NEW m \in Letters
  PROVE  /\ Sent(net, t, m) \in Net
         /\ \A p, q \in Tab : Announces(net[p][q]) => Announces(Sent(net, t, m)[p][q])
         /\ m.type = "announce" => \A q \in Open \ {t} : Announces(Sent(net, t, m)[t][q])
<1> DEFINE after == Sent(net, t, m)
<1>1. after = [net EXCEPT ![t] = [o \in Tab |-> IF o \in Open \ {t} THEN Append(net[t][o], m) ELSE net[t][o]]]
  BY DEF Sent, Net
<1>2. \A p, q \in Tab : after[p][q] = IF p = t /\ q \in Open \ {t} THEN Append(net[p][q], m) ELSE net[p][q]
  BY <1>1 DEF Net
<1>3. ASSUME NEW s \in Seq(Letters)
      PROVE  /\ Append(s, m) \in Seq(Letters) /\ Announces(s) => Announces(Append(s, m))
             /\ m.type = "announce" => Announces(Append(s, m))
  <2>1. /\ Append(s, m) \in Seq(Letters) /\ Len(s) \in Nat /\ DOMAIN s = 1 .. Len(s)
        /\ DOMAIN Append(s, m) = 1 .. Len(s) + 1
        /\ \A i \in 1 .. Len(s) : Append(s, m)[i] = s[i]
        /\ Append(s, m)[Len(s) + 1] = m
    BY AppendProperties, LenProperties
  <2>2. QED
    BY <2>1 DEF Announces
<1>4. \A p, q \in Tab : net[p][q] \in Seq(Letters)
  BY DEF Net
<1> HIDE DEF after
<1>5. after \in Net
  <2>1. [o \in Tab |-> IF o \in Open \ {t} THEN Append(net[t][o], m) ELSE net[t][o]] \in [Tab -> Seq(Letters)]
    BY <1>3, <1>4
  <2>2. QED
    BY <1>1, <2>1 DEF Net
<1>6. QED
  BY <1>2, <1>3, <1>4, <1>5 DEF after, Open

\* Types of the messages.
LEMMA LettersAre ==
  /\ \A type \in {"hello", "goodbye", "announce"}, t \in Tab : Plain(type, t) \in Letters /\ Plain(type, t).type = type
  /\ \A type \in {"offer", "claim", "done"}, item \in Work, t \in Tab :
       TabMessage(type, item, t) \in Letters /\ TabMessage(type, item, t).type = type
  /\ TabTyped => \A t \in Tab : Heartbeat(t) \in Letters
<1>1. /\ \A type \in {"hello", "goodbye", "announce"}, t \in Tab : Plain(type, t) \in Letters /\ Plain(type, t).type = type
      /\ \A type \in {"offer", "claim", "done"}, item \in Work, t \in Tab :
           TabMessage(type, item, t) \in Letters /\ TabMessage(type, item, t).type = type
  BY DEF Letters, Plain, TabMessage
<1>2. ASSUME TabTyped, NEW t \in Tab PROVE Heartbeat(t) \in Letters
  <2> DEFINE mine == {r \in running : r[1] = t}
  <2>1. IsFiniteSet(mine)
    BY <1>2, FS_Subset DEF TabTyped
  <2>2. Cardinality(mine) \in Nat
    BY <2>1, FS_CardinalityType
  <2>3. Heartbeat(t) = [type |-> "heartbeat", leads |-> lead[t], load |-> Cardinality(mine)] /\ lead[t] \in BOOLEAN
    BY <1>2 DEF Heartbeat, TabTyped
  <2> HIDE DEF mine
  <2>4. QED
    BY <2>2, <2>3 DEF Letters
<1>3. QED
  BY <1>1, <1>2

\* Leaders that were leaders stay told of each other if nothing takes the
\* announcements between them away.
LEMMA ToldStays ==
  ASSUME TabInv, tabs' \in [Tab -> {"new", "open", "closed"}],
         \A p \in Open' : lead'[p] => p \in Open /\ lead[p],
         \A p, q \in Open' : p # q /\ lead'[p] /\ lead'[q] /\ Announces(wire[p][q]) => Announces(wire'[p][q])
  PROVE  TwoLeadersOnlyInFlight'
<1>1. SUFFICES ASSUME NEW p \in Open', NEW q \in Open', p # q, lead'[p], lead'[q]
               PROVE  Announces(wire'[p][q]) \/ Announces(wire'[q][p])
  BY DEF TwoLeadersOnlyInFlight, Announced, Announces
<1>2. Announces(wire[p][q]) \/ Announces(wire[q][p])
  BY <1>1 DEF TabInv, TwoLeadersOnlyInFlight, Announced, Announces
<1>3. QED
  BY <1>1, <1>2

LEMMA InitializeKeeps ==
  ASSUME TabInv, NEW t \in Tab, TabInitialize(t)
  PROVE  TabInv'
<1> USE DEF TabInv
<1>1. /\ tabs[t] = "new" /\ tabs' = [tabs EXCEPT ![t] = "open"] /\ known' = [known EXCEPT ![t] = {t}]
      /\ votes' = [votes EXCEPT ![t] = 1] /\ wire' = Sent(wire, t, Plain("hello", t)) /\ Roomy(wire')
      /\ UNCHANGED <<lead, view, running, promised>>
  BY DEF TabInitialize, Broadcast
<1>2. wire' \in Net /\ \A p, q \in Tab : Announces(wire[p][q]) => Announces(wire'[p][q])
  BY <1>1, LettersAre, SentReaches DEF TabTyped
<1>3. TabTyped'
  BY <1>1, <1>2 DEF TabTyped
<1>4. NewTabsFollow'
  BY <1>1 DEF TabTyped, NewTabsFollow
<1>5. \A p \in Open' : lead'[p] => p \in Open /\ lead[p]
  BY <1>1 DEF Open, TabTyped, NewTabsFollow
<1>6. QED
  BY <1>2, <1>3, <1>4, <1>5, ToldStays DEF TabTyped, Open

\* A tab elects itself only with an announcement to every other open tab.
LEMMA ElectionKeeps ==
  ASSUME TabInv, NEW t \in Tab, ElectionTimer(t)
  PROVE  TabInv'
<1> USE DEF TabInv
<1>1. /\ t \in Open /\ votes[t] > 0 /\ votes' = [votes EXCEPT ![t] = votes[t] - 1]
      /\ UNCHANGED <<tabs, known, view, running, promised>>
  BY DEF ElectionTimer
<1>2. votes' \in [Tab -> 0 .. 1]
  BY <1>1 DEF TabTyped
<1>3. CASE UNCHANGED <<lead, wire>>
  BY <1>1, <1>2, <1>3 DEF TabTyped, NewTabsFollow, TwoLeadersOnlyInFlight, Open, Announced
<1>4. CASE /\ lead' = [lead EXCEPT ![t] = TRUE]
           /\ wire' = Sent(wire, t, Plain("announce", t)) /\ Roomy(wire')
  <2>1. /\ wire' \in Net /\ \A p, q \in Tab : Announces(wire[p][q]) => Announces(wire'[p][q])
        /\ \A q \in Open \ {t} : Announces(wire'[t][q])
    BY <1>4, LettersAre, SentReaches DEF TabTyped
  <2>2. TabTyped' /\ NewTabsFollow'
    BY <1>1, <1>2, <1>4, <2>1 DEF TabTyped, NewTabsFollow, Open
  <2>3. ASSUME NEW p \in Open', NEW q \in Open', p # q, lead'[p], lead'[q]
        PROVE  Announces(wire'[p][q]) \/ Announces(wire'[q][p])
    <3>1. p \in Open /\ q \in Open /\ p \in Tab /\ q \in Tab
      BY <1>1, <2>3 DEF Open
    <3>2. CASE p = t \/ q = t
      BY <2>1, <2>3, <3>1, <3>2
    <3>3. CASE p # t /\ q # t
      <4>1. lead[p] /\ lead[q]
        BY <1>4, <2>3, <3>1, <3>3 DEF TabTyped
      <4>2. Announces(wire[p][q]) \/ Announces(wire[q][p])
        BY <2>3, <3>1, <4>1 DEF TwoLeadersOnlyInFlight, Announced, Announces
      <4>3. QED
        BY <2>1, <3>1, <4>2
    <3>4. QED
      BY <3>2, <3>3
  <2>4. TwoLeadersOnlyInFlight'
    BY <2>3 DEF TwoLeadersOnlyInFlight, Announced, Announces
  <2>5. QED
    BY <2>2, <2>4
<1>5. QED
  BY <1>3, <1>4 DEF ElectionTimer, Broadcast

\* Steps that elect nobody and only add to the wires.
LEMMA GrowthKeeps ==
  ASSUME TabInv, UNCHANGED <<tabs, lead>>, known' \in [Tab -> SUBSET Tab],
         view' \in [Tab -> [Tab -> [leads: BOOLEAN, load: Nat]]], votes' \in [Tab -> 0 .. 1],
         running' \subseteq Tab \X Work, IsFiniteSet(running'),
         promised' \subseteq Work \X Tab \X {"waiting", "settled"}, wire' \in Net, Roomy(wire'),
         \A p, q \in Tab : Announces(wire[p][q]) => Announces(wire'[p][q])
  PROVE  TabInv'
<1>1. TabTyped' /\ NewTabsFollow'
  BY DEF TabInv, TabTyped, NewTabsFollow
<1>2. TwoLeadersOnlyInFlight'
  BY <1>1, ToldStays DEF TabTyped, Open
<1>3. QED
  BY <1>1, <1>2 DEF TabInv

View == [leads: BOOLEAN, load: Nat]

LEMMA ViewSet ==
  ASSUME NEW v \in [Tab -> [Tab -> View]], NEW t \in Tab, NEW o \in Tab, NEW r \in View
  PROVE  [v EXCEPT ![t][o] = r] \in [Tab -> [Tab -> View]]
<1>1. [v[t] EXCEPT ![o] = r] \in [Tab -> View]
  OBVIOUS
<1>2. [v EXCEPT ![t][o] = r] = [v EXCEPT ![t] = [v[t] EXCEPT ![o] = r]]
  OBVIOUS
<1>3. QED
  BY <1>1, <1>2

LEMMA AssignTypes ==
  ASSUME TabTyped, NEW t \in Tab, NEW item \in Work, NEW net \in Net, AssignWork(t, item, net)
  PROVE  /\ view' \in [Tab -> [Tab -> [leads: BOOLEAN, load: Nat]]] /\ wire' \in Net
         /\ \A p, q \in Tab : Announces(net[p][q]) => Announces(wire'[p][q])
<1>1. CASE wire' = net /\ view' = view
  BY <1>1 DEF TabTyped
<1>2. ASSUME NEW o \in Candidates(t), view' = [view EXCEPT ![t][o].load = @ + 1],
             wire' = Sent(net, t, TabMessage("claim", item, o))
      PROVE  /\ view' \in [Tab -> [Tab -> [leads: BOOLEAN, load: Nat]]] /\ wire' \in Net
             /\ \A p, q \in Tab : Announces(net[p][q]) => Announces(wire'[p][q])
  <2>1. o \in Tab
    BY <1>2 DEF Candidates, TabTyped
  <2>2. view' \in [Tab -> [Tab -> [leads: BOOLEAN, load: Nat]]]
    <3> DEFINE r == [view[t][o] EXCEPT !.load = view[t][o].load + 1]
    <3>1. view \in [Tab -> [Tab -> View]]
      BY DEF TabTyped, View
    <3>2. \A u \in View : [u EXCEPT !.load = u.load + 1] \in View
      BY DEF View
    <3>3. r \in View
      BY <2>1, <3>1, <3>2
    <3>4. view' = [view EXCEPT ![t][o] = r]
      BY <1>2
    <3> HIDE DEF r
    <3>5. view' \in [Tab -> [Tab -> View]]
      BY <2>1, <3>1, <3>3, <3>4, ViewSet
    <3>6. QED
      BY <3>5 DEF View
  <2>3. TabMessage("claim", item, o) \in Letters
    BY <2>1, LettersAre
  <2>4. QED
    BY <1>2, <2>2, <2>3, SentReaches
<1>3. QED
  BY <1>1, <1>2 DEF AssignWork

LEMMA TabCallsKeep ==
  ASSUME TabInv, NEW t \in Tab,
         \/ TabBeats(t) \/ \E o \in Tab : TabSuspects(t, o)
         \/ \E item \in Work : ExecuteWork(t, item) \/ ExecuteWorkLocally(t, item)
  PROVE  TabInv'
<1>1. TabTyped
  BY DEF TabInv
<1>2. CASE TabBeats(t)
  <2>1. wire' = Sent(wire, t, Heartbeat(t)) /\ Roomy(wire') /\ UNCHANGED <<tabs, lead, known, view, votes, running, promised>>
    BY <1>2 DEF TabBeats, Broadcast
  <2>2. wire' \in Net /\ \A p, q \in Tab : Announces(wire[p][q]) => Announces(wire'[p][q])
    BY <1>1, <2>1, LettersAre, SentReaches DEF TabTyped
  <2>3. QED
    BY <1>1, <2>1, <2>2, GrowthKeeps DEF TabTyped
<1>3. ASSUME NEW o \in Tab, TabSuspects(t, o) PROVE TabInv'
  <2>1. /\ known' = [known EXCEPT ![t] = known[t] \ {o}] /\ votes' = [votes EXCEPT ![t] = IF view[t][o].leads THEN 1 ELSE votes[t]]
        /\ UNCHANGED <<tabs, lead, view, wire, running, promised>>
    BY <1>3 DEF TabSuspects
  <2>2. known' \in [Tab -> SUBSET Tab] /\ votes' \in [Tab -> 0 .. 1]
    BY <1>1, <2>1 DEF TabTyped
  <2>3. QED
    BY <1>1, <2>1, <2>2, GrowthKeeps DEF TabTyped
<1>4. ASSUME NEW item \in Work, ExecuteWork(t, item) PROVE TabInv'
  <2>1. /\ promised' = promised \cup {<<item, t, "waiting">>} /\ Roomy(wire')
        /\ UNCHANGED <<tabs, lead, known, votes, running>>
    BY <1>4 DEF ExecuteWork
  <2>2. /\ view' \in [Tab -> [Tab -> [leads: BOOLEAN, load: Nat]]] /\ wire' \in Net
        /\ \A p, q \in Tab : Announces(wire[p][q]) => Announces(wire'[p][q])
    <3>1. wire \in Net /\ TabMessage("offer", item, t) \in Letters
      BY <1>1, LettersAre DEF TabTyped
    <3>2. CASE AssignWork(t, item, wire)
      BY <1>1, <3>1, <3>2, AssignTypes
    <3>3. CASE wire' = Sent(wire, t, TabMessage("offer", item, t)) /\ view' = view
      BY <1>1, <3>1, <3>3, SentReaches DEF TabTyped
    <3>4. QED
      BY <1>4, <3>2, <3>3 DEF ExecuteWork
  <2>3. QED
    BY <1>1, <2>1, <2>2, GrowthKeeps DEF TabTyped
<1>5. ASSUME NEW item \in Work, ExecuteWorkLocally(t, item) PROVE TabInv'
  <2>1. running' = running \ {<<t, item>>} /\ UNCHANGED <<tabs, lead, known, view, votes, promised>>
    BY <1>5 DEF ExecuteWorkLocally
  <2>2. wire' \in Net /\ Roomy(wire') /\ \A p, q \in Tab : Announces(wire[p][q]) => Announces(wire'[p][q])
    <3>1. CASE wire' = wire
      BY <1>1, <3>1 DEF TabTyped
    <3>2. CASE wire' = Sent(wire, t, TabMessage("done", item, t)) /\ Roomy(wire')
      BY <1>1, <3>2, LettersAre, SentReaches DEF TabTyped
    <3>3. QED
      BY <1>5, <3>1, <3>2 DEF ExecuteWorkLocally, Broadcast
  <2>3. running' \subseteq Tab \X Work /\ IsFiniteSet(running')
    BY <1>1, <2>1, FS_Subset DEF TabTyped
  <2>4. QED
    BY <1>1, <2>1, <2>2, <2>3, GrowthKeeps DEF TabTyped
<1>6. QED
  BY <1>2, <1>3, <1>4, <1>5

\* Taking the first message off a wire.
LEMMA NetTail ==
  ASSUME NEW f \in Tab, NEW t \in Tab, wire \in Net, wire[f][t] # <<>>
  PROVE  LET net == [wire EXCEPT ![f][t] = Tail(@)] IN
         /\ net \in Net /\ Head(wire[f][t]) \in Letters
         /\ \A p, q \in Tab : Announces(wire[p][q]) =>
              Announces(net[p][q]) \/ (p = f /\ q = t /\ Head(wire[f][t]).type = "announce")
<1> DEFINE net == [wire EXCEPT ![f][t] = Tail(@)]
           s == wire[f][t]
           tail == Tail(s)
<1>1. s \in Seq(Letters)
  BY DEF Net
<1>2. /\ tail \in Seq(Letters) /\ Head(s) \in Letters /\ Head(s) = s[1] /\ Len(tail) = Len(s) - 1 /\ Len(s) \in Nat \ {0}
      /\ \A i \in 1 .. Len(tail) : tail[i] = s[i + 1]
      /\ DOMAIN s = 1 .. Len(s) /\ DOMAIN tail = 1 .. Len(tail)
  BY <1>1, HeadTailProperties, LenProperties, EmptySeq
<1>3. net = [wire EXCEPT ![f] = [wire[f] EXCEPT ![t] = tail]] /\ [wire[f] EXCEPT ![t] = tail] \in [Tab -> Seq(Letters)]
  BY <1>2 DEF Net
<1>4. net \in Net
  BY <1>3 DEF Net
<1>5. \A p, q \in Tab : net[p][q] = IF p = f /\ q = t THEN tail ELSE wire[p][q]
  BY <1>3 DEF Net
<1> HIDE DEF tail, s, net
<1>6. ASSUME Announces(s) PROVE Announces(tail) \/ Head(s).type = "announce"
  <2>1. PICK i \in 1 .. Len(s) : s[i].type = "announce"
    BY <1>2, <1>6 DEF Announces
  <2>2. CASE i = 1
    BY <1>2, <2>1, <2>2
  <2>3. CASE i # 1
    <3>1. i - 1 \in 1 .. Len(tail) /\ tail[i - 1] = s[i]
      BY <1>2, <2>3
    <3>2. QED
      BY <1>2, <2>1, <3>1 DEF Announces
  <2>4. QED
    BY <2>2, <2>3
<1>7. QED
  BY <1>2, <1>4, <1>5, <1>6 DEF net, s

\* A tab handles a message: one that announces a leader deposes it.
LEMMA HandleKeeps ==
  ASSUME TabInv, NEW f \in Tab, NEW t \in Tab, HandleBroadcast(f, t)
  PROVE  TabInv'
<1> DEFINE m == Head(wire[f][t])
           net == [wire EXCEPT ![f][t] = Tail(@)]
<1>1. TabTyped /\ wire \in Net /\ wire[f][t] # <<>>
  BY DEF TabInv, TabTyped, HandleBroadcast
<1>2. /\ net \in Net /\ m \in Letters
      /\ \A p, q \in Tab : Announces(wire[p][q]) => Announces(net[p][q]) \/ (p = f /\ q = t /\ m.type = "announce")
  BY <1>1, NetTail
<1>3. \/ HandleMembership(f, t, m, net) /\ UNCHANGED <<running, promised>>
      \/ HandleWork(t, m, net) /\ UNCHANGED <<lead, known>>
  BY DEF HandleBroadcast
<1>4. Roomy(wire') /\ UNCHANGED <<tabs, votes>>
  BY DEF HandleBroadcast
<1> HIDE DEF net, m
<1>5. NoView \in View
  BY DEF NoView, View
<1>6. view \in [Tab -> [Tab -> View]] /\ view[t][f] \in View
  BY <1>1 DEF TabTyped, View
\* What the message does beside the leader.
<1>7. /\ known' \in [Tab -> SUBSET Tab] /\ view' \in [Tab -> [Tab -> View]] /\ wire' \in Net
      /\ \A p, q \in Tab : Announces(net[p][q]) => Announces(wire'[p][q])
      /\ running' \subseteq Tab \X Work /\ IsFiniteSet(running')
      /\ promised' \subseteq Work \X Tab \X {"waiting", "settled"}
      /\ (lead' = lead /\ m.type # "announce") \/ lead' = [lead EXCEPT ![t] = FALSE]
  <2>1. /\ known \in [Tab -> SUBSET Tab] /\ running \subseteq Tab \X Work /\ IsFiniteSet(running)
        /\ promised \subseteq Work \X Tab \X {"waiting", "settled"}
    BY <1>1 DEF TabTyped
  <2>2. CASE HandleMembership(f, t, m, net) /\ UNCHANGED <<running, promised>> /\ m.type = "hello"
    <3>1. /\ known' = [known EXCEPT ![t] = known[t] \cup {f}] /\ view' = [view EXCEPT ![t][f] = NoView]
          /\ wire' = Sent(net, t, Heartbeat(t)) /\ lead' = lead
      BY <2>2 DEF HandleMembership
    <3>2. view' \in [Tab -> [Tab -> View]]
      BY <1>5, <1>6, <3>1, ViewSet
    <3>3. wire' \in Net /\ \A p, q \in Tab : Announces(net[p][q]) => Announces(wire'[p][q])
      BY <1>1, <1>2, <3>1, LettersAre, SentReaches
    <3>4. known' \in [Tab -> SUBSET Tab]
      BY <2>1, <3>1
    <3>5. QED
      BY <2>1, <2>2, <3>1, <3>2, <3>3, <3>4
  <2>3. CASE HandleMembership(f, t, m, net) /\ UNCHANGED <<running, promised>> /\ m.type = "goodbye"
    BY <1>2, <1>6, <2>1, <2>3 DEF HandleMembership
  <2>4. CASE HandleMembership(f, t, m, net) /\ UNCHANGED <<running, promised>> /\ m.type = "heartbeat"
    <3>1. /\ view' = IF f \in known[t] THEN [view EXCEPT ![t][f] = [leads |-> m.leads, load |-> m.load]] ELSE view
          /\ wire' = net /\ UNCHANGED <<lead, known>>
      BY <2>4 DEF HandleMembership
    <3>2. [leads |-> m.leads, load |-> m.load] \in View
      BY <1>2, <2>4 DEF Letters, View
    <3>3. view' \in [Tab -> [Tab -> View]]
      BY <1>6, <3>1, <3>2, ViewSet
    <3>4. QED
      BY <1>2, <2>1, <2>4, <3>1, <3>3
  <2>5. CASE HandleMembership(f, t, m, net) /\ UNCHANGED <<running, promised>> /\ m.type = "announce"
    <3> DEFINE r == [view[t][f] EXCEPT !.leads = TRUE]
    <3>1. /\ lead' = [lead EXCEPT ![t] = FALSE]
          /\ view' = IF f \in known[t] THEN [view EXCEPT ![t][f] = r] ELSE view
          /\ wire' = net /\ UNCHANGED known
      BY <2>5 DEF HandleMembership, DeposedBy
    <3>2. r \in View
      BY <1>6 DEF View
    <3> HIDE DEF r
    <3>3. view' \in [Tab -> [Tab -> View]]
      BY <1>6, <3>1, <3>2, ViewSet
    <3>4. QED
      BY <1>2, <2>1, <2>5, <3>1, <3>3
  <2>6. CASE HandleWork(t, m, net) /\ UNCHANGED <<lead, known>>
    <3>1. m.type \in {"offer", "claim", "done"} /\ m.item \in Work
      BY <1>2, <2>6 DEF HandleWork, Letters
    <3>2. CASE m.type = "offer"
      <4>1. UNCHANGED <<running, promised>> /\ (AssignWork(t, m.item, net) \/ (wire' = net /\ view' = view))
        BY <2>6, <3>2 DEF HandleWork
      <4>2. /\ view' \in [Tab -> [Tab -> View]] /\ wire' \in Net
            /\ \A p, q \in Tab : Announces(net[p][q]) => Announces(wire'[p][q])
        BY <1>1, <1>2, <1>6, <3>1, <4>1, AssignTypes DEF View
      <4>3. QED
        BY <2>1, <2>6, <3>2, <4>1, <4>2
    <3>3. CASE m.type = "claim"
      <4>1. /\ running' = IF m.to = t THEN running \cup {<<t, m.item>>} ELSE running
            /\ wire' = net /\ UNCHANGED <<view, promised>>
        BY <2>6, <3>3 DEF HandleWork
      <4>2. running' \subseteq Tab \X Work /\ IsFiniteSet(running')
        <5>1. IsFiniteSet(running \cup {<<t, m.item>>})
          BY <2>1, FS_AddElement
        <5>2. QED
          BY <2>1, <3>1, <4>1, <5>1
      <4>3. QED
        BY <1>2, <1>6, <2>1, <2>6, <3>3, <4>1, <4>2
    <3>4. CASE m.type = "done"
      <4>1. /\ promised' = {IF p = <<m.item, t, "waiting">> THEN <<m.item, t, "settled">> ELSE p : p \in promised}
            /\ wire' = net /\ UNCHANGED <<view, running>>
        BY <2>6, <3>4 DEF HandleWork
      <4>2. promised' \subseteq Work \X Tab \X {"waiting", "settled"}
        BY <2>1, <3>1, <4>1
      <4>3. QED
        BY <1>2, <1>6, <2>1, <2>6, <3>4, <4>1, <4>2
    <3>5. QED
      BY <3>1, <3>2, <3>3, <3>4
  <2>7. QED
    BY <1>3, <2>2, <2>3, <2>4, <2>5, <2>6 DEF HandleMembership
<1>8. TabTyped' /\ NewTabsFollow'
  BY <1>1, <1>4, <1>7 DEF TabInv, TabTyped, NewTabsFollow, View
<1>9. TwoLeadersOnlyInFlight'
  <2>1. \A p \in Open' : p \in Open /\ p \in Tab /\ (lead'[p] => lead[p])
    BY <1>1, <1>4, <1>7 DEF Open, TabTyped
  <2>2. ASSUME NEW p \in Open', NEW q \in Open', p # q, lead'[p], lead'[q], Announces(wire[p][q])
        PROVE  Announces(wire'[p][q])
    <3>1. ~(q = t /\ m.type = "announce")
      BY <1>1, <1>7, <2>2 DEF TabTyped
    <3>2. QED
      BY <1>2, <1>7, <2>1, <2>2, <3>1
  <2>3. QED
    BY <1>8, <2>1, <2>2, ToldStays DEF TabTyped
<1>10. QED
  BY <1>8, <1>9 DEF TabInv

LEMMA CloseKeeps ==
  ASSUME TabInv, NEW t \in Tab, TabCloses(t)
  PROVE  TabInv'
<1>1. /\ TabTyped /\ tabs' = [tabs EXCEPT ![t] = "closed"] /\ Roomy(wire')
      /\ UNCHANGED <<lead, known, view, votes, running, promised>>
  BY DEF TabInv, TabCloses
<1>2. PICK last \in {wire} \cup {Sent(wire, t, Plain("goodbye", t))} :
        wire' = [o \in Tab |-> [last[o] EXCEPT ![t] = <<>>]]
  BY DEF TabCloses
<1>3. last \in Net /\ \A p, q \in Tab : Announces(wire[p][q]) => Announces(last[p][q])
  <2>1. wire \in Net
    BY <1>1 DEF TabTyped
  <2>2. Plain("goodbye", t) \in Letters
    BY LettersAre
  <2>3. /\ Sent(wire, t, Plain("goodbye", t)) \in Net
        /\ \A p, q \in Tab :
             Announces(wire[p][q]) => Announces(Sent(wire, t, Plain("goodbye", t))[p][q])
    BY <2>1, <2>2, SentReaches, Zenon
  <2>4. QED
    BY <1>2, <2>1, <2>3, Zenon
<1>4. wire' \in Net
  <2>1. <<>> \in Seq(Letters)
    BY EmptySeq
  <2>2. \A o \in Tab : last[o] \in [Tab -> Seq(Letters)]
    BY <1>3 DEF Net
  <2>3. QED
    BY <1>2, <2>1, <2>2 DEF Net
<1>5. \A p, q \in Tab : q # t => wire'[p][q] = last[p][q]
  BY <1>2, <1>3 DEF Net
<1>6. TabTyped' /\ NewTabsFollow'
  BY <1>1, <1>4 DEF TabInv, TabTyped, NewTabsFollow
<1>7. \A p \in Open' : p \in Open /\ p # t /\ p \in Tab
  BY <1>1 DEF Open, TabTyped
<1>8. TwoLeadersOnlyInFlight'
  BY <1>1, <1>3, <1>5, <1>6, <1>7, ToldStays DEF TabTyped
<1>9. QED
  BY <1>6, <1>8 DEF TabInv

LEMMA TabsStart == TabInit => TabInv
<1> SUFFICES ASSUME TabInit PROVE TabInv
  OBVIOUS
<1>1. wire \in Net /\ Roomy(wire)
  BY EmptySeq, CoordinatorBounds DEF TabInit, Net, Roomy
<1>2. TabTyped /\ NewTabsFollow
  BY <1>1, FS_EmptySet DEF TabInit, TabTyped, NoView, NewTabsFollow
<1>3. TwoLeadersOnlyInFlight
  BY DEF TabInit, Open, TwoLeadersOnlyInFlight
<1>4. QED
  BY <1>2, <1>3 DEF TabInv

LEMMA TabsKeep == TabInv /\ [TabNext]_tabVars => TabInv'
<1> SUFFICES ASSUME TabInv, [TabNext]_tabVars PROVE TabInv'
  OBVIOUS
<1>1. ASSUME UNCHANGED tabVars PROVE TabInv'
  BY <1>1 DEF tabVars, TabInv, TabTyped, NewTabsFollow, TwoLeadersOnlyInFlight, Open, Announced
<1>2. QED
  BY <1>1, InitializeKeeps, ElectionKeeps, TabCallsKeep, HandleKeeps, CloseKeeps DEF TabNext

\* However tabs open, close, fall silent and elect themselves, of two that are open
\* and both take themselves for the leader one has an announcement to come.
THEOREM TabsAgreeOnALeader == TabSpec => []TwoLeadersOnlyInFlight
<1>1. TabInv => TwoLeadersOnlyInFlight
  BY DEF TabInv
<1>2. QED
  BY <1>1, TabsStart, TabsKeep, PTL DEF TabSpec

-----------------------------------------------------------------------------
(* MemoryTransport.                                                           *)

\* A set of natural numbers has a least element.
LEMMA LeastIn ==
  ASSUME NEW S \in SUBSET Nat, S # {}
  PROVE  \E m \in S : \A n \in S : m <= n
<1> DEFINE R == OpToRel(<, Nat)
<1>1. IsWellFoundedOn(R, Nat)
  BY NatLessThanWellFounded
<1>2. \A x, y \in Nat : x < y => <<x, y>> \in R
  BY DEF OpToRel
<1> HIDE DEF R
<1>3. PICK m \in S : \A n \in S : <<n, m>> \notin R
  BY <1>1, WFMin
<1>4. \A n \in S : ~(n < m)
  BY <1>2, <1>3
<1>5. QED
  BY <1>3, <1>4

\* What is asked of the rest of a topic from position i on.
Rest(p, t, i) ==
  IF i > Len(p) THEN Len(p) = Len(t)
  ELSE IF p[i] = ">" THEN i <= Len(t)
  ELSE /\ IF p[Len(p)] = ">" THEN Len(t) >= Len(p) ELSE Len(t) = Len(p)
       /\ \A k \in i .. Len(p) : p[k] = ">" \/ p[k] = "*" \/ p[k] = t[k]

LEMMA RestUnfolds ==
  ASSUME NEW p \in Seq(STRING), NEW t \in Seq(STRING), p # <<>>, \A i \in 1 .. Len(p) - 1 : p[i] # ">",
         NEW i \in 1 .. Len(p), p[i] # ">"
  PROVE  Rest(p, t, i) <=> i <= Len(t) /\ p[i] \in {"*", t[i]} /\ Rest(p, t, i + 1)
<1>1. Len(p) \in Nat \ {0} /\ Len(t) \in Nat
  BY LenProperties, EmptySeq
<1>2. CASE i = Len(p)
  BY <1>1, <1>2 DEF Rest
<1>3. CASE i < Len(p) /\ p[i + 1] = ">"
  <2>1. i + 1 = Len(p)
    BY <1>1, <1>3
  <2>2. \A k \in i .. Len(p) : k = i \/ k = i + 1
    BY <1>1, <2>1
  <2>3. QED
    BY <1>1, <1>3, <2>1, <2>2 DEF Rest
<1>4. CASE i < Len(p) /\ p[i + 1] # ">"
  <2>1. \A k \in i .. Len(p) : k = i \/ k \in i + 1 .. Len(p)
    BY <1>1
  <2>2. i \in i .. Len(p) /\ i + 1 .. Len(p) \subseteq i .. Len(p)
    BY <1>1
  <2>3. QED
    BY <1>1, <1>4, <2>1, <2>2 DEF Rest
<1>5. QED
  BY <1>1, <1>2, <1>3, <1>4

LEMMA MatchesAreByTheBook ==
  ASSUME NEW p \in Seq(STRING), NEW t \in Seq(STRING), p # <<>>, \A i \in 1 .. Len(p) - 1 : p[i] # ">"
  PROVE  TopicMatches(p, t) <=> ByTheBook(p, t)
<1>1. Len(p) \in Nat \ {0} /\ Len(t) \in Nat
  BY LenProperties, EmptySeq
<1> DEFINE D == 1 .. Len(p) + 1
           Body(f) == [i \in D |-> IF i > Len(p) THEN Len(p) = Len(t)
                                   ELSE IF p[i] = ">" THEN i <= Len(t)
                                   ELSE i <= Len(t) /\ p[i] \in {"*", t[i]} /\ f[i + 1]]
           F == CHOOSE f : f = Body(f)
           G == [i \in D |-> Rest(p, t, i)]
<1>2. TopicMatches(p, t) = F[1]
  BY DEF TopicMatches
<1>3. G = Body(G)
  <2>1. \A i \in D : Rest(p, t, i) = (IF i > Len(p) THEN Len(p) = Len(t)
                                      ELSE IF p[i] = ">" THEN i <= Len(t)
                                      ELSE i <= Len(t) /\ p[i] \in {"*", t[i]} /\ Rest(p, t, i + 1))
    <3> TAKE i \in D
    <3>1. CASE i > Len(p)
      BY <3>1 DEF Rest
    <3>2. CASE i \in 1 .. Len(p) /\ p[i] = ">"
      BY <1>1, <3>2 DEF Rest
    <3>3. CASE i \in 1 .. Len(p) /\ p[i] # ">"
      <4>1. Rest(p, t, i) <=> i <= Len(t) /\ p[i] \in {"*", t[i]} /\ Rest(p, t, i + 1)
        BY <3>3, RestUnfolds
      <4>2. Rest(p, t, i) \in BOOLEAN
        BY <1>1, <3>3 DEF Rest
      <4>3. ~(i > Len(p))
        BY <1>1, <3>3
      <4>4. QED
        BY <3>3, <4>1, <4>2, <4>3, Zenon
    <3>4. QED
      BY <1>1, <3>1, <3>2, <3>3
  <2>2. \A i \in D : i <= Len(p) => i + 1 \in D
    BY <1>1
  <2>3. QED
    BY <1>1, <2>1, <2>2
<1>4. F = Body(F)
  BY <1>3, Zenon
<1>5. F[1] = Rest(p, t, 1)
  <2>1. \A i \in D : G[i] = Rest(p, t, i)
    OBVIOUS
  <2>2. \A i \in D : F[i] = IF i > Len(p) THEN Len(p) = Len(t)
                            ELSE IF p[i] = ">" THEN i <= Len(t)
                            ELSE i <= Len(t) /\ p[i] \in {"*", t[i]} /\ F[i + 1]
    BY <1>4, Zenon
  <2>3. \A i \in D : G[i] = IF i > Len(p) THEN Len(p) = Len(t)
                            ELSE IF p[i] = ">" THEN i <= Len(t)
                            ELSE i <= Len(t) /\ p[i] \in {"*", t[i]} /\ G[i + 1]
    BY <1>3, Zenon
  <2> HIDE DEF F, G
  <2> DEFINE B == {n \in Nat : \E i \in D : F[i] # G[i] /\ n = Len(p) + 1 - i}
  <2>4. B = {}
    <3>1. SUFFICES ASSUME B # {} PROVE FALSE
      OBVIOUS
    <3>2. PICK m \in B : \A n \in B : m <= n
      BY <3>1, LeastIn
    <3>3. PICK i \in D : F[i] # G[i] /\ m = Len(p) + 1 - i
      BY <3>2
    <3>4. i <= Len(p) => F[i + 1] = G[i + 1]
      <4>1. ASSUME i <= Len(p), F[i + 1] # G[i + 1] PROVE FALSE
        <5>1. i + 1 \in D /\ Len(p) + 1 - (i + 1) \in Nat /\ Len(p) + 1 - (i + 1) < m
          BY <1>1, <3>3, <4>1
        <5>2. Len(p) + 1 - (i + 1) \in B
          BY <4>1, <5>1
        <5>3. m \in Nat
          OBVIOUS
        <5>4. m <= Len(p) + 1 - (i + 1)
          <6> HIDE DEF B
          <6> QED
            BY <3>2, <5>2
        <5>5. \A x, y \in Nat : x < y => ~(y <= x)
          OBVIOUS
        <5>6. QED
          BY <5>1, <5>3, <5>4, <5>5
      <4>2. QED
        BY <4>1
    <3>5. i > Len(p) \/ i <= Len(p)
      BY <1>1
    <3>6. F[i] = G[i]
      BY <2>2, <2>3, <3>4, <3>5, Zenon
    <3>7. QED
      BY <3>3, <3>6
  <2>5. \A i \in D : F[i] = G[i]
    <3> SUFFICES ASSUME NEW i \in D, F[i] # G[i] PROVE FALSE
      OBVIOUS
    <3>1. Len(p) + 1 - i \in Nat
      BY <1>1
    <3>2. QED
      BY <2>4, <3>1
  <2>6. 1 \in D
    BY <1>1
  <2>7. QED
    BY <2>1, <2>5, <2>6
<1>6. Rest(p, t, 1) <=> ByTheBook(p, t)
  BY <1>1 DEF Rest, ByTheBook
<1>7. QED
  BY <1>2, <1>5, <1>6

-----------------------------------------------------------------------------
(* The subscriptions a call still owes its message to and those that heard    *)
(* it, together, are fixed by the patterns the call started with.             *)
MemoryInv == MemoryTypeOK /\ MatchesHear

MemorySpec == MemoryInit /\ [][MemoryNext]_memoryVars

\* A topic matches itself, the shortcut of the lookup.
LEMMA TopicsMatchThemselves ==
  ASSUME NEW t \in Topic
  PROVE  ByTheBook(t, t)
<1>1. t \in Seq(STRING) /\ t # <<>>
  BY MemoryAssumption DEF Topic
<1>2. Len(t) \in Nat \ {0} /\ DOMAIN t = 1 .. Len(t)
  BY <1>1, LenProperties, EmptySeq
<1>3. ">" \notin {t[i] : i \in DOMAIN t}
  BY <1>1 DEF Topic, ToSet
<1>4. t[Len(t)] # ">"
  BY <1>2, <1>3
<1>5. QED
  BY <1>2, <1>4 DEF ByTheBook

LEMMA LookupIsByTheBook ==
  ASSUME MemoryTypeOK, NEW t \in Topic
  PROVE  FindMatchingSubscriptions(t)
         = {s \in Subscription : patterns[s] # Unsubscribed /\ ByTheBook(patterns[s], t)}
<1>1. ASSUME NEW s \in Subscription, patterns[s] # Unsubscribed
      PROVE  (patterns[s] = t \/ TopicMatches(patterns[s], t)) <=> ByTheBook(patterns[s], t)
  <2>1. patterns[s] \in Pattern
    BY <1>1 DEF MemoryTypeOK
  <2>2. t \in Seq(STRING)
    BY MemoryAssumption DEF Topic
  <2>3. patterns[s] \in Seq(STRING) /\ patterns[s] # <<>> /\ \A i \in 1 .. Len(patterns[s]) - 1 : patterns[s][i] # ">"
    BY <2>1, MemoryAssumption
  <2>4. TopicMatches(patterns[s], t) <=> ByTheBook(patterns[s], t)
    BY <2>2, <2>3, MatchesAreByTheBook
  <2>5. QED
    BY <2>4, TopicsMatchThemselves
<1>2. QED
  BY <1>1 DEF FindMatchingSubscriptions

LEMMA MemoryStarts == MemoryInit => MemoryInv
BY DEF MemoryInit, MemoryInv, MemoryTypeOK, MatchesHear

LEMMA MemoryKeeps == MemoryInv /\ [MemoryNext]_memoryVars => MemoryInv'
<1> DEFINE Publishing == [topic: Topic, had: [Subscription -> Pattern \cup {Unsubscribed}],
                    heard: SUBSET Subscription, due: SUBSET Subscription]
           Due(c) == {s \in Subscription : c.had[s] # Unsubscribed /\ ByTheBook(c.had[s], c.topic)}
<1> SUFFICES ASSUME MemoryInv, [MemoryNext]_memoryVars PROVE MemoryInv'
  OBVIOUS
<1>1. MemoryTypeOK /\ publishing \subseteq Publishing /\ \A c \in publishing : c.heard \cup c.due = Due(c)
  BY DEF MemoryInv, MemoryTypeOK, MatchesHear
<1>2. ASSUME attached' \in BOOLEAN, patterns' \in [Subscription -> Pattern \cup {Unsubscribed}],
             repliers' \subseteq Topic, publishing' \subseteq publishing
      PROVE  MemoryInv'
  BY <1>1, <1>2 DEF MemoryInv, MemoryTypeOK, MatchesHear
<1>3. CASE MemoryConnect
  BY <1>1, <1>2, <1>3 DEF MemoryConnect, MemoryTypeOK
<1>4. CASE MemoryClears
  BY <1>1, <1>2, <1>4 DEF MemoryClears, MemoryTypeOK
<1>5. ASSUME NEW s \in Subscription, MemoryUnsubscribe(s) PROVE MemoryInv'
  BY <1>1, <1>2, <1>5 DEF MemoryUnsubscribe, MemoryTypeOK
<1>6. ASSUME NEW s \in Subscription, NEW p \in Pattern, MemorySubscribe(s, p) PROVE MemoryInv'
  BY <1>1, <1>2, <1>6 DEF MemorySubscribe, MemoryTypeOK
<1>7. ASSUME NEW t \in Topic, MemoryReply(t) PROVE MemoryInv'
  BY <1>1, <1>2, <1>7 DEF MemoryReply, MemoryTypeOK
<1>8. ASSUME NEW t \in Topic, MemoryPublish(t) PROVE MemoryInv'
  <2> DEFINE new == [topic |-> t, had |-> patterns, heard |-> {}, due |-> FindMatchingSubscriptions(t)]
  <2>1. new \in Publishing
    BY <1>1 DEF MemoryTypeOK, FindMatchingSubscriptions
  <2>2. new.heard \cup new.due = Due(new)
    BY <1>1, LookupIsByTheBook
  <2>3. publishing' = publishing \cup {new} /\ UNCHANGED <<attached, patterns, repliers>>
    BY <1>8 DEF MemoryPublish
  <2> HIDE DEF new
  <2>4. QED
    BY <1>1, <2>1, <2>2, <2>3 DEF MemoryInv, MemoryTypeOK, MatchesHear
<1>9. ASSUME NEW call \in publishing, PublishReturns(call) PROVE MemoryInv'
  BY <1>1, <1>2, <1>9 DEF PublishReturns, MemoryTypeOK
<1>10. ASSUME NEW call \in publishing, NEW s \in Subscription, HandlerEnds(call, s) PROVE MemoryInv'
  <2> DEFINE next == [call EXCEPT !.due = @ \ {s}, !.heard = @ \cup {s}]
  <2>1. call \in Publishing /\ s \in call.due /\ call.heard \cup call.due = Due(call)
    BY <1>1, <1>10 DEF HandlerEnds
  <2>2. next \in Publishing
    BY <2>1
  <2>3. next.had = call.had /\ next.topic = call.topic /\ next.heard \cup next.due = call.heard \cup call.due
    BY <2>1
  <2>4. next.heard \cup next.due = Due(next)
    BY <2>1, <2>3
  <2>5. publishing' \subseteq publishing \cup {next} /\ UNCHANGED <<attached, patterns, repliers>>
    BY <1>10 DEF HandlerEnds
  <2> HIDE DEF next
  <2>6. QED
    BY <1>1, <2>2, <2>4, <2>5 DEF MemoryInv, MemoryTypeOK, MatchesHear
<1>11. CASE UNCHANGED memoryVars
  BY <1>1, <1>2, <1>11 DEF memoryVars, MemoryTypeOK
<1>12. QED
  BY <1>3, <1>4, <1>5, <1>6, <1>7, <1>8, <1>9, <1>10, <1>11 DEF MemoryNext

(* A message published inside the process is heard, or still owed, by exactly *)
(* the subscriptions whose pattern matched its topic as documented when it    *)
(* was published (MemoryTransport.publish), for every set of patterns.        *)
THEOREM MatchingSubscriptionsHear == MemorySpec => []MatchesHear
<1>1. MemoryInv => MatchesHear
  BY DEF MemoryInv
<1>2. QED
  BY <1>1, MemoryStarts, MemoryKeeps, PTL DEF MemorySpec
=============================================================================
