-------------------------- MODULE AgentMessageBus --------------------------
(* Message buses over one shared transport (src/distributed/AgentMessageBus.ts, *)
(* InMemoryTransport.ts): messages to one agent, buffered at the sender's bus   *)
(* while nobody subscribes to the agent there, and requests with a timeout.     *)
EXTENDS Naturals, FiniteSets

CONSTANTS
  Bus,          \* message buses with the same backendUrl
  Message,      \* messages sent to the agent
  Request,      \* requests made to the agent
  MaxWires      \* bound: calls of subscribe() by one bus

ASSUME BusAssumption == MaxWires \in Nat

VARIABLES
  busUp,        \* ~isShutdown, per bus
  subscribed,   \* subscriptions: the buses with handlers of the agent
  wires,        \* the transport's handlers of the agent, per bus that set them
  joining,      \* subscribe() calls that await the transport, per bus
  sending,      \* sendTo() calls that await the transport: bus and message
  buffered,     \* messageBuffer: messages kept for the agent, per bus
  handed,       \* history: messages some handler was called with
  lapsed,       \* history: messages dropped because their time to live was over
  pending,      \* pendingRequests, with a timer each
  outcome       \* of each request's promise

busVars == <<busUp, subscribed, wires, joining, sending, buffered, handed, lapsed, pending, outcome>>
mailVars == <<subscribed, wires, joining, sending, buffered, handed, lapsed>>

Outcome == {"unmade", "waiting", "response", "timeout", "shutdown", "threw"}

BusInit ==
  /\ busUp = Bus
  /\ subscribed = {}
  /\ wires = [b \in Bus |-> 0] /\ joining = [b \in Bus |-> 0]
  /\ sending = {}
  /\ buffered = [b \in Bus |-> {}]
  /\ handed = {} /\ lapsed = {}
  /\ pending = {}
  /\ outcome = [r \in Request |-> "unmade"]

Known == handed \cup lapsed \cup {s[2] : s \in sending} \cup UNION {buffered[b] : b \in Bus}

(* sendTo: the transport calls the handlers that the other buses set. They *)
(* stay set when their bus unsubscribes or shuts down.                     *)
SendTo(b, m) ==
  /\ b \in busUp /\ m \notin Known
  /\ sending' = sending \cup {<<b, m>>}
  /\ handed' = IF \E c \in Bus \ {b} : wires[c] > 0 THEN handed \cup {m} ELSE handed
  /\ UNCHANGED <<busUp, subscribed, wires, joining, buffered, lapsed, pending, outcome>>

\* Then the handlers of this bus, or its buffer if there are none.
Published(b, m) ==
  /\ <<b, m>> \in sending
  /\ sending' = sending \ {<<b, m>>}
  /\ IF b \in subscribed
     THEN handed' = handed \cup {m} /\ UNCHANGED buffered
     ELSE buffered' = [buffered EXCEPT ![b] = @ \cup {m}] /\ UNCHANGED handed
  /\ UNCHANGED <<busUp, subscribed, wires, joining, lapsed, pending, outcome>>

Subscribe(b) ==
  /\ wires[b] < MaxWires
  /\ subscribed' = subscribed \cup {b}
  /\ wires' = [wires EXCEPT ![b] = @ + 1]
  /\ joining' = [joining EXCEPT ![b] = @ + 1]
  /\ UNCHANGED <<busUp, sending, buffered, handed, lapsed, pending, outcome>>

\* The buffered messages are handed over, those past their time to live dropped.
Drained(b, old) ==
  /\ handed' = handed \cup (buffered[b] \ old)
  /\ lapsed' = lapsed \cup old
  /\ buffered' = [buffered EXCEPT ![b] = {}]

Subscribed(b) ==
  /\ joining[b] > 0
  /\ joining' = [joining EXCEPT ![b] = @ - 1]
  /\ \E old \in SUBSET buffered[b] : Drained(b, old)
  /\ UNCHANGED <<busUp, subscribed, wires, sending, pending, outcome>>

\* unsubscribe and leaveChannel: the transport's handlers stay.
Unsubscribe(b) ==
  /\ b \in subscribed
  /\ subscribed' = subscribed \ {b}
  /\ UNCHANGED <<busUp, wires, joining, sending, buffered, handed, lapsed, pending, outcome>>

Settle(rs, how) == outcome' = [r \in Request |-> IF r \in rs /\ outcome[r] = "waiting" THEN how ELSE outcome[r]]

(* request: the timer and the table's entry are set, then the handlers of this *)
(* bus are called; one that throws rejects the promise and leaves the entry.   *)
MakeRequest(b, r) ==
  /\ b \in busUp /\ outcome[r] = "unmade"
  /\ \/ /\ pending' = pending \cup {<<b, r>>}
        /\ \E how \in {"waiting"} \cup (IF b \in subscribed THEN {"threw"} ELSE {}) :
             outcome' = [outcome EXCEPT ![r] = how]
     \/ /\ outcome' = [outcome EXCEPT ![r] = "timeout"]      \* timeout <= 0
        /\ UNCHANGED pending
  /\ UNCHANGED <<busUp, mailVars>>

\* respond: an answer to a request no longer in the table is dropped.
Respond(b, r) ==
  /\ <<b, r>> \in pending
  /\ Settle({r}, "response") /\ pending' = pending \ {<<b, r>>}
  /\ UNCHANGED <<busUp, mailVars>>

RequestTimesOut(b, r) ==
  /\ <<b, r>> \in pending
  /\ Settle({r}, "timeout") /\ pending' = pending \ {<<b, r>>}
  /\ UNCHANGED <<busUp, mailVars>>

\* Mutant: a request made before the bus was shut down is left to its timer,
\* which is cleared.
ShutAll(b) == pending' = {p \in pending : p[1] # b} /\ UNCHANGED outcome
\* Timers are cleared and promises rejected.
RejectAll(b) ==
  /\ pending' = {p \in pending : p[1] # b}
  /\ Settle({r \in Request : <<b, r>> \in pending}, "shutdown")

BusShutdown(b) ==
  /\ b \in busUp
  /\ busUp' = busUp \ {b}
  /\ RejectAll(b)
  /\ subscribed' = subscribed \ {b}
  /\ UNCHANGED <<wires, joining, sending, buffered, handed, lapsed>>

BusInitialize(b) ==
  /\ b \notin busUp
  /\ busUp' = busUp \cup {b}
  /\ UNCHANGED <<mailVars, pending, outcome>>

BusNext ==
  \E b \in Bus :
    \/ Subscribe(b) \/ Subscribed(b) \/ Unsubscribe(b) \/ BusShutdown(b) \/ BusInitialize(b)
    \/ \E m \in Message : SendTo(b, m) \/ Published(b, m)
    \/ \E r \in Request : MakeRequest(b, r) \/ Respond(b, r) \/ RequestTimesOut(b, r)

BusTypeOK ==
  /\ busUp \subseteq Bus /\ subscribed \subseteq Bus
  /\ wires \in [Bus -> 0 .. MaxWires] /\ joining \in [Bus -> 0 .. MaxWires]
  /\ sending \subseteq Bus \X Message
  /\ buffered \in [Bus -> SUBSET Message]
  /\ handed \subseteq Message /\ lapsed \subseteq Message
  /\ pending \subseteq Bus \X Request
  /\ outcome \in [Request -> Outcome]

(* Nothing is left hanging, whatever subscribe(), unsubscribe(), shutdown(),   *)
(* timers and late responses do around the awaits: the promise of a request    *)
(* that was not settled has an entry whose timer will settle it, ...           *)
RequestsAreAnswered == \A r \in Request : outcome[r] = "waiting" => \E b \in Bus : <<b, r>> \in pending

(* ... and a message once sent never vanishes: it was handed to a handler, or  *)
(* is still kept for one, or outlived its time to live.                        *)
NoMessageVanishes == [][\A m \in Message : m \in Known => m \in Known']_busVars
=============================================================================
