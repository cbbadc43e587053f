--------------------------- MODULE RedisTransport ---------------------------
(* The transport over Redis publish/subscribe (src/transports/                *)
(* RedisPubSubTransport.ts): messages published while Redis is away are kept, *)
(* and sent one by one by the next connect(), which first wires the           *)
(* subscriptions again. Calls of Redis are awaited, so publish(),             *)
(* subscribe(), connect() and disconnect() run side by side. One channel.     *)
EXTENDS Naturals, Sequences, FiniteSets, SequencesExt

CONSTANTS
  Letter,        \* messages, each published once
  Listener,      \* subscriptions
  Connection     \* concurrent calls of connect()

ASSUME LinkAssumption == IsFiniteSet(Letter)

VARIABLES
  redisUp,       \* redis.connected
  linked,        \* this.connected
  configured,    \* this.config is set
  listeners,     \* subscriptions
  wired,         \* listeners whose callback Redis has
  outbox,        \* messageBuffer
  connects,      \* of each connect(): subscriptions to wire, messages to send
  posting,       \* messages whose caller awaits redis.publish
  arrived,       \* history: messages Redis took
  refused        \* history: messages whose publish() threw

linkVars == <<redisUp, linked, configured, listeners, wired, outbox, connects, posting, arrived, refused>>

LinkInit ==
  /\ redisUp \in BOOLEAN
  /\ linked = FALSE /\ configured = FALSE
  /\ listeners = {} /\ wired = {}
  /\ outbox = <<>> /\ posting = {}
  /\ connects = [c \in Connection |-> [at |-> "idle", todo |-> {}, rest |-> <<>>]]
  /\ arrived = {} /\ refused = {}

Flushing == UNION {ToSet(connects[c].rest) : c \in Connection}
Safe == ToSet(outbox) \cup Flushing \cup posting \cup arrived \cup refused

Reachable == linked /\ redisUp
Publish(m) ==
  /\ m \notin Safe
  /\ \/ Reachable /\ posting' = posting \cup {m} /\ UNCHANGED <<linked, outbox, refused>>
     \/ ~Reachable /\ configured /\ linked' = FALSE /\ outbox' = Append(outbox, m) /\ UNCHANGED <<posting, refused>>
     \/ ~Reachable /\ ~configured /\ refused' = refused \cup {m} /\ UNCHANGED <<linked, outbox, posting>>
  /\ UNCHANGED <<redisUp, configured, listeners, wired, connects, arrived>>

\* An error of Redis is thrown to the caller; a message too large is as well.
PublishEnds(m) ==
  /\ m \in posting /\ posting' = posting \ {m}
  /\ \/ arrived' = arrived \cup {m} /\ UNCHANGED <<linked, refused>>
     \/ refused' = refused \cup {m} /\ linked' = (linked /\ redisUp) /\ UNCHANGED arrived
  /\ UNCHANGED <<redisUp, configured, listeners, wired, outbox, connects>>

\* connect: refused while Redis does not answer.
Connect(c) ==
  /\ redisUp /\ connects[c].at = "idle"
  /\ configured' = TRUE /\ linked' = TRUE
  /\ connects' = [connects EXCEPT ![c] = [at |-> "wire", todo |-> listeners, rest |-> <<>>]]
  /\ UNCHANGED <<redisUp, listeners, wired, outbox, posting, arrived, refused>>

\* One subscription after the other: unsubscribing first takes the callbacks
\* of all subscriptions of the channel away.
Rewire(c, s) ==
  /\ s \in connects[c].todo
  /\ wired' = {s}
  /\ connects' = [connects EXCEPT ![c].todo = @ \ {s}]
  /\ UNCHANGED <<redisUp, linked, configured, listeners, outbox, posting, arrived, refused>>

FlushBegins(c) ==
  /\ connects[c].at = "wire" /\ connects[c].todo = {}
  /\ connects' = [connects EXCEPT ![c].at = IF outbox = <<>> THEN "idle" ELSE "send", ![c].rest = outbox]
  /\ outbox' = <<>>
  /\ UNCHANGED <<redisUp, linked, configured, listeners, wired, posting, arrived, refused>>

Passed(c) ==
  connects' = [connects EXCEPT ![c].at = IF Len(connects[c].rest) = 1 THEN "idle" ELSE "send", ![c].rest = Tail(@)]

\* The next kept message: publish() keeps it again if Redis is away again.
FlushNext(c) ==
  /\ connects[c].at = "send"
  /\ IF Reachable THEN connects' = [connects EXCEPT ![c].at = "wait"] /\ UNCHANGED <<linked, outbox>>
     ELSE /\ linked' = FALSE /\ outbox' = Append(outbox, Head(connects[c].rest))
          /\ Passed(c)
  /\ UNCHANGED <<redisUp, configured, listeners, wired, posting, arrived, refused>>

\* Mutant: a message that could not be sent is not kept again.
Discarded(m) == UNCHANGED outbox
KeptAgain(m) == outbox' = Append(outbox, m)

FlushAnswered(c) ==
  /\ connects[c].at = "wait"
  /\ LET m == Head(connects[c].rest) IN
       \/ arrived' = arrived \cup {m} /\ UNCHANGED <<linked, outbox>>
       \/ KeptAgain(m) /\ linked' = (linked /\ redisUp) /\ UNCHANGED arrived
  /\ Passed(c)
  /\ UNCHANGED <<redisUp, configured, listeners, wired, posting, refused>>

Listen(s) ==
  /\ linked /\ s \notin listeners
  /\ listeners' = listeners \cup {s} /\ wired' = wired \cup {s}
  /\ UNCHANGED <<redisUp, linked, configured, outbox, connects, posting, arrived, refused>>

\* unsubscribe: the channel's callbacks are gone for the other subscriptions too.
Unlisten(s) ==
  /\ s \in listeners
  /\ listeners' = listeners \ {s} /\ wired' = {}
  /\ UNCHANGED <<redisUp, linked, configured, outbox, connects, posting, arrived, refused>>

\* disconnect: subscriptions are dropped, kept messages stay.
Disconnect ==
  /\ linked' = FALSE /\ listeners' = {}
  /\ wired' = IF listeners = {} THEN wired ELSE {}
  /\ UNCHANGED <<redisUp, configured, outbox, connects, posting, arrived, refused>>

\* The client reports a lost connection; its return is seen by connect() only.
RedisChanges ==
  /\ redisUp' = ~redisUp
  /\ linked' = (linked /\ redisUp')
  /\ UNCHANGED <<configured, listeners, wired, outbox, connects, posting, arrived, refused>>

LinkNext ==
  \/ \E m \in Letter : Publish(m) \/ PublishEnds(m)
  \/ \E c \in Connection : \/ Connect(c) \/ FlushBegins(c) \/ FlushNext(c) \/ FlushAnswered(c)
                           \/ \E s \in Listener : Rewire(c, s)
  \/ \E s \in Listener : Listen(s) \/ Unlisten(s)
  \/ Disconnect \/ RedisChanges

LinkTypeOK ==
  /\ {redisUp, linked, configured} \subseteq BOOLEAN
  /\ listeners \subseteq Listener /\ wired \subseteq Listener
  /\ outbox \in BoundedSeq(Letter, Cardinality(Letter))
  /\ connects \in [Connection -> [at: {"idle", "wire", "send", "wait"}, todo: SUBSET Listener,
                                  rest: BoundedSeq(Letter, Cardinality(Letter))]]
  /\ posting \subseteq Letter /\ arrived \subseteq Letter /\ refused \subseteq Letter

(* A message whose publish() did not throw is never lost, however often the   *)
(* connection goes and comes back while kept messages are sent and others are *)
(* published: it reached Redis, or is kept, or is in the hands of a call.     *)
AcceptedIsKept == [][\A m \in Letter : m \in Safe => m \in Safe']_linkVars
=============================================================================
