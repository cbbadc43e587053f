---------------------------- MODULE TabTransport ----------------------------
(* The transport between browser tabs (src/transports/                        *)
(* BroadcastChannelTransport.ts): every subscription is a channel object of   *)
(* its own, and hears what any other object posts, those of its own tab       *)
(* included. Messages are on one topic.                                       *)
EXTENDS Naturals, FiniteSets

CONSTANTS
  Page,          \* tabs, with a transport each
  Note,          \* messages; one nobody heard or holds may stand for a new one
  Inquiry        \* requests, made once

ASSUME PageAssumption == Note \cap Inquiry = {}

VARIABLES
  online,        \* connected
  channels,      \* open channel objects: "sub" of subscribe, "reply" of reply
  own,           \* ownMessageIds
  flight,        \* posted, not yet received: what, at which page and channel
  heard, again,  \* history: handlers called with a message, and a second time
  requests,      \* of each request: by whom, and how its promise was settled
  replies        \* replies on their way to the request's own channel

pageVars == <<online, channels, own, flight, heard, again, requests, replies>>

PageInit ==
  /\ online = {} /\ channels = {}
  /\ own = [t \in Page |-> {}]
  /\ flight = {} /\ heard = {} /\ again = {} /\ replies = {}
  /\ requests = [r \in Inquiry |-> [by |-> "nobody", how |-> "unmade"]]

Posts(what) == flight' = flight \cup ({what} \X channels)
Hears(handlers) == heard' = heard \cup handlers /\ again' = again \cup (heard \cap handlers)

PageConnect(t) ==
  /\ t \notin online /\ online' = online \cup {t}
  /\ UNCHANGED <<channels, own, flight, heard, again, requests, replies>>

Closes(gone) ==
  /\ channels' = channels \ gone
  /\ flight' = {f \in flight : f[2] \notin gone}

PageDisconnect(t) ==
  /\ t \in online /\ online' = online \ {t}
  /\ Closes({c \in channels : c[1] = t})
  /\ own' = [own EXCEPT ![t] = {}]
  /\ requests' = [r \in Inquiry |-> IF requests[r] = [by |-> t, how |-> "waiting"]
                                    THEN [by |-> t, how |-> "disconnected"] ELSE requests[r]]
  /\ UNCHANGED <<heard, again, replies>>

\* subscribe, reply
OpenChannel(t, kind) ==
  /\ t \in online /\ channels' = channels \cup {<<t, kind>>}
  /\ UNCHANGED <<online, own, flight, heard, again, requests, replies>>

PageUnsubscribe(t) ==
  /\ Closes({<<t, "sub">>})
  /\ UNCHANGED <<online, own, heard, again, requests, replies>>

\* publish: posted for the others, handed over here.
PagePublish(t, n) ==
  /\ t \in online
  /\ \A u \in Page : n \notin own[u] /\ <<u, n>> \notin heard
  /\ \A f \in flight : f[1] # n
  /\ own' = [own EXCEPT ![t] = @ \cup {n}]
  /\ Posts(n)
  /\ Hears({<<t, n>>} \cap ({c[1] : c \in channels \cap {<<t, "sub">>}} \X {n}))
  /\ UNCHANGED <<online, channels, requests, replies>>

HandsOver(t, n) == IF n \in own[t] THEN UNCHANGED <<heard, again>> ELSE Hears({<<t, n>>})

ReceiveNote(n, c) ==
  /\ n \in Note /\ <<n, c>> \in flight /\ flight' = flight \ {<<n, c>>}
  /\ IF c[2] = "sub" THEN HandsOver(c[1], n) ELSE UNCHANGED <<heard, again>>
  /\ UNCHANGED <<online, channels, own, requests, replies>>

PageRequest(t, r) ==
  /\ t \in online /\ requests[r].how = "unmade"
  /\ requests' = [requests EXCEPT ![r] = [by |-> t, how |-> "waiting"]]
  /\ Posts(r)
  /\ UNCHANGED <<online, channels, own, heard, again, replies>>

Settles(r, how) == requests' = IF requests[r].how = "waiting" THEN [requests EXCEPT ![r].how = how] ELSE requests

(* A request is answered by a page with a reply handler; at a subscription of *)
(* the page that made it, it is taken for its own answer; others are handed   *)
(* to the subscriber.                                                         *)
ReceiveRequest(r, c) ==
  /\ r \in Inquiry /\ <<r, c>> \in flight /\ flight' = flight \ {<<r, c>>}
  /\ IF <<c[1], "reply">> \in channels
     THEN replies' = replies \cup {r} /\ UNCHANGED <<requests, heard, again>>
     ELSE IF requests[r] = [by |-> c[1], how |-> "waiting"]
     THEN Settles(r, "echoed") /\ UNCHANGED <<heard, again, replies>>
     ELSE Hears({<<c[1], r>>}) /\ UNCHANGED <<requests, replies>>
  /\ UNCHANGED <<online, channels, own>>

ReceiveReply(r) ==
  /\ r \in replies /\ replies' = replies \ {r}
  /\ Settles(r, "answered")
  /\ UNCHANGED <<online, channels, own, flight, heard, again>>

PageTimesOut(r) ==
  /\ requests[r].how = "waiting" /\ Settles(r, "timeout")
  /\ UNCHANGED <<online, channels, own, flight, heard, again, replies>>

PageNext ==
  \/ \E t \in Page : \/ PageConnect(t) \/ PageDisconnect(t) \/ PageUnsubscribe(t)
                     \/ \E kind \in {"sub", "reply"} : OpenChannel(t, kind)
                     \/ \E n \in Note : PagePublish(t, n)
                     \/ \E r \in Inquiry : PageRequest(t, r)
  \/ \E f \in flight : ReceiveNote(f[1], f[2]) \/ ReceiveRequest(f[1], f[2])
  \/ \E r \in Inquiry : ReceiveReply(r) \/ PageTimesOut(r)

PageTypeOK ==
  /\ online \subseteq Page /\ channels \subseteq Page \X {"sub", "reply"}
  /\ own \in [Page -> SUBSET Note] /\ flight \subseteq (Note \cup Inquiry) \X channels
  /\ heard \subseteq Page \X (Note \cup Inquiry) /\ again \subseteq heard /\ replies \subseteq Inquiry
  /\ requests \in [Inquiry -> [by: Page \cup {"nobody"},
                               how: {"unmade", "waiting", "answered", "echoed", "timeout", "disconnected"}]]

(* A page posts on the bus it listens to and hands its messages over itself,  *)
(* and closes and reopens channels while some are under way: no subscription  *)
(* hears one message twice.                                                   *)
NobodyHearsTwice == \A h \in again : h[2] \notin Note
=============================================================================
