-------------------------- MODULE MemoryTransport --------------------------
(* The transport inside one process (src/transports/MemoryTransport.ts): a     *)
(* message goes to every subscription whose pattern matches when it is         *)
(* published, one handler after the other, while others come and go.           *)
EXTENDS Naturals, Sequences, FiniteSets, SequencesExt

CONSTANTS
  Subscription,
  Pattern,       \* topics and patterns: sequences of tokens
  Unsubscribed,
  MaxPublishing  \* bound: publish() calls under way

\* A '>' stands at the end of a pattern, as documented.
ASSUME MemoryAssumption ==
  /\ MaxPublishing \in Nat
  /\ \A p \in Pattern : p \in Seq(STRING) \ {<<>>} /\ \A i \in 1 .. Len(p) - 1 : p[i] # ">"

VARIABLES
  attached,      \* connected
  patterns,      \* subscriptions: the pattern of each, or Unsubscribed
  repliers,      \* replyHandlers: topics
  publishing     \* publish() calls: topic, who had which pattern, heard and due

memoryVars == <<attached, patterns, repliers, publishing>>

Topic == {p \in Pattern : "*" \notin ToSet(p) /\ ">" \notin ToSet(p)}
MemoryInit ==
  /\ attached = FALSE
  /\ patterns = [s \in Subscription |-> Unsubscribed]
  /\ repliers = {} /\ publishing = {}

TopicMatches(p, t) ==
  LET From[i \in 1 .. Len(p) + 1] ==
        IF i > Len(p) THEN Len(p) = Len(t)
        ELSE IF p[i] = ">" THEN i <= Len(t)
        ELSE i <= Len(t) /\ p[i] \in {"*", t[i]} /\ From[i + 1]
  IN From[1]

FindMatchingSubscriptions(t) ==
  {s \in Subscription : patterns[s] # Unsubscribed /\ (patterns[s] = t \/ TopicMatches(patterns[s], t))}

MemoryConnect ==
  /\ ~attached /\ attached' = TRUE
  /\ UNCHANGED <<patterns, repliers, publishing>>

\* disconnect, and reset, which stays connected.
MemoryClears ==
  /\ attached' \in {attached, FALSE}
  /\ patterns' = [s \in Subscription |-> Unsubscribed] /\ repliers' = {}
  /\ UNCHANGED publishing

MemorySubscribe(s, p) ==
  /\ attached /\ patterns[s] = Unsubscribed
  /\ patterns' = [patterns EXCEPT ![s] = p]
  /\ UNCHANGED <<attached, repliers, publishing>>

MemoryUnsubscribe(s) ==
  /\ patterns[s] # Unsubscribed
  /\ patterns' = [patterns EXCEPT ![s] = Unsubscribed]
  /\ UNCHANGED <<attached, repliers, publishing>>

\* reply; request() awaits the handler and changes nothing.
MemoryReply(t) ==
  /\ attached /\ repliers' = repliers \cup {t}
  /\ UNCHANGED <<attached, patterns, publishing>>

MemoryPublish(t) ==
  /\ attached /\ Cardinality(publishing) < MaxPublishing
  /\ publishing' = publishing \cup {[topic |-> t, had |-> patterns, heard |-> {}, due |-> FindMatchingSubscriptions(t)]}
  /\ UNCHANGED <<attached, patterns, repliers>>

\* A handler ends, or throws: the next is called all the same.
HandlerEnds(call, s) ==
  /\ call \in publishing /\ s \in call.due
  /\ publishing' = (publishing \ {call}) \cup {[call EXCEPT !.due = @ \ {s}, !.heard = @ \cup {s}]}
  /\ UNCHANGED <<attached, patterns, repliers>>

PublishReturns(call) ==
  /\ call \in publishing /\ call.due = {}
  /\ publishing' = publishing \ {call}
  /\ UNCHANGED <<attached, patterns, repliers>>

MemoryNext ==
  \/ MemoryConnect \/ MemoryClears
  \/ \E s \in Subscription : MemoryUnsubscribe(s) \/ \E p \in Pattern : MemorySubscribe(s, p)
  \/ \E t \in Topic : MemoryReply(t) \/ MemoryPublish(t)
  \/ \E call \in publishing : PublishReturns(call) \/ \E s \in Subscription : HandlerEnds(call, s)

MemoryTypeOK ==
  /\ attached \in BOOLEAN
  /\ patterns \in [Subscription -> Pattern \cup {Unsubscribed}] /\ repliers \subseteq Topic
  /\ publishing \subseteq [topic: Topic, had: [Subscription -> Pattern \cup {Unsubscribed}],
                           heard: SUBSET Subscription, due: SUBSET Subscription]

(* The subscriptions that hear a message are those whose pattern matches its  *)
(* topic as documented ('*' is one token, a last '>' one or more) when it is  *)
(* published, whoever comes and goes while the handlers run.                  *)
ByTheBook(p, t) ==
  /\ IF p[Len(p)] = ">" THEN Len(t) >= Len(p) ELSE Len(t) = Len(p)
  /\ \A i \in DOMAIN p : p[i] = ">" \/ p[i] = "*" \/ p[i] = t[i]
MatchesHear ==
  \A call \in publishing :
    call.heard \cup call.due = {s \in Subscription : call.had[s] # Unsubscribed /\ ByTheBook(call.had[s], call.topic)}
=============================================================================
