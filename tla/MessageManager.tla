--------------------------- MODULE MessageManager ---------------------------
(* The conversation of src/core/MessageManager.ts: the messages every turn   *)
(* reads and appends to, compaction by truncation or by an LLM's summary,    *)
(* snapshots and rewind.  Its operations are conjuncts of the steps of the   *)
(* loop and the application.  A message is known by its role and by what it  *)
(* belongs to; how many tokens it has is left open, and with it when         *)
(* autoCompact finds the conversation too long.                              *)
EXTENDS Naturals, Sequences, SequencesExt, FiniteSets

CONSTANTS RecentToKeep, \* recentMessagesToKeep, and the limit of compress()
          MaxSnapshots,
          SystemPrompt, Summary \* the messages with role "system"

ASSUME WindowAssumption == /\ RecentToKeep \in Nat \ {0}
                           /\ MaxSnapshots \in Nat \ {0}
ASSUME SystemAssumption == SystemPrompt.role = "system" /\ Summary.role = "system"

VARIABLES messages,
          snapshots,  \* the conversations takeSnapshot() captured, oldest first
          summarizing \* what a running _progressiveSummarize has split off

conversationVars == <<messages, snapshots, summarizing>>

Nothing == [running |-> FALSE, system |-> <<>>, toKeep |-> <<>>]

ConversationInit == /\ messages = <<SystemPrompt>>
                    /\ snapshots = <<>>
                    /\ summarizing = Nothing

\* messages.filter(), by the places of the messages kept.
MessagesAt(places) ==
  [n \in 1..Cardinality(places) |->
     messages[CHOOSE p \in places : Cardinality({q \in places : q <= p}) = n]]

SystemPlaces == {i \in DOMAIN messages : messages[i].role = "system"}
SystemMessages == MessagesAt(SystemPlaces)
NonSystem == MessagesAt(DOMAIN messages \ SystemPlaces)

LastOf(s, n) == IF Len(s) <= n THEN s ELSE SubSeq(s, Len(s) - n + 1, Len(s))

AddMessages(added) ==
  /\ messages' = messages \o added
  /\ UNCHANGED <<snapshots, summarizing>>

\* compress("truncate" | "sliding-window"), and autoCompact and forceCompact
\* without a provider.
Truncate ==
  /\ Len(messages) > RecentToKeep
  /\ messages' = SystemMessages \o LastOf(NonSystem, RecentToKeep)
  /\ UNCHANGED <<snapshots, summarizing>>

\* compress("summarize"), autoCompact and forceCompact with a provider, up to
\* the await.
BeginSummary ==
  /\ ~summarizing.running
  /\ Len(NonSystem) > RecentToKeep
  /\ summarizing' = [running |-> TRUE, system |-> SystemMessages,
                     toKeep |-> LastOf(NonSystem, RecentToKeep)]
  /\ UNCHANGED <<messages, snapshots>>

\* The provider's summary, or its error, has arrived.
EndSummary(ok) ==
  /\ summarizing.running
  /\ messages' = summarizing.system \o (IF ok THEN <<Summary>> ELSE <<>>) \o summarizing.toKeep
  /\ summarizing' = Nothing
  /\ UNCHANGED snapshots

TakeSnapshot ==
  /\ snapshots' = LastOf(Append(snapshots, messages), MaxSnapshots)
  /\ UNCHANGED <<messages, summarizing>>

\* rewind(): the snapshots after the one restored are dropped.
Rewind(k) ==
  /\ k \in DOMAIN snapshots
  /\ messages' = snapshots[k]
  /\ snapshots' = SubSeq(snapshots, 1, k)
  /\ UNCHANGED summarizing

\* clear(), and compress() with limit 0.
Clear ==
  /\ messages' = <<>>
  /\ UNCHANGED <<snapshots, summarizing>>
=============================================================================
