-------------------------- MODULE AgentLoop_proofs ---------------------------
(***************************************************************************)
(* The agent loop over one conversation, for any number of turns and runs  *)
(* that overlap, of iterations, tool calls, retries and operations of the  *)
(* application: what stands in the conversation, and what the LLM is given.*)
(***************************************************************************)
EXTENDS AgentLoop, SequenceTheorems, FiniteSetTheorems, TLAPS

-----------------------------------------------------------------------------
(* A conversation, as compaction has to find it.                           *)

\* The messages of the system come first.
SystemsFirst(s) ==
  \E k \in 0 .. Len(s) : \A i \in 1 .. Len(s) : s[i].role = "system" <=> i <= k

\* m may stand directly behind b.
Behind(b, m) ==
  \/ b.role = "system"
  \/ /\ b.run = m.run /\ b.iteration = m.iteration
     /\ \/ b.role = "assistant" /\ m.n = 1
        \/ b.role = "tool" /\ b.n + 1 = m.n

Joined(s) ==
  \A i \in 1 .. Len(s) : s[i].role = "tool" /\ i > 1 => Behind(s[i - 1], s[i])

Answering(s, excused) ==
  \A i \in 1 .. Len(s) :
    s[i].role = "tool" /\ s[i].run \notin excused => s[i].answers = s[i].n

Spoken(s) == \A i \in 1 .. Len(s) : s[i].role # "system"

\* What the system says, and what is said behind it.
Prefix(s) == s \in Seq(Messages) /\ \A i \in 1 .. Len(s) : s[i].role = "system"
Talk(s, excused) ==
  s \in Seq(Messages) /\ Spoken(s) /\ Joined(s) /\ Answering(s, excused)

Sound(s, excused) ==
  s \in Seq(Messages) /\ SystemsFirst(s) /\ Joined(s) /\ Answering(s, excused)

\* So is the conversation, so are its snapshots, and so is what a summary that
\* is under way will make of it.
ConversationInv ==
  /\ Sound(messages, mixed)
  /\ \A k \in 1 .. Len(snapshots) : Sound(snapshots[k], mixed)
  /\ Prefix(summarizing.system) /\ Talk(summarizing.toKeep, mixed)

-----------------------------------------------------------------------------
(* What a call of runTurn() or run() relies on at each of its awaits.      *)

\* The results of iteration k of r stand in s.
Recorded(r, k, s) ==
  \A n \in 1 .. Calls : \E i \in 1 .. Len(s) :
    s[i].role = "tool" /\ s[i].n = n /\ s[i].run = r /\ s[i].iteration = k

RunOK(r) ==
  /\ pc[r] \in {"idle", "before"} => iteration[r] = 0
  /\ pc[r] = "llm" => context[r].attempt > 0
  /\ pc[r] = "tools" =>
       /\ context[r].response \in Responses /\ context[r].executed \in Responses
       /\ r \notin mixed => context[r].response = context[r].executed
  /\ r \notin disturbed =>
       /\ pc[r] = "next" /\ iteration[r] > 0 =>
            Recorded(r, iteration[r], messages)
       /\ pc[r] = "llm" /\ iteration[r] > 1 =>
            Recorded(r, iteration[r] - 1, context[r].view)

LoopInv == TypeOK /\ ConversationInv /\ \A r \in Runs : RunOK(r)

-----------------------------------------------------------------------------
(* Sequences of messages.                                                  *)

LEMMA SystemTyped ==
  /\ SystemPrompt \in Messages /\ Summary \in Messages
  /\ SystemPrompt.role = "system" /\ Summary.role = "system"
BY SystemAssumption DEF Messages

LEMMA CallsTyped == Calls \in Nat /\ Calls > 0 /\ RecentToKeep \in Nat /\ RecentToKeep > 0
                    /\ MaxSnapshots \in Nat /\ MaxSnapshots > 0
BY LoopAssumption, WindowAssumption

\* The size of a run of places.
LEMMA PlacesSize ==
  ASSUME NEW a \in Nat, NEW b \in Nat, a <= b
  PROVE  IsFiniteSet(a + 1 .. b) /\ Cardinality(a + 1 .. b) = b - a
<1>1. a + 1 \in Int /\ b \in Int
  OBVIOUS
<1>2. /\ IsFiniteSet(a + 1 .. b)
      /\ Cardinality(a + 1 .. b) = IF a + 1 > b THEN 0 ELSE b - (a + 1) + 1
  BY <1>1, FS_Interval
<1>3. QED
  BY <1>2

\* What filter() gives for places that stand together.
LEMMA MessagesAtRun ==
  ASSUME NEW a \in Nat, NEW b \in Nat, a <= b
  PROVE  MessagesAt(a + 1 .. b) = [n \in 1 .. b - a |-> messages[a + n]]
<1> DEFINE places == a + 1 .. b
           place(n) == CHOOSE p \in places : Cardinality({q \in places : q <= p}) = n
<1>1. ASSUME NEW p \in places PROVE Cardinality({q \in places : q <= p}) = p - a
  <2>1. {q \in places : q <= p} = a + 1 .. p
    OBVIOUS
  <2>2. p \in Nat /\ a <= p
    OBVIOUS
  <2>3. Cardinality(a + 1 .. p) = p - a
    BY <2>2, PlacesSize
  <2>4. QED
    BY <2>1, <2>3
<1>2. ASSUME NEW n \in 1 .. b - a PROVE place(n) = a + n
  <2>1. a + n \in places
    OBVIOUS
  <2>2. Cardinality({q \in places : q <= a + n}) = n
    BY <1>1, <2>1
  <2>3. \E p \in places : Cardinality({q \in places : q <= p}) = n
    BY <2>1, <2>2
  <2>4. place(n) \in places /\ Cardinality({q \in places : q <= place(n)}) = n
    BY <2>3
  <2>5. place(n) \in Int /\ place(n) - a = n
    BY <1>1, <2>4
  <2> HIDE DEF place
  <2>6. QED
    BY <2>5
<1>3. Cardinality(places) = b - a
  BY PlacesSize
<1>4. MessagesAt(places) = [n \in 1 .. Cardinality(places) |-> messages[place(n)]]
  BY DEF MessagesAt
<1> HIDE DEF place, places
<1>5. QED
  BY <1>2, <1>3, <1>4 DEF places

\* A sequence of messages, given by its places.
LEMMA IsSequence ==
  ASSUME NEW n \in Nat, NEW s, s = [i \in 1 .. n |-> s[i]],
         \A i \in 1 .. n : s[i] \in Messages
  PROVE  s \in Seq(Messages) /\ Len(s) = n
<1>1. s \in [1 .. n -> Messages]
  OBVIOUS
<1>2. QED
  BY <1>1, SeqDef

\* compress() takes the conversation apart in two.
LEMMA Splits ==
  ASSUME NEW excused, Sound(messages, excused)
  PROVE  /\ Prefix(SystemMessages) /\ Talk(NonSystem, excused)
         /\ \A i \in 1 .. Len(NonSystem) : \E j \in 1 .. Len(messages) :
              NonSystem[i] = messages[j]
<1> DEFINE L == Len(messages)
<1>0. L \in Nat /\ DOMAIN messages = 1 .. L /\ \A i \in 1 .. L : messages[i] \in Messages
  BY LenProperties DEF Sound
<1>1. PICK k \in 0 .. L : \A i \in 1 .. L : messages[i].role = "system" <=> i <= k
  BY DEF Sound, SystemsFirst
<1>2. /\ SystemPlaces = 0 + 1 .. k
      /\ DOMAIN messages \ SystemPlaces = k + 1 .. L
  BY <1>0, <1>1 DEF SystemPlaces
<1>3. /\ SystemMessages = [n \in 1 .. k - 0 |-> messages[0 + n]]
      /\ NonSystem = [n \in 1 .. L - k |-> messages[k + n]]
  <2>1. 0 \in Nat /\ k \in Nat /\ L \in Nat /\ 0 <= k /\ k <= L
    BY <1>0
  <2> HIDE DEF L
  <2>2. MessagesAt(0 + 1 .. k) = [n \in 1 .. k - 0 |-> messages[0 + n]]
    BY <2>1, MessagesAtRun
  <2>3. MessagesAt(k + 1 .. L) = [n \in 1 .. L - k |-> messages[k + n]]
    BY <2>1, MessagesAtRun
  <2>4. SystemMessages = MessagesAt(0 + 1 .. k) /\ NonSystem = MessagesAt(k + 1 .. L)
    BY <1>2, Zenon DEF SystemMessages, NonSystem
  <2>5. QED
    BY <2>2, <2>3, <2>4
<1>4. /\ \A n \in 1 .. k : SystemMessages[n] = messages[n]
      /\ \A n \in 1 .. L - k : NonSystem[n] = messages[k + n]
  BY <1>0, <1>3
<1>5. /\ SystemMessages \in Seq(Messages) /\ Len(SystemMessages) = k
      /\ NonSystem \in Seq(Messages) /\ Len(NonSystem) = L - k
  <2>1. /\ \A i \in 1 .. k : SystemMessages[i] \in Messages
        /\ \A i \in 1 .. L - k : NonSystem[i] \in Messages
    <3>1. /\ \A i \in 1 .. k : i \in 1 .. L
          /\ \A i \in 1 .. L - k : k + i \in 1 .. L
      BY <1>0
    <3> HIDE DEF L
    <3>2. QED
      BY <1>0, <1>4, <3>1
  <2>2. k \in Nat /\ L - k \in Nat
    BY <1>0
  <2>3. /\ SystemMessages = [n \in 1 .. k |-> SystemMessages[n]]
        /\ NonSystem = [n \in 1 .. L - k |-> NonSystem[n]]
    BY <1>0, <1>3
  <2>4. QED
    BY <2>1, <2>2, <2>3, IsSequence
<1> HIDE DEF L
<1>6. Prefix(SystemMessages)
  BY <1>0, <1>1, <1>4, <1>5 DEF Prefix
<1>7. Spoken(NonSystem)
  BY <1>0, <1>1, <1>4, <1>5 DEF Spoken
<1>8. Joined(NonSystem)
  <2> SUFFICES ASSUME NEW i \in 1 .. Len(NonSystem), i > 1,
                      NonSystem[i].role = "tool"
               PROVE  Behind(NonSystem[i - 1], NonSystem[i])
    BY DEF Joined
  <2>1. /\ k + i \in 1 .. L /\ k + i > 1 /\ i - 1 \in 1 .. L - k
        /\ k + (i - 1) = (k + i) - 1
    BY <1>0, <1>5
  <2>2. NonSystem[i] = messages[k + i] /\ NonSystem[i - 1] = messages[(k + i) - 1]
    BY <1>4, <1>5, <2>1
  <2>3. QED
    BY <2>1, <2>2 DEF Sound, Joined, L
<1>9. Answering(NonSystem, excused)
  BY <1>0, <1>4, <1>5 DEF Sound, Answering, L
<1>10. QED
  BY <1>0, <1>4, <1>5, <1>6, <1>7, <1>8, <1>9 DEF Talk, L

\* The end of what is said.
LEMMA EndOfTalk ==
  ASSUME NEW excused, NEW s, Talk(s, excused), NEW n \in Nat \ {0}
  PROVE  Talk(LastOf(s, n), excused)
<1> DEFINE a == Len(s) - n
           t == SubSeq(s, a + 1, Len(s))
<1>0. s \in Seq(Messages) /\ Len(s) \in Nat
  BY LenProperties DEF Talk
<1>1. CASE Len(s) <= n
  BY <1>1 DEF LastOf
<1>2. CASE Len(s) > n
  <2>1. a \in Nat /\ Len(s) = a + n
    BY <1>0, <1>2
  <2>2. /\ t \in Seq(Messages) /\ Len(t) = n
        /\ \A i \in 1 .. n : t[i] = s[a + i]
    <3>1. a + 1 \in Nat \ {0} /\ Len(s) \in 1 .. Len(s)
      BY <1>0, <2>1
    <3>2. QED
      BY <1>0, <2>1, <3>1
  <2> HIDE DEF a, t
  <2>3. Spoken(t)
    BY <2>1, <2>2 DEF Talk, Spoken
  <2>4. Joined(t)
    <3> SUFFICES ASSUME NEW i \in 1 .. n, i > 1, t[i].role = "tool"
                 PROVE  Behind(t[i - 1], t[i])
      BY <2>2 DEF Joined
    <3>1. a + i \in 1 .. Len(s) /\ a + i > 1 /\ i - 1 \in 1 .. n
          /\ a + (i - 1) = (a + i) - 1
      BY <2>1
    <3>2. t[i] = s[a + i] /\ t[i - 1] = s[(a + i) - 1]
      BY <2>2, <3>1
    <3>3. QED
      BY <3>1, <3>2 DEF Talk, Joined
  <2>5. Answering(t, excused)
    BY <2>1, <2>2 DEF Talk, Answering
  <2>6. LastOf(s, n) = t
    BY <1>0, <1>2 DEF LastOf, t, a
  <2>7. QED
    BY <2>2, <2>3, <2>4, <2>5, <2>6 DEF Talk
<1>3. QED
  BY <1>0, <1>1, <1>2

\* A head that is the system's and a talk make a conversation.
LEMMA PutTogether ==
  ASSUME NEW excused, NEW a, Prefix(a), NEW b, Talk(b, excused)
  PROVE  Sound(a \o b, excused)
<1> DEFINE s == a \o b
<1>1. /\ a \in Seq(Messages) /\ b \in Seq(Messages)
      /\ Len(a) \in Nat /\ Len(b) \in Nat
  BY LenProperties DEF Prefix, Talk
<1>2. /\ s \in Seq(Messages) /\ Len(s) = Len(a) + Len(b)
      /\ \A i \in 1 .. Len(a) : s[i] = a[i]
      /\ \A i \in 1 .. Len(b) : s[Len(a) + i] = b[i]
  BY <1>1
<1> HIDE DEF s
<1>3. ASSUME NEW i \in 1 .. Len(s)
      PROVE  \/ i <= Len(a) /\ s[i] = a[i] /\ s[i].role = "system"
             \/ \E j \in 1 .. Len(b) : /\ i = Len(a) + j /\ s[i] = b[j]
                                       /\ s[i].role # "system"
  <2>1. CASE i <= Len(a)
    BY <1>1, <1>2, <2>1 DEF Prefix
  <2>2. CASE i > Len(a)
    <3>1. i - Len(a) \in 1 .. Len(b) /\ i = Len(a) + (i - Len(a))
      BY <1>1, <1>2, <2>2
    <3>2. s[i] = b[i - Len(a)]
      BY <1>2, <3>1
    <3>3. QED
      BY <3>1, <3>2 DEF Talk, Spoken
  <2>3. QED
    BY <1>1, <1>2, <2>1, <2>2
<1>4. SystemsFirst(s)
  <2>1. Len(a) \in 0 .. Len(s)
    BY <1>1, <1>2
  <2>2. ASSUME NEW i \in 1 .. Len(s) PROVE s[i].role = "system" <=> i <= Len(a)
    <3>0. \A j \in 1 .. Len(b) : i = Len(a) + j => ~(i <= Len(a))
      BY <1>1
    <3>1. CASE i <= Len(a)
      BY <1>3, <3>0, <3>1
    <3>2. CASE i > Len(a)
      <4>1. i \in Int /\ ~(i <= Len(a))
        BY <1>1, <1>2, <3>2
      <4>2. QED
        BY <1>3, <4>1
    <3>3. QED
      BY <1>1, <1>2, <3>1, <3>2
  <2>3. QED
    BY <2>1, <2>2 DEF SystemsFirst
<1>5. Answering(s, excused)
  BY <1>3 DEF Answering, Talk
<1>6. Joined(s)
  <2> SUFFICES ASSUME NEW i \in 1 .. Len(s), i > 1, s[i].role = "tool"
               PROVE  Behind(s[i - 1], s[i])
    BY DEF Joined
  <2>1. PICK j \in 1 .. Len(b) : i = Len(a) + j /\ s[i] = b[j]
    BY <1>3
  <2>2. CASE j = 1
    <3>1. s[i - 1].role = "system"
      BY <1>1, <1>2, <1>3, <2>1, <2>2 DEF Prefix
    <3>2. QED
      BY <3>1 DEF Behind
  <2>3. CASE j > 1
    <3>1. j - 1 \in 1 .. Len(b) /\ i - 1 = Len(a) + (j - 1)
      BY <1>1, <2>1, <2>3
    <3>2. s[i - 1] = b[j - 1]
      BY <1>2, <3>1
    <3>3. QED
      BY <2>1, <2>3, <3>2 DEF Talk, Joined
  <2>4. QED
    BY <2>1, <2>2, <2>3
<1>7. QED
  BY <1>2, <1>4, <1>5, <1>6 DEF Sound, s

\* Messages are said at the end; a tool is never the first of them.
LEMMA SaidAtTheEnd ==
  ASSUME NEW excused, NEW s, Sound(s, excused), NEW t, Talk(t, excused),
         Len(t) > 0 => t[1].role # "tool"
  PROVE  Sound(s \o t, excused)
<1> DEFINE u == s \o t
<1>1. /\ s \in Seq(Messages) /\ t \in Seq(Messages)
      /\ Len(s) \in Nat /\ Len(t) \in Nat
  BY LenProperties DEF Sound, Talk
<1>2. /\ u \in Seq(Messages) /\ Len(u) = Len(s) + Len(t)
      /\ \A i \in 1 .. Len(s) : u[i] = s[i]
      /\ \A i \in 1 .. Len(t) : u[Len(s) + i] = t[i]
  BY <1>1
<1> HIDE DEF u
<1>3. ASSUME NEW i \in 1 .. Len(u)
      PROVE  \/ i \in 1 .. Len(s) /\ u[i] = s[i]
             \/ \E j \in 1 .. Len(t) : /\ i = Len(s) + j /\ u[i] = t[j]
                                       /\ u[i].role # "system"
  <2>1. CASE i <= Len(s)
    BY <1>1, <1>2, <2>1
  <2>2. CASE i > Len(s)
    <3>1. i - Len(s) \in 1 .. Len(t) /\ i = Len(s) + (i - Len(s))
      BY <1>1, <1>2, <2>2
    <3>2. u[i] = t[i - Len(s)]
      BY <1>2, <3>1
    <3>3. QED
      BY <3>1, <3>2 DEF Talk, Spoken
  <2>3. QED
    BY <1>1, <1>2, <2>1, <2>2
<1>4. SystemsFirst(u)
  <2>1. PICK k \in 0 .. Len(s) : \A i \in 1 .. Len(s) : s[i].role = "system" <=> i <= k
    BY DEF Sound, SystemsFirst
  <2>2. k \in 0 .. Len(u)
    BY <1>1, <1>2
  <2>3. ASSUME NEW i \in 1 .. Len(u) PROVE u[i].role = "system" <=> i <= k
    <3>1. \A j \in 1 .. Len(t) : i = Len(s) + j => ~(i <= k)
      BY <1>1, <2>1
    <3>2. QED
      BY <1>3, <2>1, <3>1
  <2>4. QED
    BY <2>2, <2>3 DEF SystemsFirst
<1>5. Answering(u, excused)
  <2>1. Answering(s, excused) /\ Answering(t, excused)
    BY DEF Talk, Sound
  <2>2. ASSUME NEW i \in 1 .. Len(u), u[i].role = "tool", u[i].run \notin excused
        PROVE  u[i].answers = u[i].n
    <3>1. CASE i \in 1 .. Len(s) /\ u[i] = s[i]
      BY <2>1, <2>2, <3>1, Zenon DEF Answering
    <3>2. ASSUME NEW j \in 1 .. Len(t), u[i] = t[j] PROVE u[i].answers = u[i].n
      BY <2>1, <2>2, <3>2, Zenon DEF Answering
    <3>3. QED
      BY <1>3, <3>1, <3>2, Zenon
  <2>3. QED
    BY <2>2 DEF Answering
<1>6. Joined(u)
  <2> SUFFICES ASSUME NEW i \in 1 .. Len(u), i > 1, u[i].role = "tool"
               PROVE  Behind(u[i - 1], u[i])
    BY DEF Joined
  <2>1. CASE i \in 1 .. Len(s) /\ u[i] = s[i]
    <3>1. u[i - 1] = s[i - 1]
      BY <1>1, <1>2, <2>1
    <3>2. QED
      BY <2>1, <3>1 DEF Sound, Joined
  <2>2. ASSUME NEW j \in 1 .. Len(t), i = Len(s) + j, u[i] = t[j]
        PROVE  Behind(u[i - 1], u[i])
    <3>1. j > 1
      BY <1>1, <2>2
    <3>2. j - 1 \in 1 .. Len(t) /\ i - 1 = Len(s) + (j - 1)
      BY <1>1, <2>2, <3>1
    <3>3. u[i - 1] = t[j - 1]
      BY <1>2, <3>2
    <3>4. QED
      BY <2>2, <3>1, <3>3 DEF Talk, Joined
  <2>3. QED
    BY <1>3, <2>1, <2>2
<1>7. QED
  BY <1>2, <1>4, <1>5, <1>6 DEF Sound, u

-----------------------------------------------------------------------------
(* The operations on the conversation.                                     *)

ConversationTyped ==
  /\ messages \in Seq(Messages)
  /\ snapshots \in Seq(Seq(Messages)) /\ Len(snapshots) <= MaxSnapshots
  /\ summarizing \in [running : BOOLEAN, system : Seq(Messages), toKeep : Seq(Messages)]

ConversationOK == ConversationTyped /\ ConversationInv

LEMMA LoopHasConversation == LoopInv => ConversationOK
BY DEF LoopInv, TypeOK, ConversationOK, ConversationTyped

\* Excusing more runs makes nothing worse.
LEMMA MoreExcused ==
  ASSUME NEW excused, NEW more, excused \subseteq more, NEW s
  PROVE  /\ Sound(s, excused) => Sound(s, more)
         /\ Talk(s, excused) => Talk(s, more)
BY DEF Sound, Talk, Answering

LEMMA MixedGrows ==
  ASSUME ConversationOK, UNCHANGED conversationVars, mixed \subseteq mixed'
  PROVE  ConversationOK'
<1>1. messages' = messages /\ snapshots' = snapshots /\ summarizing' = summarizing
  BY DEF conversationVars
<1>2. ConversationTyped'
  BY <1>1 DEF ConversationOK, ConversationTyped
<1>3. Sound(messages, mixed') /\ Talk(summarizing.toKeep, mixed')
  BY MoreExcused DEF ConversationOK, ConversationInv
<1>4. \A k \in 1 .. Len(snapshots) : Sound(snapshots[k], mixed')
  BY MoreExcused DEF ConversationOK, ConversationInv
<1>5. ConversationInv'
  BY <1>1, <1>3, <1>4 DEF ConversationOK, ConversationInv, Sound, Talk, Answering
<1>6. QED
  BY <1>2, <1>5 DEF ConversationOK

LEMMA Saying ==
  ASSUME ConversationOK, NEW added, Talk(added, mixed),
         Len(added) > 0 => added[1].role # "tool",
         AddMessages(added), mixed' = mixed
  PROVE  ConversationOK'
<1>1. messages' = messages \o added /\ snapshots' = snapshots
      /\ summarizing' = summarizing
  BY DEF AddMessages
<1>2. Sound(messages \o added, mixed)
  BY SaidAtTheEnd DEF ConversationOK, ConversationInv
<1>3. messages \o added \in Seq(Messages)
  BY <1>2 DEF Sound
<1>4. ConversationTyped'
  BY <1>1, <1>3 DEF ConversationOK, ConversationTyped
<1>5. ConversationInv'
  BY <1>1, <1>2 DEF ConversationOK, ConversationInv
<1>6. QED
  BY <1>4, <1>5 DEF ConversationOK

LEMMA NothingSaid ==
  ASSUME NEW excused
  PROVE  Talk(<<>>, excused) /\ Prefix(<<>>) /\ Sound(<<>>, excused)
<1>1. <<>> \in Seq(Messages) /\ Len(<<>>) = 0 /\ 1 .. 0 = {}
  BY EmptySeq
<1>2. QED
  BY <1>1 DEF Talk, Prefix, Sound, Spoken, Joined, Answering, SystemsFirst

LEMMA CompactionStep ==
  ASSUME ConversationOK, Truncate, mixed' = mixed
  PROVE  ConversationOK'
<1>1. /\ messages' = SystemMessages \o LastOf(NonSystem, RecentToKeep)
      /\ snapshots' = snapshots /\ summarizing' = summarizing
  BY DEF Truncate
<1>2. Prefix(SystemMessages) /\ Talk(NonSystem, mixed)
  BY Splits DEF ConversationOK, ConversationInv
<1>3. RecentToKeep \in Nat \ {0}
  BY WindowAssumption
<1>4. Talk(LastOf(NonSystem, RecentToKeep), mixed)
  BY <1>2, <1>3, EndOfTalk
<1>5. Sound(SystemMessages \o LastOf(NonSystem, RecentToKeep), mixed)
  BY <1>2, <1>4, PutTogether
<1>6. Sound(messages', mixed)
  BY <1>1, <1>5
<1>7. ConversationTyped'
  BY <1>1, <1>6 DEF ConversationOK, ConversationTyped, Sound
<1>8. ConversationInv'
  BY <1>1, <1>6 DEF ConversationOK, ConversationInv
<1>9. QED
  BY <1>7, <1>8 DEF ConversationOK

LEMMA SummaryStep ==
  ASSUME ConversationOK, mixed' = mixed,
         BeginSummary \/ \E ok \in BOOLEAN : EndSummary(ok)
  PROVE  ConversationOK'
<1>1. CASE BeginSummary
  <2>1. /\ summarizing' = [running |-> TRUE, system |-> SystemMessages,
                           toKeep |-> LastOf(NonSystem, RecentToKeep)]
        /\ messages' = messages /\ snapshots' = snapshots
    BY <1>1 DEF BeginSummary
  <2>2. Prefix(SystemMessages) /\ Talk(NonSystem, mixed)
    BY Splits DEF ConversationOK, ConversationInv
  <2>3. RecentToKeep \in Nat \ {0}
    BY WindowAssumption
  <2>4. Talk(LastOf(NonSystem, RecentToKeep), mixed)
    BY <2>2, <2>3, EndOfTalk
  <2>5. /\ summarizing'.system = SystemMessages
        /\ summarizing'.toKeep = LastOf(NonSystem, RecentToKeep)
    BY <2>1
  <2>6. ConversationTyped'
    BY <2>1, <2>2, <2>4 DEF ConversationOK, ConversationTyped, Prefix, Talk
  <2>7. ConversationInv'
    BY <2>1, <2>2, <2>4, <2>5 DEF ConversationOK, ConversationInv
  <2>8. QED
    BY <2>6, <2>7 DEF ConversationOK
<1>2. ASSUME NEW ok \in BOOLEAN, EndSummary(ok)
      PROVE  ConversationOK'
  <2> DEFINE head == summarizing.system \o (IF ok THEN <<Summary>> ELSE <<>>)
  <2>1. /\ messages' = head \o summarizing.toKeep
        /\ snapshots' = snapshots /\ summarizing' = Nothing
    BY <1>2 DEF EndSummary
  <2>2. Prefix(head)
    <3>1. summarizing.system \in Seq(Messages) /\ Len(summarizing.system) \in Nat
      BY LenProperties DEF ConversationOK, ConversationInv, Prefix
    <3>2. CASE ok
      <4>1. /\ <<Summary>> \in Seq(Messages) /\ Len(<<Summary>>) = 1
            /\ <<Summary>>[1] = Summary
        BY SystemTyped
      <4>2. /\ head \in Seq(Messages) /\ Len(head) = Len(summarizing.system) + 1
            /\ \A i \in 1 .. Len(summarizing.system) : head[i] = summarizing.system[i]
            /\ head[Len(summarizing.system) + 1] = Summary
        BY <3>1, <3>2, <4>1
      <4> HIDE DEF head
      <4>3. ASSUME NEW i \in 1 .. Len(head) PROVE head[i].role = "system"
        <5>1. CASE i \in 1 .. Len(summarizing.system)
          BY <4>2, <5>1 DEF ConversationOK, ConversationInv, Prefix
        <5>2. CASE i = Len(summarizing.system) + 1
          BY <4>2, <5>2, SystemTyped
        <5>3. QED
          BY <3>1, <4>2, <5>1, <5>2
      <4>4. QED
        BY <4>2, <4>3 DEF Prefix
    <3>3. CASE ~ok
      <4>1. head = summarizing.system
        BY <3>1, <3>3
      <4>2. QED
        BY <4>1 DEF ConversationOK, ConversationInv
    <3>4. QED
      BY <3>2, <3>3
  <2> HIDE DEF head
  <2>3. Sound(head \o summarizing.toKeep, mixed)
    BY <2>2, PutTogether DEF ConversationOK, ConversationInv
  <2>4. Sound(messages', mixed)
    BY <2>1, <2>3
  <2>5. Nothing.system = <<>> /\ Nothing.toKeep = <<>>
    BY DEF Nothing
  <2>6. <<>> \in Seq(Messages)
    BY EmptySeq
  <2>7. ConversationTyped'
    BY <2>1, <2>4, <2>6 DEF ConversationOK, ConversationTyped, Sound, Nothing
  <2>8. ConversationInv'
    BY <2>1, <2>4, <2>5, NothingSaid DEF ConversationOK, ConversationInv
  <2>9. QED
    BY <2>7, <2>8 DEF ConversationOK
<1>3. QED
  BY <1>1, <1>2

LEMMA SnapshotStep ==
  ASSUME ConversationOK, mixed' = mixed,
         TakeSnapshot \/ (\E k \in DOMAIN snapshots : Rewind(k)) \/ Clear
  PROVE  ConversationOK'
<1>0. /\ snapshots \in Seq(Seq(Messages)) /\ Len(snapshots) \in Nat
      /\ DOMAIN snapshots = 1 .. Len(snapshots) /\ MaxSnapshots \in Nat \ {0}
      /\ messages \in Seq(Messages)
  BY LenProperties, WindowAssumption DEF ConversationOK, ConversationTyped
<1>1. CASE TakeSnapshot
  <2> DEFINE all == Append(snapshots, messages)
             a == Len(all) - MaxSnapshots
  <2>1. /\ snapshots' = LastOf(all, MaxSnapshots)
        /\ messages' = messages /\ summarizing' = summarizing
    BY <1>1 DEF TakeSnapshot
  <2>2. /\ all \in Seq(Seq(Messages)) /\ Len(all) = Len(snapshots) + 1
        /\ \A i \in 1 .. Len(all) : Sound(all[i], mixed)
    <3>1. /\ all \in Seq(Seq(Messages)) /\ Len(all) = Len(snapshots) + 1
          /\ \A i \in 1 .. Len(snapshots) : all[i] = snapshots[i]
          /\ all[Len(snapshots) + 1] = messages
      BY <1>0, AppendProperties
    <3> HIDE DEF all
    <3>2. ASSUME NEW i \in 1 .. Len(all) PROVE Sound(all[i], mixed)
      <4>1. CASE i \in 1 .. Len(snapshots)
        BY <3>1, <4>1 DEF ConversationOK, ConversationInv
      <4>2. CASE i = Len(snapshots) + 1
        BY <3>1, <4>2 DEF ConversationOK, ConversationInv
      <4>3. QED
        BY <1>0, <3>1, <4>1, <4>2
    <3>3. QED
      BY <3>1, <3>2
  <2> HIDE DEF all
  <2>3. /\ snapshots' \in Seq(Seq(Messages)) /\ Len(snapshots') <= MaxSnapshots
        /\ \A i \in 1 .. Len(snapshots') : Sound(snapshots'[i], mixed)
    <3>1. CASE Len(all) <= MaxSnapshots
      BY <2>1, <2>2, <3>1 DEF LastOf
    <3>2. CASE Len(all) > MaxSnapshots
      <4> DEFINE t == SubSeq(all, a + 1, Len(all))
      <4>1. a \in Nat /\ Len(all) = a + MaxSnapshots /\ Len(all) \in Nat
        BY <1>0, <2>2, <3>2
      <4>2. /\ t \in Seq(Seq(Messages)) /\ Len(t) = MaxSnapshots
            /\ \A i \in 1 .. MaxSnapshots : t[i] = all[a + i]
        <5>1. a + 1 \in Nat \ {0} /\ Len(all) \in 1 .. Len(all)
          BY <1>0, <2>2, <4>1
        <5>2. \A i \in a + 1 .. Len(all) : i \in 1 .. Len(all) /\ all[i] \in Seq(Messages)
          BY <2>2, <4>1, ElementOfSeq
        <5> HIDE DEF a
        <5>3. /\ t \in Seq(Seq(Messages))
              /\ Len(t) = IF a + 1 <= Len(all) THEN Len(all) - (a + 1) + 1 ELSE 0
              /\ \A i \in 1 .. Len(all) - (a + 1) + 1 : t[i] = all[a + 1 + i - 1]
          BY <4>1, <5>2, SubSeqProperties
        <5>4. MaxSnapshots \in Nat \ {0}
          BY <1>0
        <5> HIDE DEF t
        <5>5. Len(t) = MaxSnapshots
          BY <4>1, <5>3, <5>4
        <5>6. ASSUME NEW i \in 1 .. MaxSnapshots PROVE t[i] = all[a + i]
          <6>1. i \in 1 .. Len(all) - (a + 1) + 1 /\ a + 1 + i - 1 = a + i
            BY <4>1, <5>4
          <6>2. QED
            BY <5>3, <6>1
        <5>7. QED
          BY <5>3, <5>5, <5>6
      <4>0. ~(Len(all) <= MaxSnapshots)
        BY <1>0, <3>2, <4>1
      <4>3. snapshots' = t
        BY <2>1, <4>0, Zenon DEF LastOf
      <4> HIDE DEF t, a
      <4>4. ASSUME NEW i \in 1 .. MaxSnapshots PROVE Sound(t[i], mixed)
        <5>1. a + i \in 1 .. Len(all) /\ t[i] = all[a + i]
          BY <1>0, <4>1, <4>2
        <5>2. QED
          BY <2>2, <5>1
      <4>5. QED
        BY <1>0, <4>2, <4>3, <4>4
    <3>3. QED
      BY <1>0, <2>2, <3>1, <3>2
  <2>4. ConversationTyped'
    BY <2>1, <2>3 DEF ConversationOK, ConversationTyped
  <2>5. ConversationInv'
    BY <2>1, <2>3 DEF ConversationOK, ConversationInv
  <2>6. QED
    BY <2>4, <2>5 DEF ConversationOK
<1>2. ASSUME NEW k \in DOMAIN snapshots, Rewind(k) PROVE ConversationOK'
  <2> DEFINE t == SubSeq(snapshots, 1, k)
  <2>1. /\ messages' = snapshots[k] /\ snapshots' = t
        /\ summarizing' = summarizing
    BY <1>2 DEF Rewind
  <2>2. /\ t \in Seq(Seq(Messages)) /\ Len(t) = k /\ k <= Len(snapshots)
        /\ \A i \in 1 .. k : t[i] = snapshots[i]
    BY <1>0
  <2> HIDE DEF t
  <2>3. Sound(snapshots[k], mixed) /\ snapshots[k] \in Seq(Messages)
    BY <1>0 DEF ConversationOK, ConversationInv
  <2>4. ASSUME NEW i \in 1 .. k PROVE Sound(t[i], mixed)
    <3>1. k \in 1 .. Len(snapshots) /\ Len(snapshots) \in Nat
      BY <1>0
    <3>2. i \in 1 .. Len(snapshots) /\ t[i] = snapshots[i]
      BY <2>2, <3>1
    <3>3. QED
      BY <3>2 DEF ConversationOK, ConversationInv
  <2>5. ConversationTyped'
    BY <1>0, <2>1, <2>2, <2>3 DEF ConversationOK, ConversationTyped
  <2>6. ConversationInv'
    BY <2>1, <2>2, <2>3, <2>4 DEF ConversationOK, ConversationInv
  <2>7. QED
    BY <2>5, <2>6 DEF ConversationOK
<1>3. CASE Clear
  <2>1. messages' = <<>> /\ snapshots' = snapshots /\ summarizing' = summarizing
    BY <1>3 DEF Clear
  <2>2. <<>> \in Seq(Messages) /\ Sound(<<>>, mixed)
    BY NothingSaid DEF Sound
  <2>3. ConversationTyped'
    BY <2>1, <2>2 DEF ConversationOK, ConversationTyped
  <2>4. ConversationInv'
    BY <2>1, <2>2 DEF ConversationOK, ConversationInv
  <2>5. QED
    BY <2>3, <2>4 DEF ConversationOK
<1>4. QED
  BY <1>1, <1>2, <1>3

-----------------------------------------------------------------------------
(* The types of a run, and what a step of one run is to the others.        *)

Contexts == [view : Seq(Messages), attempt : 0..LLMRetries + 1,
             late : SUBSET (1..LLMRetries + 1),
             response : Responses \cup {NoResponse},
             executed : Responses \cup {NoResponse}]

RunTyped ==
  /\ pc \in [Runs -> {"idle", "before", "next", "llm", "tools", "after", "error",
                      "done", "failed"}]
  /\ iteration \in [Runs -> Nat] /\ \A r \in Runs : iteration[r] <= MaxIterations[r]
  /\ context \in [Runs -> Contexts]

RestTyped ==
  /\ isRunning \in BOOLEAN
  /\ ops \in 0..MaxOps /\ faults \in 0..MaxFaults
  /\ disturbed \subseteq Runs /\ mixed \subseteq Runs

LEMMA LoopInvParts ==
  /\ LoopInv <=> /\ ConversationOK /\ RunTyped /\ RestTyped
                 /\ \A r \in Runs : RunOK(r)
  /\ LoopInv' <=> /\ ConversationOK' /\ RunTyped' /\ RestTyped'
                  /\ \A r \in Runs : RunOK(r)'
BY DEF LoopInv, TypeOK, ConversationOK, ConversationTyped, RunTyped, RestTyped,
       Contexts

\* Nothing is taken from the conversation.
Grows == \E added \in Seq(Messages) : messages' = messages \o added

LEMMA RecordedStays ==
  ASSUME NEW s \in Seq(Messages), NEW added \in Seq(Messages), NEW r, NEW k,
         Recorded(r, k, s)
  PROVE  Recorded(r, k, s \o added)
<1>1. /\ Len(s) \in Nat /\ Len(s \o added) = Len(s) + Len(added) /\ Len(added) \in Nat
      /\ \A i \in 1 .. Len(s) : (s \o added)[i] = s[i]
  BY LenProperties
<1>2. \A i \in 1 .. Len(s) : i \in 1 .. Len(s \o added)
  BY <1>1
<1>3. QED
  BY <1>1, <1>2 DEF Recorded

\* What a run relies on stays as long as only others go on.
LEMMA OthersGoOn ==
  ASSUME ConversationTyped, NEW j \in Runs, RunOK(j),
         pc'[j] = pc[j], iteration'[j] = iteration[j], context'[j] = context[j],
         j \in mixed => j \in mixed',
         j \in disturbed => j \in disturbed',
         Grows \/ messages' = messages \/ j \in disturbed' \/ j \notin Busy
  PROVE  RunOK(j)'
<1>1. CASE j \in disturbed' \/ messages' = messages
  BY <1>1 DEF RunOK, Recorded
<1>2. CASE j \notin Busy
  BY <1>2 DEF RunOK, Recorded, Busy
<1>3. CASE Grows /\ j \notin disturbed'
  <2>1. PICK added \in Seq(Messages) : messages' = messages \o added
    BY <1>3 DEF Grows
  <2>2. Recorded(j, iteration[j], messages) => Recorded(j, iteration[j], messages')
    BY <2>1, RecordedStays DEF ConversationTyped
  <2>3. QED
    BY <1>3, <2>2 DEF RunOK, Recorded
<1>4. QED
  BY <1>1, <1>2, <1>3

\* A step of r: its own place in the code, and perhaps messages at the end.
StepOf(r) ==
  /\ \A j \in Runs \ {r} :
       pc'[j] = pc[j] /\ iteration'[j] = iteration[j] /\ context'[j] = context[j]
  /\ Grows \/ messages' = messages
  /\ mixed' \in {mixed, mixed \cup {r}}
  /\ disturbed' \in {disturbed, disturbed \ {r}}

LEMMA StepOfPreserves ==
  ASSUME LoopInv, NEW r \in Runs, StepOf(r),
         ConversationOK', RunTyped', isRunning' \in BOOLEAN,
         ops' \in 0..MaxOps, faults' \in 0..MaxFaults, RunOK(r)'
  PROVE  LoopInv'
<1>1. \A j \in Runs \ {r} : RunOK(j)'
  BY LoopInvParts, OthersGoOn DEF StepOf, ConversationOK
<1>2. RestTyped'
  BY LoopInvParts DEF StepOf, RestTyped
<1>3. QED
  BY <1>1, <1>2, LoopInvParts

-----------------------------------------------------------------------------
(* What the loop says.                                                     *)

LEMMA MessagesSaid ==
  ASSUME iteration \in [Runs -> Nat], NEW r \in Runs
  PROVE  /\ UserMessage(r) \in Messages /\ UserMessage(r).role = "user"
         /\ Assistant(r) \in Messages /\ Assistant(r).role = "assistant"
         /\ Assistant(r).run = r /\ Assistant(r).iteration = iteration[r]
         /\ \A resp, ran, n, k : ToolMessage(r, resp, n, ran, k).role = "tool"
         /\ \A resp, ran : \A n \in 1 .. Calls :
              /\ ToolMessage(r, resp, n, ran, n) \in Messages
              /\ ToolMessage(r, resp, n, ran, n).run = r
              /\ ToolMessage(r, resp, n, ran, n).n = n
              /\ ToolMessage(r, resp, n, ran, n).iteration = iteration[r]
              /\ ran = resp => ToolMessage(r, resp, n, ran, n).answers = n
BY CallsTyped DEF Messages, UserMessage, Assistant, ToolMessage, Message

LEMMA OneSaid ==
  ASSUME NEW excused, NEW m \in Messages, m.role \in {"user", "assistant"}
  PROVE  Talk(<<m>>, excused) /\ Len(<<m>>) = 1 /\ <<m>>[1] = m
<1>1. <<m>> \in Seq(Messages) /\ Len(<<m>>) = 1 /\ <<m>>[1] = m
  OBVIOUS
<1>2. \A i \in 1 .. 1 : i = 1
  OBVIOUS
<1>3. QED
  BY <1>1, <1>2 DEF Talk, Spoken, Joined, Answering

\* The results, behind the message that called for them.
LEMMA ResultsSaid ==
  ASSUME iteration \in [Runs -> Nat], NEW r \in Runs, NEW resp, NEW ran,
         NEW excused, r \notin excused => ran = resp
  PROVE  LET added == <<Assistant(r)>> \o ToolMessages(r, resp, ran) IN
           /\ Talk(added, excused) /\ Len(added) > 0
           /\ added[1].role # "tool"
           /\ Recorded(r, iteration[r], added)
<1> DEFINE a == Assistant(r)
           tools == ToolMessages(r, resp, ran)
           tool(n) == ToolMessage(r, resp, n, ran, n)
           added == <<a>> \o tools
<1>1. /\ tools \in Seq(Messages) /\ Len(tools) = Calls
      /\ \A n \in 1 .. Calls : tools[n] = tool(n)
  <2>1. tools = [n \in 1 .. Calls |-> tool(n)]
    BY DEF ToolMessages
  <2>2. \A n \in 1 .. Calls : tool(n) \in Messages
    BY MessagesSaid
  <2> HIDE DEF tool, tools
  <2>3. \A n \in 1 .. Calls : tools[n] = tool(n)
    BY <2>1
  <2>4. tools = [n \in 1 .. Calls |-> tools[n]] /\ Calls \in Nat
    BY <2>1, CallsTyped
  <2>5. QED
    BY <2>2, <2>3, <2>4, IsSequence
<1>2. <<a>> \in Seq(Messages) /\ Len(<<a>>) = 1 /\ <<a>>[1] = a
  BY MessagesSaid
<1> HIDE DEF a, tools
<1>3. /\ added \in Seq(Messages) /\ Len(added) = Calls + 1 /\ Calls \in Nat
      /\ added[1] = a
      /\ \A n \in 1 .. Calls : added[n + 1] = tool(n)
  BY <1>1, <1>2, CallsTyped
<1> HIDE DEF added
<1>4. /\ a.role = "assistant" /\ a.run = r /\ a.iteration = iteration[r]
      /\ \A n \in 1 .. Calls :
           /\ tool(n).role = "tool" /\ tool(n).run = r /\ tool(n).n = n
           /\ tool(n).iteration = iteration[r]
           /\ r \notin excused => tool(n).answers = n
  BY MessagesSaid DEF a
<1> HIDE DEF tool
<1>5. ASSUME NEW i \in 1 .. Len(added)
      PROVE  \/ i = 1 /\ added[i] = a
             \/ \E n \in 1 .. Calls : i = n + 1 /\ added[i] = tool(n)
  <2>1. CASE i = 1
    BY <1>3, <2>1
  <2>2. CASE i > 1
    <3>1. i - 1 \in 1 .. Calls /\ i = (i - 1) + 1
      BY <1>3, <2>2
    <3>2. QED
      BY <1>3, <3>1
  <2>3. QED
    BY <1>3, <2>1, <2>2
<1>6. Spoken(added)
  BY <1>4, <1>5 DEF Spoken
<1>7. Answering(added, excused)
  BY <1>4, <1>5 DEF Answering
<1>8. Joined(added)
  <2> SUFFICES ASSUME NEW i \in 1 .. Len(added), i > 1
               PROVE  Behind(added[i - 1], added[i])
    BY DEF Joined
  <2>1. PICK n \in 1 .. Calls : i = n + 1 /\ added[i] = tool(n)
    BY <1>5
  <2>2. CASE n = 1
    <3>1. added[i - 1] = a
      BY <1>3, <2>1, <2>2
    <3>2. QED
      BY <1>4, <2>1, <2>2, <3>1 DEF Behind
  <2>3. CASE n > 1
    <3>1. n - 1 \in 1 .. Calls /\ i - 1 = (n - 1) + 1 /\ (n - 1) + 1 = n
      BY <1>3, <2>1, <2>3
    <3>2. added[i - 1] = tool(n - 1)
      BY <1>3, <3>1
    <3>3. QED
      BY <1>4, <2>1, <3>1, <3>2 DEF Behind
  <2>4. QED
    BY <1>3, <2>1, <2>2, <2>3
<1>9. Recorded(r, iteration[r], added)
  <2> SUFFICES ASSUME NEW n \in 1 .. Calls
               PROVE  \E i \in 1 .. Len(added) :
                        /\ added[i].role = "tool" /\ added[i].n = n
                        /\ added[i].run = r /\ added[i].iteration = iteration[r]
    BY DEF Recorded
  <2>1. n + 1 \in 1 .. Len(added) /\ added[n + 1] = tool(n)
    BY <1>3
  <2>2. QED
    BY <1>4, <2>1
<1>10. Talk(added, excused) /\ Len(added) > 0 /\ added[1].role # "tool"
  BY <1>3, <1>4, <1>6, <1>7, <1>8 DEF Talk
<1>11. QED
  BY <1>9, <1>10 DEF added, a, tools

\* Results just recorded stand in the conversation.
LEMMA RecordedNow ==
  ASSUME NEW s \in Seq(Messages), NEW added \in Seq(Messages), NEW r, NEW k,
         Recorded(r, k, added)
  PROVE  Recorded(r, k, s \o added)
<1>1. /\ Len(s) \in Nat /\ Len(s \o added) = Len(s) + Len(added) /\ Len(added) \in Nat
      /\ \A i \in 1 .. Len(added) : (s \o added)[Len(s) + i] = added[i]
  BY LenProperties
<1>2. \A i \in 1 .. Len(added) : Len(s) + i \in 1 .. Len(s \o added)
  BY <1>1
<1>3. QED
  BY <1>1, <1>2 DEF Recorded

-----------------------------------------------------------------------------
(* The steps of a run.                                                     *)

LEMMA GrowsBy ==
  ASSUME NEW added, AddMessages(added), added \in Seq(Messages)
  PROVE  Grows
BY DEF AddMessages, Grows

LEMMA ContextsTyped ==
  /\ NoContext \in Contexts
  /\ \A a \in 1 .. LLMRetries + 1, calls \in BOOLEAN : Response(a, calls) \in Responses
  /\ \A c \in Contexts : /\ c.view \in Seq(Messages)
                         /\ c.attempt \in 0 .. LLMRetries + 1
                         /\ c.late \subseteq 1 .. LLMRetries + 1
                         /\ c.response \in Responses \cup {NoResponse}
                         /\ c.executed \in Responses \cup {NoResponse}
<1>1. <<>> \in Seq(Messages)
  BY EmptySeq
<1>2. 0 \in 0 .. LLMRetries + 1
  BY StepAssumption
<1>3. NoContext \in Contexts
  BY <1>1, <1>2 DEF NoContext, Contexts
<1>4. QED
  BY <1>3 DEF Response, Responses, Contexts

LEMMA CallStep ==
  ASSUME LoopInv, NEW r \in Runs, Call(r)
  PROVE  LoopInv'
<1> ConversationOK /\ RunTyped /\ RestTyped /\ RunOK(r)
  BY LoopInvParts
<1>1. PICK added : /\ AddMessages(added) /\ Talk(added, mixed)
                   /\ Len(added) > 0 => added[1].role # "tool"
  <2>1. CASE r \in Turns /\ AddMessages(<<>>)
    BY <2>1, NothingSaid
  <2>2. CASE r \in Loops /\ AddMessages(<<UserMessage(r)>>)
    <3>1. Talk(<<UserMessage(r)>>, mixed) /\ <<UserMessage(r)>>[1].role # "tool"
      BY MessagesSaid, OneSaid DEF RunTyped
    <3>2. QED
      BY <2>2, <3>1
  <2>3. QED
    BY <2>1, <2>2 DEF Call
<1>2. ConversationOK'
  BY <1>1, Saying DEF Call
<1>3. StepOf(r)
  BY <1>1, GrowsBy DEF Call, StepOf, RunTyped, Talk
<1>4. RunTyped'
  BY DEF Call, RunTyped
<1>5. RunOK(r)'
  <2>1. iteration'[r] = 0 /\ pc'[r] \in {"before", "next"}
    BY DEF Call, RunTyped, RunOK
  <2>2. QED
    BY <2>1 DEF RunOK
<1>6. isRunning' \in BOOLEAN /\ ops' = ops /\ faults' = faults
  BY DEF Call, RestTyped
<1>7. QED
  BY <1>2, <1>3, <1>4, <1>5, <1>6, StepOfPreserves DEF RestTyped

LEMMA BeginIterationStep ==
  ASSUME LoopInv, NEW r \in Runs, BeginIteration(r)
  PROVE  LoopInv'
<1> ConversationOK /\ RunTyped /\ RestTyped /\ RunOK(r)
  BY LoopInvParts
<1> DEFINE added == IF pc[r] = "before" THEN <<UserMessage(r)>> ELSE <<>>
<1>1. /\ AddMessages(added) /\ Talk(added, mixed)
      /\ Len(added) > 0 => added[1].role # "tool"
  <2>1. AddMessages(added)
    BY DEF BeginIteration
  <2>2. CASE pc[r] = "before"
    BY <2>1, <2>2, MessagesSaid, OneSaid DEF RunTyped
  <2>3. CASE pc[r] # "before"
    BY <2>1, <2>3, NothingSaid
  <2>4. QED
    BY <2>2, <2>3
<1>2. ConversationOK'
  BY <1>1, Saying DEF BeginIteration
<1>3. messages' \in Seq(Messages)
  BY <1>2 DEF ConversationOK, ConversationTyped
<1>4. /\ context'[r].view = messages' /\ context'[r].attempt = 1
      /\ context'[r] \in Contexts
      /\ iteration'[r] = iteration[r] + 1 /\ pc'[r] = "llm"
      /\ iteration[r] < MaxIterations[r] /\ iteration[r] \in Nat
  <2> DEFINE new == [NoContext EXCEPT !.view = messages', !.attempt = 1]
  <2>1. new.view = messages' /\ new.attempt = 1 /\ new \in Contexts
    <3>1. 1 \in 0 .. LLMRetries + 1
      BY StepAssumption
    <3>2. QED
      BY <1>3, <3>1, ContextsTyped DEF NoContext, Contexts
  <2>2. context' = [context EXCEPT ![r] = new]
    BY DEF BeginIteration
  <2> HIDE DEF new
  <2>3. context'[r] = new
    BY <2>2 DEF RunTyped
  <2>4. QED
    BY <2>1, <2>3 DEF BeginIteration, GoesOn, RunTyped
<1>5. RunTyped'
  <2>1. context' \in [Runs -> Contexts]
    <3>1. context' = [context EXCEPT ![r] = context'[r]]
      BY DEF BeginIteration, RunTyped
    <3>2. QED
      BY <1>4, <3>1 DEF RunTyped
  <2>2. /\ iteration' \in [Runs -> Nat]
        /\ \A j \in Runs : iteration'[j] <= MaxIterations[j]
    <3>1. MaxIterations[r] \in Nat
      BY LoopAssumption
    <3>2. iteration' = [iteration EXCEPT ![r] = iteration[r] + 1]
      BY DEF BeginIteration
    <3>3. QED
      BY <1>4, <3>1, <3>2 DEF RunTyped
  <2>3. QED
    BY <2>1, <2>2 DEF RunTyped, BeginIteration
<1>6. RunOK(r)'
  <2>1. ASSUME r \notin disturbed, iteration[r] > 0
        PROVE  Recorded(r, iteration[r], messages')
    <3>1. pc[r] = "next"
      BY <1>4, <2>1 DEF RunOK, BeginIteration
    <3>2. messages' = messages \o <<>> /\ <<>> \in Seq(Messages)
      BY <1>1, <3>1, EmptySeq DEF AddMessages
    <3>3. Recorded(r, iteration[r], messages)
      BY <2>1, <3>1 DEF RunOK
    <3>4. QED
      BY <3>2, <3>3, RecordedStays DEF ConversationOK, ConversationTyped
  <2>2. /\ iteration'[r] > 1 => iteration[r] > 0
        /\ iteration'[r] - 1 = iteration[r] /\ disturbed' = disturbed
    BY <1>4 DEF BeginIteration
  <2>3. r \notin disturbed' /\ iteration'[r] > 1
          => Recorded(r, iteration'[r] - 1, context'[r].view)
    BY <1>4, <2>1, <2>2
  <2>4. QED
    BY <1>4, <2>3 DEF RunOK, Recorded
<1>7. StepOf(r)
  BY <1>1, GrowsBy DEF BeginIteration, StepOf, RunTyped, Talk
<1>8. isRunning' \in BOOLEAN /\ ops' = ops /\ faults' = faults
  BY DEF BeginIteration, RestTyped
<1>9. QED
  BY <1>2, <1>5, <1>6, <1>7, <1>8, StepOfPreserves DEF RestTyped

\* The end of call-llm, and what the pipeline does with its answer.
LEMMA AfterLLMStep ==
  ASSUME LoopInv, NEW r \in Runs, pc[r] = "llm",
         NEW resp \in Responses \cup {NoResponse},
         NEW late \in SUBSET (1 .. LLMRetries + 1), AfterLLM(r, resp, late),
         UNCHANGED <<iteration, isRunning, ops, disturbed, mixed>>,
         faults' \in 0 .. MaxFaults
  PROVE  LoopInv'
<1> ConversationOK /\ RunTyped /\ RestTyped /\ RunOK(r)
  BY LoopInvParts
<1>1. CASE /\ resp # NoResponse /\ resp.calls
           /\ pc' = [pc EXCEPT ![r] = "tools"]
           /\ context' = [context EXCEPT ![r].response = resp,
                                         ![r].executed = resp, ![r].late = late]
           /\ UNCHANGED conversationVars
  <2>1. ConversationOK' /\ messages' = messages
    BY <1>1, MixedGrows DEF conversationVars
  <2> DEFINE new == [[[context[r] EXCEPT !.response = resp]
                                 EXCEPT !.executed = resp] EXCEPT !.late = late]
  <2>2. new \in Contexts /\ new.response = resp /\ new.executed = resp
    <3>1. context[r] \in Contexts
      BY DEF RunTyped
    <3>2. QED
      BY <3>1 DEF Contexts
  <2>3. context' = [context EXCEPT ![r] = new]
    BY <1>1 DEF RunTyped
  <2> HIDE DEF new
  <2>4. RunTyped'
    <3>1. context' \in [Runs -> Contexts]
      BY <2>2, <2>3 DEF RunTyped
    <3>2. UNCHANGED <<iteration, isRunning>>
      OBVIOUS
    <3>3. QED
      BY <1>1, <3>1, <3>2 DEF RunTyped
  <2>5. RunOK(r)'
    <3>1. /\ context'[r].response = resp /\ context'[r].executed = resp
          /\ pc'[r] = "tools"
      BY <1>1, <2>2, <2>3 DEF RunTyped
    <3>2. QED
      BY <1>1, <3>1 DEF RunOK
  <2>6. StepOf(r)
    BY <1>1, <2>1, <2>3 DEF StepOf, RunTyped
  <2>7. QED
    BY <2>1, <2>4, <2>5, <2>6, StepOfPreserves DEF RestTyped
<1>2. CASE /\ pc' \in {[pc EXCEPT ![r] = "after"], [pc EXCEPT ![r] = "error"]}
           /\ context' = [context EXCEPT ![r] = NoContext]
           /\ AddMessages(<<Assistant(r)>>) \/ UNCHANGED conversationVars
  <2>1. ConversationOK' /\ (Grows \/ messages' = messages)
    <3>1. CASE AddMessages(<<Assistant(r)>>)
      <4>1. Talk(<<Assistant(r)>>, mixed) /\ <<Assistant(r)>>[1].role # "tool"
        BY MessagesSaid, OneSaid DEF RunTyped
      <4>2. QED
        BY <3>1, <4>1, Saying, GrowsBy DEF Talk
    <3>2. CASE UNCHANGED conversationVars
      BY <3>2, MixedGrows DEF conversationVars
    <3>3. QED
      BY <1>2, <3>1, <3>2
  <2>2. RunTyped'
    BY <1>2, ContextsTyped DEF RunTyped
  <2>3. RunOK(r)'
    <3>1. pc'[r] \in {"after", "error"}
      BY <1>2 DEF RunTyped
    <3>2. QED
      BY <3>1 DEF RunOK
  <2>4. StepOf(r)
    BY <1>2, <2>1 DEF StepOf, RunTyped
  <2>5. QED
    BY <2>1, <2>2, <2>3, <2>4, StepOfPreserves DEF RestTyped
<1>3. QED
  BY <1>1, <1>2 DEF AfterLLM

LEMMA AnswerStep ==
  ASSUME LoopInv, NEW r \in Runs, LLMAnswers(r)
  PROVE  LoopInv'
<1> RunTyped /\ RestTyped /\ RunOK(r)
  BY LoopInvParts
<1>1. PICK calls \in BOOLEAN :
        AfterLLM(r, Response(context[r].attempt, calls), context[r].late)
  BY DEF LLMAnswers
<1>2. context[r] \in Contexts /\ pc[r] = "llm"
  BY DEF RunTyped, LLMAnswers
<1>3. context[r].attempt \in 1 .. LLMRetries + 1
  BY <1>2, ContextsTyped, StepAssumption DEF RunOK
<1>4. Response(context[r].attempt, calls) \in Responses
  BY <1>3, ContextsTyped
<1>5. context[r].late \in SUBSET (1 .. LLMRetries + 1)
  BY <1>2, ContextsTyped
<1>6. QED
  BY <1>1, <1>2, <1>4, <1>5, AfterLLMStep DEF LLMAnswers, RestTyped

LEMMA FailureStep ==
  ASSUME LoopInv, NEW r \in Runs, LLMFails(r) \/ LLMTimesOut(r)
  PROVE  LoopInv'
<1> ConversationOK /\ RunTyped /\ RestTyped /\ RunOK(r)
  BY LoopInvParts
<1>1. /\ pc[r] = "llm" /\ context[r] \in Contexts
      /\ UNCHANGED <<iteration, isRunning, ops, disturbed, mixed>>
  BY DEF RunTyped, LLMFails, LLMTimesOut
<1>2. context[r].attempt \in 1 .. LLMRetries + 1
  BY <1>1, ContextsTyped, StepAssumption DEF RunOK
<1>3. PICK abandoned \in {{}, {context[r].attempt}} : AttemptFails(r, abandoned)
  BY DEF LLMFails, LLMTimesOut
<1>4. abandoned \subseteq 1 .. LLMRetries + 1
  BY <1>2
<1>5. faults' \in 0 .. MaxFaults
  BY <1>3, BoundAssumption DEF AttemptFails, RestTyped
<1>6. CASE /\ context[r].attempt <= LLMRetries
           /\ context' = [context EXCEPT ![r].attempt = @ + 1,
                                         ![r].late = @ \cup abandoned]
           /\ UNCHANGED <<conversationVars, pc>>
  <2> DEFINE new == [[context[r] EXCEPT !.attempt = context[r].attempt + 1]
                        EXCEPT !.late = context[r].late \cup abandoned]
  <2>1. context' = [context EXCEPT ![r] = new]
    BY <1>1, <1>6 DEF RunTyped, Contexts
  <2>2. new \in Contexts /\ new.attempt > 0 /\ new.view = context[r].view
    <3>1. context[r].attempt + 1 \in 0 .. LLMRetries + 1 /\ context[r].attempt + 1 > 0
      BY <1>2, <1>6, StepAssumption
    <3>2. context[r].late \cup abandoned \in SUBSET (1 .. LLMRetries + 1)
      BY <1>1, <1>4, ContextsTyped
    <3>3. QED
      BY <1>1, <3>1, <3>2 DEF Contexts
  <2> HIDE DEF new
  <2>3. ConversationOK' /\ messages' = messages
    BY <1>1, <1>6, MixedGrows DEF conversationVars
  <2>4. RunTyped'
    BY <1>1, <1>6, <2>1, <2>2 DEF RunTyped
  <2>5. context'[r].view = context[r].view /\ context'[r].attempt > 0
    BY <2>1, <2>2 DEF RunTyped
  <2>6. RunOK(r)'
    <3>1. /\ pc' = pc /\ iteration' = iteration /\ disturbed' = disturbed
          /\ pc'[r] = "llm"
      BY <1>1, <1>6
    <3>2. Recorded(r, iteration[r] - 1, context[r].view)'
            <=> Recorded(r, iteration[r] - 1, context[r].view)
      BY <2>5, <3>1 DEF Recorded
    <3>3. QED
      BY <1>1, <2>5, <3>1, <3>2 DEF RunOK
  <2>7. StepOf(r)
    BY <1>1, <1>6, <2>1, <2>3 DEF StepOf, RunTyped
  <2>8. QED
    BY <1>1, <1>5, <2>3, <2>4, <2>6, <2>7, StepOfPreserves DEF RestTyped
<1>7. CASE /\ pc' = [pc EXCEPT ![r] = "error"]
           /\ context' = [context EXCEPT ![r] = NoContext]
           /\ UNCHANGED conversationVars
  <2>1. ConversationOK' /\ messages' = messages
    BY <1>1, <1>7, MixedGrows DEF conversationVars
  <2>2. RunTyped'
    BY <1>1, <1>7, ContextsTyped DEF RunTyped
  <2>3. pc'[r] = "error"
    BY <1>7 DEF RunTyped
  <2>4. RunOK(r)'
    BY <2>3 DEF RunOK
  <2>5. StepOf(r)
    BY <1>1, <1>7, <2>1 DEF StepOf, RunTyped
  <2>6. QED
    BY <1>1, <1>5, <2>1, <2>2, <2>4, <2>5, StepOfPreserves DEF RestTyped
<1>8. CASE AfterLLM(r, context[r].response, context[r].late \cup abandoned)
  <2>1. /\ context[r].response \in Responses \cup {NoResponse}
        /\ context[r].late \cup abandoned \in SUBSET (1 .. LLMRetries + 1)
    BY <1>1, <1>4, ContextsTyped
  <2>2. QED
    BY <1>1, <1>5, <1>8, <2>1, AfterLLMStep
<1>9. QED
  BY <1>3, <1>6, <1>7, <1>8 DEF AttemptFails

LEMMA LateAnswerStep ==
  ASSUME LoopInv, NEW r \in Runs, NEW a \in context[r].late, LateAnswer(r, a)
  PROVE  LoopInv'
<1> ConversationOK /\ RunTyped /\ RestTyped /\ RunOK(r)
  BY LoopInvParts
<1>1. context[r] \in Contexts /\ a \in 1 .. LLMRetries + 1
  BY ContextsTyped DEF RunTyped
<1>2. PICK calls \in BOOLEAN :
        context' = [context EXCEPT ![r].late = @ \ {a},
                                   ![r].response = Response(a, calls)]
  BY DEF LateAnswer
<1> DEFINE new == [[context[r] EXCEPT !.late = context[r].late \ {a}]
                      EXCEPT !.response = Response(a, calls)]
<1>3. context' = [context EXCEPT ![r] = new]
  BY <1>1, <1>2 DEF RunTyped, Contexts
<1>4. /\ new \in Contexts /\ new.attempt = context[r].attempt
      /\ new.view = context[r].view /\ new.executed = context[r].executed
      /\ new.response \in Responses
  <2>1. Response(a, calls) \in Responses
    BY <1>1, ContextsTyped
  <2>2. context[r].late \ {a} \in SUBSET (1 .. LLMRetries + 1)
    BY <1>1, ContextsTyped
  <2>3. QED
    BY <1>1, <2>1, <2>2 DEF Contexts
<1> HIDE DEF new
<1>5. UNCHANGED <<conversationVars, pc, iteration, isRunning, ops, faults, disturbed>>
  BY DEF LateAnswer
<1>6. mixed' \in {mixed, mixed \cup {r}} /\ (pc[r] = "tools" => r \in mixed')
  BY DEF LateAnswer
<1>7. ConversationOK' /\ messages' = messages
  BY <1>5, <1>6, MixedGrows DEF conversationVars
<1>8. RunTyped'
  BY <1>3, <1>4, <1>5 DEF RunTyped
<1>9. RunOK(r)'
  <2>1. /\ context'[r].attempt = context[r].attempt
        /\ context'[r].view = context[r].view
        /\ context'[r].executed = context[r].executed
        /\ context'[r].response \in Responses
    BY <1>3, <1>4 DEF RunTyped
  <2>2. /\ pc' = pc /\ iteration' = iteration /\ disturbed' = disturbed
        /\ messages' = messages
    BY <1>5, <1>7
  <2>3. pc[r] = "tools" => RunOK(r)'
    BY <1>6, <2>1, <2>2 DEF RunOK
  <2>4. pc[r] # "tools" => RunOK(r)'
    <3>1. /\ Recorded(r, iteration[r], messages)' <=> Recorded(r, iteration[r], messages)
          /\ Recorded(r, iteration[r] - 1, context[r].view)'
                <=> Recorded(r, iteration[r] - 1, context[r].view)
      BY <2>1, <2>2 DEF Recorded
    <3>2. QED
      BY <2>1, <2>2, <3>1 DEF RunOK
  <2>5. QED
    BY <2>3, <2>4
<1>10. StepOf(r)
  BY <1>3, <1>5, <1>6, <1>7 DEF StepOf, RunTyped
<1>11. QED
  BY <1>5, <1>7, <1>8, <1>9, <1>10, StepOfPreserves DEF RestTyped

LEMMA RecordResultsStep ==
  ASSUME LoopInv, NEW r \in Runs, RecordResults(r)
  PROVE  LoopInv'
<1> ConversationOK /\ RunTyped /\ RestTyped /\ RunOK(r)
  BY LoopInvParts
<1> DEFINE resp == context[r].response
           ran == context[r].executed
           results == <<Assistant(r)>> \o ToolMessages(r, resp, ran)
<1>1. /\ pc[r] = "tools" /\ (r \notin mixed => ran = resp)
      /\ context' = [context EXCEPT ![r] = NoContext]
      /\ UNCHANGED <<iteration, isRunning, ops, faults, disturbed, mixed>>
  BY DEF RecordResults, RunOK
<1>2. CASE AddMessages(results) /\ pc' = [pc EXCEPT ![r] = "next"]
  <2> HIDE DEF resp, ran
  <2>1. /\ Talk(results, mixed) /\ results[1].role # "tool"
        /\ Recorded(r, iteration[r], results)
    BY <1>1, ResultsSaid DEF RunTyped
  <2>2. results \in Seq(Messages)
    BY <2>1 DEF Talk
  <2> HIDE DEF results
  <2>3. ConversationOK' /\ Grows
    BY <1>1, <1>2, <2>1, <2>2, Saying, GrowsBy
  <2>4. RunTyped'
    BY <1>1, <1>2, ContextsTyped DEF RunTyped
  <2>5. RunOK(r)'
    <3>1. messages' = messages \o results /\ messages \in Seq(Messages)
      BY <1>2 DEF AddMessages, ConversationOK, ConversationTyped
    <3>2. Recorded(r, iteration[r], messages')
      BY <2>1, <2>2, <3>1, RecordedNow
    <3>3. pc'[r] = "next" /\ iteration' = iteration
      BY <1>1, <1>2 DEF RunTyped
    <3>4. QED
      BY <3>2, <3>3 DEF RunOK, Recorded
  <2>6. StepOf(r)
    BY <1>1, <1>2, <2>3 DEF StepOf, RunTyped
  <2>7. QED
    BY <1>1, <2>3, <2>4, <2>5, <2>6, StepOfPreserves DEF RestTyped
<1>3. CASE AddMessages(<<Assistant(r)>>) /\ pc' = [pc EXCEPT ![r] = "error"]
  <2>1. Talk(<<Assistant(r)>>, mixed) /\ <<Assistant(r)>>[1].role # "tool"
    BY MessagesSaid, OneSaid DEF RunTyped
  <2>2. ConversationOK' /\ Grows
    BY <1>1, <1>3, <2>1, Saying, GrowsBy DEF Talk
  <2>3. RunTyped'
    BY <1>1, <1>3, ContextsTyped DEF RunTyped
  <2>4. pc'[r] = "error"
    BY <1>3 DEF RunTyped
  <2>5. RunOK(r)'
    BY <2>4 DEF RunOK
  <2>6. StepOf(r)
    BY <1>1, <1>3, <2>2 DEF StepOf, RunTyped
  <2>7. QED
    BY <1>1, <2>2, <2>3, <2>5, <2>6, StepOfPreserves DEF RestTyped
<1>4. QED
  BY <1>2, <1>3 DEF RecordResults

\* The ends of a loop, of a call, and of one that fails.
LEMMA EndStep ==
  ASSUME LoopInv, NEW r \in Runs, LastIteration(r) \/ Returns(r) \/ Throws(r)
  PROVE  LoopInv'
<1> ConversationOK /\ RunTyped /\ RestTyped /\ RunOK(r)
  BY LoopInvParts
<1>1. /\ pc' \in {[pc EXCEPT ![r] = "after"], [pc EXCEPT ![r] = "done"],
                  [pc EXCEPT ![r] = "failed"]}
      /\ iteration' \in {iteration, [iteration EXCEPT ![r] = 0]}
      /\ UNCHANGED <<conversationVars, context, ops, faults, mixed>>
      /\ disturbed' \in {disturbed, disturbed \ {r}}
      /\ isRunning' \in BOOLEAN
  BY DEF LastIteration, Returns, Throws, RestTyped
<1>2. ConversationOK' /\ messages' = messages
  BY <1>1, MixedGrows DEF conversationVars
<1>3. RunTyped'
  <2>1. MaxIterations[r] \in Nat
    BY LoopAssumption
  <2>2. QED
    BY <1>1, <2>1 DEF RunTyped
<1>4. RunOK(r)'
  <2>1. pc'[r] \in {"after", "done", "failed"}
    BY <1>1 DEF RunTyped
  <2>2. QED
    BY <2>1 DEF RunOK
<1>5. StepOf(r)
  BY <1>1, <1>2 DEF StepOf, RunTyped
<1>6. QED
  BY <1>1, <1>2, <1>3, <1>4, <1>5, StepOfPreserves DEF RestTyped

-----------------------------------------------------------------------------
(* The application, and every step.                                        *)

LEMMA ApplicationStep ==
  ASSUME LoopInv,
         \/ Compact \/ StartSummary \/ SummaryArrives
         \/ Snapshot \/ (\E k \in DOMAIN snapshots : RewindTo(k))
         \/ Forget
  PROVE  LoopInv'
<1> ConversationOK /\ RunTyped /\ RestTyped
  BY LoopInvParts
<1>1. /\ UNCHANGED <<pc, iteration, context, isRunning, faults, mixed>>
      /\ disturbed' = disturbed \cup Busy \/ (disturbed' = disturbed /\ messages' = messages)
      /\ ops' \in 0 .. MaxOps
  BY BoundAssumption
     DEF Compact, StartSummary, SummaryArrives, Snapshot, RewindTo, Forget,
         Operation, TakeSnapshot, RestTyped
<1>2. ConversationOK'
  BY <1>1, CompactionStep, SummaryStep, SnapshotStep
     DEF Compact, StartSummary, SummaryArrives, Snapshot, RewindTo, Forget
<1>3. RunTyped'
  BY <1>1 DEF RunTyped
<1>4. RestTyped'
  BY <1>1 DEF RestTyped, Busy
<1>5. ASSUME NEW j \in Runs PROVE RunOK(j)'
  <2>1. j \in disturbed' \/ j \notin Busy \/ messages' = messages
    BY <1>1
  <2>2. RunOK(j)
    BY LoopInvParts
  <2>3. QED
    BY <1>1, <2>1, <2>2, OthersGoOn DEF ConversationOK
<1>6. QED
  BY <1>2, <1>3, <1>4, <1>5, LoopInvParts

LEMMA QuietStep ==
  ASSUME LoopInv, Shutdown \/ UNCHANGED vars
  PROVE  LoopInv'
<1> ConversationOK /\ RunTyped /\ RestTyped
  BY LoopInvParts
<1>1. /\ UNCHANGED <<conversationVars, pc, iteration, context, ops, faults,
                     disturbed, mixed>>
      /\ isRunning' \in BOOLEAN
  BY DEF Shutdown, vars, RestTyped
<1>2. ConversationOK' /\ messages' = messages
  BY <1>1, MixedGrows DEF conversationVars
<1>3. RunTyped' /\ RestTyped'
  BY <1>1 DEF RunTyped, RestTyped
<1>4. ASSUME NEW j \in Runs PROVE RunOK(j)'
  <2>1. RunOK(j)
    BY LoopInvParts
  <2>2. QED
    BY <1>1, <1>2, <2>1, OthersGoOn DEF ConversationOK
<1>5. QED
  BY <1>2, <1>3, <1>4, LoopInvParts

LEMMA NextLoop == LoopInv /\ [Next]_vars => LoopInv'
<1> SUFFICES ASSUME LoopInv, [Next]_vars PROVE LoopInv'
  OBVIOUS
<1>1. ASSUME NEW r \in Runs, LoopStep(r) \/ LLMStep(r) \/ End(r)
      PROVE  LoopInv'
  BY <1>1, BeginIterationStep, RecordResultsStep, EndStep, AnswerStep, FailureStep
     DEF LoopStep, LLMStep, End
<1>2. QED
  BY <1>1, CallStep, LateAnswerStep, ApplicationStep, QuietStep DEF Next

LEMMA InitLoop == Init => LoopInv
<1> SUFFICES ASSUME Init PROVE LoopInv
  OBVIOUS
<1>1. messages = <<SystemPrompt>> /\ snapshots = <<>> /\ summarizing = Nothing
  BY DEF Init, ConversationInit
<1>2. /\ <<SystemPrompt>> \in Seq(Messages) /\ Len(<<SystemPrompt>>) = 1
      /\ <<SystemPrompt>>[1] = SystemPrompt
      /\ <<>> \in Seq(Messages) /\ <<>> \in Seq(Seq(Messages)) /\ Len(<<>>) = 0
  BY SystemTyped
<1>3. Prefix(<<SystemPrompt>>)
  BY <1>2, SystemTyped DEF Prefix
<1>4. Sound(<<SystemPrompt>>, mixed)
  <2>1. Sound(<<SystemPrompt>> \o <<>>, mixed)
    BY <1>3, NothingSaid, PutTogether
  <2>2. <<SystemPrompt>> \o <<>> = <<SystemPrompt>>
    BY <1>2, ConcatEmptySeq
  <2>3. QED
    BY <2>1, <2>2
<1>5. ConversationTyped
  BY <1>1, <1>2, WindowAssumption DEF ConversationTyped, Nothing
<1>6. ConversationInv
  <2>1. Nothing.system = <<>> /\ Nothing.toKeep = <<>> /\ 1 .. 0 = {}
    BY DEF Nothing
  <2>2. QED
    BY <1>1, <1>2, <1>4, <2>1, NothingSaid DEF ConversationInv
<1>7. RunTyped
  <2>1. \A r \in Runs : MaxIterations[r] \in Nat /\ 0 <= MaxIterations[r]
    BY LoopAssumption
  <2>2. QED
    BY <2>1, ContextsTyped DEF Init, RunTyped
<1>8. RestTyped
  <2>1. 0 \in 0 .. MaxOps /\ 0 \in 0 .. MaxFaults
    BY BoundAssumption
  <2>2. QED
    BY <2>1 DEF Init, RestTyped
<1>9. \A r \in Runs : RunOK(r)
  BY DEF Init, RunOK
<1>10. QED
  BY <1>5, <1>6, <1>7, <1>8, <1>9, LoopInvParts DEF ConversationOK

LEMMA AlwaysLoop == Spec => []LoopInv
BY InitLoop, NextLoop, PTL DEF Spec

\* However runs, retries and the application interleave, what the loop keeps has
\* its type and its bounds.
THEOREM LoopIsTyped == Spec => []TypeOK
<1>1. LoopInv => TypeOK
  BY DEF LoopInv
<1>2. QED
  BY <1>1, AlwaysLoop, PTL

\* A tool message has the result of the very call whose id it carries, for any
\* number of runs, calls, retries, compactions and rewinds, unless an abandoned
\* LLM call was answered while the tools of its run were at work.
THEOREM ResultsAreTheirCalls == Spec => []ResultsAnswerCalls
<1>1. LoopInv => ResultsAnswerCalls
  <2> SUFFICES ASSUME LoopInv PROVE ResultsAnswerCalls
    OBVIOUS
  <2>1. Answering(messages, mixed) /\ messages \in Seq(Messages)
    BY DEF LoopInv, ConversationInv, Sound
  <2>2. DOMAIN messages = 1 .. Len(messages)
    BY <2>1, LenProperties
  <2>3. QED
    BY <2>1, <2>2 DEF Answering, ResultsAnswerCalls
<1>2. QED
  BY <1>1, AlwaysLoop, PTL

\* Whatever is truncated, summarised, rewound and cleared, a tool result that is
\* not the first thing said stands behind its call or the result before it.
THEOREM CutsAreAtTheHead == Spec => []OnlyTheHeadIsCut
<1>1. LoopInv => OnlyTheHeadIsCut
  <2> SUFFICES ASSUME LoopInv PROVE OnlyTheHeadIsCut
    OBVIOUS
  <2>1. Joined(messages) /\ messages \in Seq(Messages)
    BY DEF LoopInv, ConversationInv, Sound
  <2>2. DOMAIN messages = 1 .. Len(messages)
    BY <2>1, LenProperties
  <2>3. QED
    BY <2>1, <2>2 DEF Joined, Behind, OnlyTheHeadIsCut
<1>2. QED
  BY <1>1, AlwaysLoop, PTL

\* A run that the application did not disturb invokes the LLM with all results
\* of its iteration before, whatever the other runs add meanwhile.
THEOREM ResultsAreSeen == Spec => []UndisturbedSeesResults
<1>1. LoopInv => UndisturbedSeesResults
  <2> SUFFICES ASSUME LoopInv, NEW r \in Runs \ disturbed,
                      pc[r] = "llm", iteration[r] > 1, NEW n \in 1 .. Calls
               PROVE  \E m \in Range(context[r].view) :
                        /\ m.role = "tool" /\ m.n = n
                        /\ m.run = r /\ m.iteration = iteration[r] - 1
    BY DEF UndisturbedSeesResults
  <2>1. Recorded(r, iteration[r] - 1, context[r].view)
    BY DEF LoopInv, RunOK
  <2>2. context[r].view \in Seq(Messages)
    BY DEF LoopInv, TypeOK
  <2>3. DOMAIN context[r].view = 1 .. Len(context[r].view)
    BY <2>2, LenProperties
  <2>4. QED
    BY <2>1, <2>3 DEF Recorded, Range
<1>2. QED
  BY <1>1, AlwaysLoop, PTL
=============================================================================
