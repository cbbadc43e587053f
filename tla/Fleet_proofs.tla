----------------------------- MODULE Fleet_proofs -----------------------------
(***************************************************************************)
(* How work goes on, for any number of tasks, workers, graphs, walks, keys *)
(* and agents: the versioned pool, the agent graph and the memory store.   *)
(* And with them, and with what is proved of agents and of transports, the *)
(* parts as they are run together.                                         *)
(***************************************************************************)
EXTENDS MCFleet, Agents_proofs

-----------------------------------------------------------------------------
(* VersionedPool: the queue.                                                  *)

LEMMA IntervalSize ==
  ASSUME NEW n \in Nat
  PROVE  IsFiniteSet(1 .. n) /\ Cardinality(1 .. n) = n
<1>1. 1 \in Int /\ n \in Int
  OBVIOUS
<1>2. IsFiniteSet(1 .. n) /\ Cardinality(1 .. n) = IF 1 > n THEN 0 ELSE n - 1 + 1
  BY <1>1, FS_Interval
<1>3. QED
  BY <1>2

\* Sorting permutes: as many places as tasks, and no two tasks share one.
LEMMA SortingPermutes ==
  ASSUME NEW s \in Seq(Job)
  PROVE  Sorted(s) \in Seq(Job) /\ ToSet(Sorted(s)) = ToSet(s) /\ (Distinct(s) => Distinct(Sorted(s)))
<1> DEFINE D == DOMAIN s
           Up(k) == {i \in D : Before(s, i, k)}
           P == [k \in D |-> Place(s, k)]
           Q == [n \in D |-> CHOOSE k \in D : Place(s, k) = n]
<1>1. Len(s) \in Nat /\ DOMAIN s = D /\ D = 1 .. Len(s) /\ s \in [D -> Job] /\ IsFiniteSet(D) /\ Cardinality(D) = Len(s)
  <2>1. Len(s) \in Nat /\ D = 1 .. Len(s) /\ s \in [D -> Job]
    BY LenProperties
  <2>2. IsFiniteSet(1 .. Len(s)) /\ Cardinality(1 .. Len(s)) = Len(s)
    BY <2>1, IntervalSize
  <2>3. QED
    BY <2>1, <2>2
<1> HIDE DEF D
<1>2. \A i \in D : Urgency[s[i]] \in Nat
  BY <1>1, PoolAssumption
<1>3. \A i, j, k \in D : /\ Before(s, i, j) /\ Before(s, j, k) => Before(s, i, k)
                         /\ Before(s, i, j) \/ Before(s, j, i)
                         /\ Before(s, i, j) /\ Before(s, j, i) => i = j
                         /\ Before(s, i, i)
  BY <1>1, <1>2 DEF Before
<1>4. \A k \in D : /\ IsFiniteSet(Up(k)) /\ Cardinality(Up(k)) \in 1 .. Len(s) /\ Place(s, k) = Cardinality(Up(k))
                   /\ \A i \in D : Up(i) \subseteq Up(k) /\ Cardinality(Up(i)) = Cardinality(Up(k)) => Up(i) = Up(k)
  <2> TAKE k \in D
  <2>1. Up(k) \in SUBSET D /\ k \in Up(k)
    BY <1>3
  <2>2. IsFiniteSet(Up(k)) /\ Cardinality(Up(k)) <= Cardinality(D)
    BY <1>1, <2>1, FS_Subset
  <2>3. Cardinality(Up(k)) \in Nat /\ Cardinality(Up(k)) # 0
    <3> HIDE DEF Up
    <3> QED
      BY <2>1, <2>2, FS_CardinalityType, FS_EmptySet
  <2>4. Place(s, k) = Cardinality(Up(k))
    BY <1>1 DEF Place
  <2>5. \A i \in D : Up(i) \subseteq Up(k) /\ Cardinality(Up(i)) = Cardinality(Up(k)) => Up(i) = Up(k)
    <3> HIDE DEF Up
    <3> QED
      BY <2>2, FS_Subset
  <2>6. QED
    BY <1>1, <2>2, <2>3, <2>4, <2>5
<1>5. P \in [D -> D]
  BY <1>1, <1>4
<1>6. ASSUME NEW i \in D, NEW k \in D, Before(s, i, k), Place(s, i) = Place(s, k) PROVE i = k
  <2>1. Up(i) \subseteq Up(k)
    BY <1>3, <1>6
  <2>2. Cardinality(Up(i)) = Cardinality(Up(k))
    BY <1>4, <1>6
  <2>3. k \in Up(i)
    <3>1. Up(i) = Up(k)
      <4> HIDE DEF Up
      <4> QED
        BY <1>4, <2>1, <2>2
    <3>2. QED
      BY <1>3, <3>1
  <2>4. QED
    BY <1>3, <1>6, <2>3
<1>7. \A i, k \in D : Place(s, i) = Place(s, k) => i = k
  BY <1>3, <1>6
<1>8. \A n \in D : \E k \in D : Place(s, k) = n
  <2>1. P \in Injection(D, D)
    <3> QED
      BY <1>5, <1>7 DEF Injection, IsInjective
  <2>2. P \in Surjection(D, D)
    <3> HIDE DEF P
    <3> QED
      BY <1>1, <2>1, FS_Injection
  <2>3. QED
    BY <2>2 DEF Surjection
<1>9. \A n \in D : Q[n] \in D /\ Place(s, Q[n]) = n
  BY <1>8
<1>10. \A k \in D : Place(s, k) \in D /\ Q[Place(s, k)] = k
  <2> TAKE k \in D
  <2>1. Place(s, k) \in D
    BY <1>5
  <2>2. Q[Place(s, k)] \in D /\ Place(s, Q[Place(s, k)]) = Place(s, k)
    BY <1>9, <2>1
  <2> HIDE DEF Q
  <2>3. QED
    BY <1>7, <2>1, <2>2
<1>11. Sorted(s) = [n \in D |-> s[Q[n]]]
  BY <1>1 DEF Sorted
<1> HIDE DEF Q
<1>12. Sorted(s) \in [D -> Job] /\ DOMAIN Sorted(s) = D
  BY <1>1, <1>9, <1>11
<1>13. Sorted(s) \in Seq(Job)
  BY <1>1, <1>12
<1>14. ToSet(Sorted(s)) = ToSet(s)
  <2>1. \A n \in D : Sorted(s)[n] \in ToSet(s)
    BY <1>1, <1>9, <1>11 DEF ToSet
  <2>2. \A k \in D : s[k] \in ToSet(Sorted(s))
    <3>1. \A k \in D : s[k] = Sorted(s)[Place(s, k)]
      BY <1>10, <1>11
    <3>2. QED
      BY <1>10, <1>12, <3>1 DEF ToSet
  <2>3. QED
    BY <1>1, <1>12, <2>1, <2>2 DEF ToSet
<1>15. ASSUME Distinct(s) PROVE Distinct(Sorted(s))
  BY <1>1, <1>9, <1>11, <1>12, <1>15 DEF Distinct
<1>16. QED
  BY <1>13, <1>14, <1>15

LEMMA ConcatSet ==
  ASSUME NEW S, NEW s \in Seq(S), NEW t \in Seq(S)
  PROVE  /\ s \o t \in Seq(S) /\ ToSet(s \o t) = ToSet(s) \cup ToSet(t)
         /\ Distinct(s) /\ Distinct(t) /\ ToSet(s) \cap ToSet(t) = {} => Distinct(s \o t)
<1> DEFINE u == s \o t
<1>1. /\ Len(s) \in Nat /\ Len(t) \in Nat /\ DOMAIN s = 1 .. Len(s) /\ DOMAIN t = 1 .. Len(t)
      /\ u \in Seq(S) /\ Len(u) = Len(s) + Len(t) /\ DOMAIN u = 1 .. Len(s) + Len(t)
      /\ \A i \in 1 .. Len(s) + Len(t) : u[i] = IF i <= Len(s) THEN s[i] ELSE t[i - Len(s)]
  BY ConcatProperties, LenProperties
<1> HIDE DEF u
<1>2. \A i \in DOMAIN u : (i \in DOMAIN s /\ u[i] = s[i]) \/ (i - Len(s) \in DOMAIN t /\ u[i] = t[i - Len(s)])
  BY <1>1
<1>3. \A i \in DOMAIN s : i \in DOMAIN u /\ u[i] = s[i]
  BY <1>1
<1>4. \A i \in DOMAIN t : i + Len(s) \in DOMAIN u /\ u[i + Len(s)] = t[i]
  BY <1>1
<1>5. ToSet(u) = ToSet(s) \cup ToSet(t)
  BY <1>2, <1>3, <1>4 DEF ToSet
<1>6. ASSUME Distinct(s), Distinct(t), ToSet(s) \cap ToSet(t) = {} PROVE Distinct(u)
  <2> SUFFICES ASSUME NEW i \in DOMAIN u, NEW j \in DOMAIN u, u[i] = u[j] PROVE i = j
    BY DEF Distinct
  <2>1. i \in Nat /\ j \in Nat
    BY <1>1
  <2>2. \A m \in DOMAIN s, n \in DOMAIN t : s[m] # t[n]
    BY <1>6 DEF ToSet
  <2>3. CASE i \in DOMAIN s /\ j \in DOMAIN s /\ u[i] = s[i] /\ u[j] = s[j]
    BY <1>6, <2>3 DEF Distinct
  <2>4. CASE i - Len(s) \in DOMAIN t /\ j - Len(s) \in DOMAIN t /\ u[i] = t[i - Len(s)] /\ u[j] = t[j - Len(s)]
    <3>1. i - Len(s) = j - Len(s)
      BY <1>6, <2>4 DEF Distinct
    <3>2. QED
      BY <1>1, <2>1, <3>1
  <2>5. QED
    BY <1>2, <2>2, <2>3, <2>4
<1>7. QED
  BY <1>1, <1>5, <1>6 DEF u

-----------------------------------------------------------------------------
(* VersionedPool. A task has one place; a worker that was not resumed at work  *)
(* has one task, none while it is idle or stopped, and one while it is paused  *)
(* only after two pauses.                                                      *)
VersionedSpec == PoolInit /\ [][PoolNext]_poolVars

Status == {"idle", "working", "paused", "stopped", "draining"}
StaffTyped ==
  /\ staff \in Seq(Status) /\ Len(staff) <= MaxStaff
  /\ pauses \in [Member0 -> 0 .. 2] /\ doubled \subseteq Member0
  /\ rolling \in [at : 0 .. MaxStaff, next : 1 .. MaxStaff + 1] /\ orders \in 0 .. MaxOrders
  /\ allPaused \in BOOLEAN
TasksTyped ==
  /\ backlog \in Seq(Job) /\ letters \in Seq(Job) /\ ended \subseteq Job /\ dropped \subseteq Job
  /\ handled \subseteq [task : Job, worker : 0 .. Len(staff)] /\ tries \in [Job -> 0 .. MaxTries]

InHand == {c.task : c \in handled}
OnePlace ==
  /\ Distinct(backlog) /\ Distinct(letters) /\ ToSet(backlog) \cap ToSet(letters) = {}
  /\ \A c, d \in handled : c.task = d.task => c = d
  /\ InHand \cap (ToSet(backlog) \cup ToSet(letters)) = {}
  /\ (ended \cup dropped) \cap (ToSet(backlog) \cup ToSet(letters) \cup InHand) = {}

\* Only a task that is not tried again has used up its tries.
TriedOut == \A j \in Job : tries[j] = MaxTries => j \in ToSet(letters) \cup ended \cup dropped

\* What a worker may be at that was not resumed at work.
InTurn(status, paused, work) ==
  /\ \A c, d \in work : c = d
  /\ status \in {"idle", "stopped"} => work = {}
  /\ status \in {"idle", "working"} => paused # 1
  /\ status = "draining" => paused # 0
  /\ status = "paused" => work = {} \/ paused = 2
InTurns == \A w \in Member0 \ doubled : InTurn(staff[w], pauses[w], AtWork(w))

VersionedInv == StaffTyped /\ TasksTyped /\ OnePlace /\ TriedOut /\ InTurns

LEMMA VersionedStarts == PoolInit => VersionedInv
<1> SUFFICES ASSUME PoolInit PROVE VersionedInv
  OBVIOUS
<1>1. /\ <<>> \in Seq(Status) /\ <<>> \in Seq(Job) /\ Len(<<>>) = 0 /\ DOMAIN <<>> = {} /\ ToSet(<<>>) = {} /\ Distinct(<<>>)
      /\ <<>> \in [{} -> 0 .. 2]
  BY EmptySet
<1>2. StaffTyped
  <2>1. 0 \in 0 .. MaxOrders /\ 0 <= MaxStaff /\ 0 \in 0 .. MaxStaff /\ 1 \in 1 .. MaxStaff + 1
    BY PoolAssumption
  <2>2. QED
    BY <1>1, <2>1 DEF PoolInit, StaffTyped, Member0
<1>3. TasksTyped
  BY <1>1, PoolAssumption DEF PoolInit, TasksTyped
<1>4. OnePlace
  BY <1>1 DEF PoolInit, OnePlace, InHand
<1>5. TriedOut
  BY PoolAssumption DEF PoolInit, TriedOut
<1>6. InTurns
  BY <1>1 DEF PoolInit, InTurns, Member0
<1>7. QED
  BY <1>2, <1>3, <1>4, <1>5, <1>6 DEF VersionedInv

\* A change of the workers alone.
LEMMA StaffChanges ==
  ASSUME VersionedInv, UNCHANGED <<taskVars, allPaused>>,
         staff' \in Seq(Status), DOMAIN staff' = DOMAIN staff,
         pauses' \in [Member0 -> 0 .. 2], doubled' \subseteq Member0,
         rolling' \in [at : 0 .. MaxStaff, next : 1 .. MaxStaff + 1], orders' \in 0 .. MaxOrders,
         \A w \in Member0 \ doubled' : InTurn(staff'[w], pauses'[w], AtWork(w))
  PROVE  VersionedInv'
<1>1. Len(staff') = Len(staff)
  BY LenProperties DEF VersionedInv, StaffTyped
<1>2. StaffTyped' /\ TasksTyped'
  BY <1>1 DEF VersionedInv, StaffTyped, TasksTyped, taskVars, Member0
<1>3. OnePlace' /\ TriedOut'
  BY DEF VersionedInv, OnePlace, InHand, TriedOut, taskVars
<1>4. InTurns'
  BY DEF InTurns, AtWork, taskVars, Member0
<1>5. QED
  BY <1>2, <1>3, <1>4 DEF VersionedInv

\* A sequence, changed in place.
LEMMA ChangedInPlace ==
  ASSUME NEW S, NEW s \in Seq(S), NEW t, t \in [DOMAIN s -> S]
  PROVE  t \in Seq(S) /\ DOMAIN t = DOMAIN s /\ Len(t) = Len(s)
<1>1. DOMAIN s = 1 .. Len(s) /\ Len(s) \in Nat
  BY LenProperties
<1>2. t \in Seq(S) /\ DOMAIN t = 1 .. Len(s)
  BY <1>1
<1>3. QED
  BY <1>1, <1>2, LenProperties

LEMMA WorkersJoin ==
  ASSUME VersionedInv, AddWorkers
  PROVE  VersionedInv'
<1>1. /\ staff \in Seq(Status) /\ DOMAIN staff = 1 .. Len(staff) /\ Len(staff) \in Nat /\ pauses \in [1 .. Len(staff) -> 0 .. 2]
      /\ doubled \subseteq 1 .. Len(staff) /\ Len(staff) < MaxStaff /\ MaxStaff \in Nat
  BY LenProperties, PoolAssumption DEF VersionedInv, StaffTyped, Member0, AddWorkers
<1>2. pauses \in Seq(0 .. 2) /\ Len(pauses) = Len(staff)
  <2>1. pauses \in Seq(0 .. 2) /\ DOMAIN pauses = 1 .. Len(staff)
    BY <1>1
  <2>2. QED
    BY <1>1, <2>1, LenProperties
<1>3. /\ staff' \in Seq(Status) /\ Len(staff') = Len(staff) + 1 /\ DOMAIN staff' = 1 .. Len(staff) + 1
      /\ staff'[Len(staff) + 1] = "idle" /\ \A w \in 1 .. Len(staff) : staff'[w] = staff[w]
  <2>1. "idle" \in Status /\ staff' = Append(staff, "idle")
    BY DEF Status, AddWorkers
  <2>2. QED
    BY <1>1, <2>1, AppendProperties, LenProperties
<1>4. /\ pauses' \in Seq(0 .. 2) /\ Len(pauses') = Len(staff) + 1 /\ pauses' \in [1 .. Len(staff) + 1 -> 0 .. 2]
      /\ pauses'[Len(staff) + 1] = 0 /\ \A w \in 1 .. Len(staff) : pauses'[w] = pauses[w]
  <2>1. 0 \in 0 .. 2 /\ pauses' = Append(pauses, 0)
    BY DEF AddWorkers
  <2>2. /\ pauses' \in Seq(0 .. 2) /\ Len(pauses') = Len(pauses) + 1 /\ pauses'[Len(pauses) + 1] = 0
        /\ \A w \in 1 .. Len(pauses) : pauses'[w] = pauses[w]
    BY <1>2, <2>1, AppendProperties
  <2>3. pauses' \in [1 .. Len(pauses') -> 0 .. 2]
    BY <2>2, LenProperties
  <2>4. QED
    BY <1>2, <2>2, <2>3
<1>5. UNCHANGED <<taskVars, allPaused, rolling, orders, doubled>>
  BY DEF AddWorkers
<1>6. StaffTyped'
  BY <1>1, <1>3, <1>4, <1>5 DEF VersionedInv, StaffTyped, Member0
<1>7. TasksTyped'
  BY <1>1, <1>3, <1>5 DEF VersionedInv, TasksTyped, taskVars
<1>8. OnePlace' /\ TriedOut'
  BY <1>5 DEF VersionedInv, OnePlace, InHand, TriedOut, taskVars
<1>9. InTurns'
  <2> SUFFICES ASSUME NEW w \in (1 .. Len(staff) + 1) \ doubled PROVE InTurn(staff'[w], pauses'[w], AtWork(w)')
    BY <1>3, <1>5 DEF InTurns, Member0
  <2>1. AtWork(w)' = AtWork(w)
    BY <1>5 DEF AtWork, taskVars
  <2>2. CASE w \in 1 .. Len(staff)
    BY <1>1, <1>3, <1>4, <2>1, <2>2 DEF VersionedInv, InTurns, Member0
  <2>3. CASE w = Len(staff) + 1
    <3>1. \A c \in handled : c.worker # w
      BY <1>1, <2>3 DEF VersionedInv, TasksTyped
    <3>2. AtWork(w) = {}
      BY <3>1 DEF AtWork
    <3>3. QED
      BY <1>3, <1>4, <2>1, <2>3, <3>2 DEF InTurn
  <2>4. QED
    BY <1>1, <2>2, <2>3
<1>10. QED
  BY <1>6, <1>7, <1>8, <1>9 DEF VersionedInv

\* The least idle worker.
LEMMA IdleWorkerIsIdle ==
  ASSUME StaffTyped, GetIdleWorker # 0
  PROVE  GetIdleWorker \in Member0 /\ staff[GetIdleWorker] = "idle"
<1> DEFINE I == {i \in 1 .. Len(staff) : staff[i] = "idle"}
<1>1. DOMAIN staff = 1 .. Len(staff) /\ Len(staff) \in Nat
  BY LenProperties DEF StaffTyped
<1>2. GetIdleWorker = IF I # {} THEN Min(I) ELSE 0
  BY DEF GetIdleWorker, SelectInSeq
<1>3. I # {} /\ I \in SUBSET Nat
  BY <1>1, <1>2
<1>4. PICK m \in I : \A n \in I : m <= n
  <2> HIDE DEF I
  <2> QED
    BY <1>3, LeastIn
<1>5. Min(I) \in I
  BY <1>4 DEF Min
<1>6. QED
  BY <1>1, <1>2, <1>3, <1>5 DEF Member0

LEMMA TurnsAreGiven ==
  ASSUME VersionedInv, ProcessNext
  PROVE  VersionedInv'
<1> DEFINE g == GetIdleWorker
           h == Head(backlog)
           new == [task |-> h, worker |-> g]
<1>1. g \in Member0 /\ staff[g] = "idle" /\ DOMAIN staff = 1 .. Len(staff) /\ Len(staff) \in Nat /\ Len(staff) <= MaxStaff
  BY IdleWorkerIsIdle, LenProperties DEF ProcessNext, VersionedInv, StaffTyped
<1>2. /\ backlog' \in Seq(Job) /\ h \in Job /\ ToSet(backlog) = ToSet(backlog') \cup {h}
      /\ Distinct(backlog') /\ h \notin ToSet(backlog')
  BY TailSet DEF ProcessNext, VersionedInv, TasksTyped, OnePlace
<1>3. /\ handled' = handled \cup {new} /\ staff' = [staff EXCEPT ![g] = "working"]
      /\ UNCHANGED <<letters, tries, ended, allPaused, rolling, orders, dropped, doubled, pauses>>
  BY DEF ProcessNext
<1> HIDE DEF g, h
<1>4. staff' \in [DOMAIN staff -> Status]
  <2>1. staff \in [1 .. Len(staff) -> Status]
    BY LenProperties DEF VersionedInv, StaffTyped
  <2>2. "working" \in Status
    BY DEF Status
  <2>3. QED
    BY <1>1, <1>3, <2>1, <2>2
<1>5. staff' \in Seq(Status) /\ DOMAIN staff' = DOMAIN staff /\ Len(staff') = Len(staff)
  BY <1>4, ChangedInPlace DEF VersionedInv, StaffTyped
<1>6. StaffTyped'
  BY <1>1, <1>3, <1>5 DEF VersionedInv, StaffTyped, Member0
<1>7. TasksTyped'
  <2>1. new \in [task : Job, worker : 0 .. Len(staff)]
    BY <1>1, <1>2 DEF Member0
  <2>2. QED
    BY <1>2, <1>3, <1>5, <2>1 DEF VersionedInv, TasksTyped
<1>8. OnePlace'
  <2>1. InHand' = InHand \cup {h} /\ h \notin InHand /\ h \notin ended \cup dropped \cup ToSet(letters)
    <3>1. InHand' = InHand \cup {h}
      <4>1. new.task = h
        OBVIOUS
      <4> HIDE DEF new
      <4>2. QED
        BY <1>3, <4>1 DEF InHand
    <3>2. h \in ToSet(backlog)
      BY <1>2
    <3>3. QED
      BY <3>1, <3>2 DEF VersionedInv, OnePlace
  <2>2. \A c, d \in handled' : c.task = d.task => c = d
    BY <1>3, <2>1 DEF VersionedInv, OnePlace, InHand
  <2>3. QED
    BY <1>2, <1>3, <2>1, <2>2 DEF VersionedInv, OnePlace
<1>9. TriedOut'
  BY <1>3 DEF VersionedInv, TriedOut
<1>10. InTurns'
  <2> SUFFICES ASSUME NEW w \in Member0 \ doubled PROVE InTurn(staff'[w], pauses[w], AtWork(w)')
    BY <1>3, <1>5 DEF InTurns, Member0
  <2>1. InTurn(staff[w], pauses[w], AtWork(w))
    BY DEF VersionedInv, InTurns
  <2>2. CASE w = g
    <3>1. AtWork(w) = {} /\ pauses[w] # 1
      BY <1>1, <2>1, <2>2 DEF InTurn
    <3>2. AtWork(w)' = {new}
      BY <1>3, <2>2, <3>1 DEF AtWork
    <3>3. staff'[w] = "working"
      BY <1>1, <1>3, <2>2 DEF Member0
    <3>4. QED
      BY <3>1, <3>2, <3>3 DEF InTurn
  <2>3. CASE w # g
    <3>1. AtWork(w)' = AtWork(w) /\ staff'[w] = staff[w]
      BY <1>3, <2>3 DEF AtWork, Member0
    <3>2. QED
      BY <2>1, <3>1
  <2>4. QED
    BY <2>2, <2>3
<1>11. QED
  BY <1>6, <1>7, <1>8, <1>9, <1>10 DEF VersionedInv

LEMMA FreeingKeepsTurns ==
  ASSUME VersionedInv, NEW c \in handled, Frees(c), UNCHANGED <<allPaused, rolling, orders, doubled, pauses>>
  PROVE  StaffTyped' /\ InTurns' /\ Len(staff') = Len(staff)
<1>1. /\ handled' = handled \ {c}
      /\ staff' = [w \in Member0 |-> IF w = c.worker THEN Freed(staff[w]) ELSE staff[w]]
  BY DEF Frees
<1>2. \A s \in Status : Freed(s) \in Status
  BY DEF Freed, Status
<1>3. staff \in [Member0 -> Status]
  BY LenProperties DEF VersionedInv, StaffTyped, Member0
<1>4. staff' \in [DOMAIN staff -> Status]
  BY <1>1, <1>2, <1>3 DEF Member0
<1>5. staff' \in Seq(Status) /\ DOMAIN staff' = DOMAIN staff /\ Len(staff') = Len(staff)
  BY <1>4, ChangedInPlace DEF VersionedInv, StaffTyped
<1>6. StaffTyped'
  BY <1>5 DEF VersionedInv, StaffTyped, Member0
<1>7. InTurns'
  <2> SUFFICES ASSUME NEW w \in Member0 \ doubled PROVE InTurn(staff'[w], pauses[w], AtWork(w)')
    BY <1>5 DEF InTurns, Member0
  <2>1. InTurn(staff[w], pauses[w], AtWork(w)) /\ staff[w] \in Status
    BY <1>3 DEF VersionedInv, InTurns
  <2>2. CASE c.worker = w
    <3>1. c \in AtWork(w) /\ AtWork(w)' = {}
      BY <1>1, <2>1, <2>2 DEF AtWork, InTurn
    <3>2. staff'[w] = Freed(staff[w])
      BY <1>1, <2>2
    <3>3. staff[w] = "draining" \/ (staff[w] \in {"working", "paused"} /\ pauses[w] # 1)
      BY <2>1, <3>1 DEF InTurn, Status
    <3>4. QED
      BY <3>1, <3>2, <3>3 DEF InTurn, Freed
  <2>3. CASE c.worker # w
    <3>1. AtWork(w)' = AtWork(w) /\ staff'[w] = staff[w]
      BY <1>1, <2>3 DEF AtWork
    <3>2. QED
      BY <2>1, <3>1
  <2>4. QED
    BY <2>2, <2>3
<1>8. QED
  BY <1>5, <1>6, <1>7

LEMMA CompletingKeeps ==
  ASSUME VersionedInv, NEW c \in handled, TaskCompletes(c)
  PROVE  VersionedInv'
<1>1. /\ Frees(c) /\ handled' = handled \ {c} /\ ended' = ended \cup {c.task}
      /\ UNCHANGED <<backlog, letters, tries, allPaused, rolling, orders, dropped, doubled, pauses>>
  BY DEF TaskCompletes, Frees
<1>2. StaffTyped' /\ InTurns' /\ Len(staff') = Len(staff)
  BY <1>1, FreeingKeepsTurns
<1>3. c.task \in InHand \cap Job /\ InHand' \subseteq InHand \ {c.task}
  BY <1>1 DEF VersionedInv, TasksTyped, OnePlace, InHand
<1>4. TasksTyped'
  BY <1>1, <1>2, <1>3 DEF VersionedInv, TasksTyped
<1>5. OnePlace'
  BY <1>1, <1>3 DEF VersionedInv, OnePlace
<1>6. TriedOut'
  BY <1>1 DEF VersionedInv, TriedOut
<1>7. QED
  BY <1>2, <1>4, <1>5, <1>6 DEF VersionedInv

LEMMA FailingKeeps ==
  ASSUME VersionedInv, NEW c \in handled, TaskFails(c)
  PROVE  VersionedInv'
<1> DEFINE j == c.task
<1>1. /\ Frees(c) /\ handled' = handled \ {c} /\ tries' = [tries EXCEPT ![j] = @ + 1]
      /\ UNCHANGED <<allPaused, rolling, orders, dropped, doubled, pauses>>
      /\ \/ Retries(tries'[j]) /\ backlog' = Sorted(Append(backlog, j)) /\ UNCHANGED <<letters, ended>>
         \/ ~Retries(tries'[j]) /\ letters' = Append(letters, j) /\ UNCHANGED <<backlog, ended>>
         \/ ~Retries(tries'[j]) /\ ended' = ended \cup {j} /\ UNCHANGED <<backlog, letters>>
  BY DEF TaskFails, Frees
<1>2. StaffTyped' /\ InTurns' /\ Len(staff') = Len(staff)
  BY <1>1, FreeingKeepsTurns
<1>3. j \in InHand \cap Job /\ InHand' \subseteq InHand \ {j}
  BY <1>1 DEF VersionedInv, TasksTyped, OnePlace, InHand
<1> HIDE DEF j
<1>4. j \notin ToSet(backlog) \cup ToSet(letters) \cup ended \cup dropped
  BY <1>3 DEF VersionedInv, OnePlace
<1>5. tries \in [Job -> 0 .. MaxTries] /\ tries[j] + 1 \in 0 .. MaxTries
  <2>1. tries[j] \in 0 .. MaxTries /\ tries[j] # MaxTries /\ MaxTries \in Nat
    BY <1>3, <1>4, PoolAssumption DEF VersionedInv, TasksTyped, TriedOut
  <2>2. QED
    BY <2>1 DEF VersionedInv, TasksTyped
<1>6. tries' \in [Job -> 0 .. MaxTries] /\ tries'[j] = tries[j] + 1 /\ \A k \in Job : k # j => tries'[k] = tries[k]
  BY <1>1, <1>3, <1>5
<1>7. Retries(tries'[j]) => tries'[j] # MaxTries
  BY <1>5, <1>6, PoolAssumption DEF Retries
<1>8. backlog \in Seq(Job) /\ letters \in Seq(Job) /\ Distinct(backlog) /\ Distinct(letters)
  BY DEF VersionedInv, TasksTyped, OnePlace
<1>9. CASE Retries(tries'[j]) /\ backlog' = Sorted(Append(backlog, j)) /\ UNCHANGED <<letters, ended>>
  <2>1. /\ Append(backlog, j) \in Seq(Job) /\ ToSet(Append(backlog, j)) = ToSet(backlog) \cup {j}
        /\ Distinct(Append(backlog, j))
    BY <1>3, <1>4, <1>8, AppendSet
  <2>2. backlog' \in Seq(Job) /\ ToSet(backlog') = ToSet(backlog) \cup {j} /\ Distinct(backlog')
    BY <1>9, <2>1, SortingPermutes
  <2>3. TasksTyped'
    BY <1>1, <1>2, <1>6, <1>9, <2>2 DEF VersionedInv, TasksTyped
  <2>4. OnePlace'
    BY <1>1, <1>3, <1>4, <1>9, <2>2 DEF VersionedInv, OnePlace
  <2>5. TriedOut'
    BY <1>1, <1>6, <1>7, <1>9 DEF VersionedInv, TriedOut
  <2>6. QED
    BY <1>2, <2>3, <2>4, <2>5 DEF VersionedInv
<1>10. CASE letters' = Append(letters, j) /\ UNCHANGED <<backlog, ended>>
  <2>1. letters' \in Seq(Job) /\ ToSet(letters') = ToSet(letters) \cup {j} /\ Distinct(letters')
    BY <1>3, <1>4, <1>8, <1>10, AppendSet
  <2>2. TasksTyped'
    BY <1>1, <1>2, <1>6, <1>10, <2>1 DEF VersionedInv, TasksTyped
  <2>3. OnePlace'
    BY <1>1, <1>3, <1>4, <1>10, <2>1 DEF VersionedInv, OnePlace
  <2>4. TriedOut'
    BY <1>1, <1>6, <1>10, <2>1 DEF VersionedInv, TriedOut
  <2>5. QED
    BY <1>2, <2>2, <2>3, <2>4 DEF VersionedInv
<1>11. CASE ended' = ended \cup {j} /\ UNCHANGED <<backlog, letters>>
  <2>1. TasksTyped'
    BY <1>1, <1>2, <1>3, <1>6, <1>11 DEF VersionedInv, TasksTyped
  <2>2. OnePlace'
    BY <1>1, <1>3, <1>4, <1>11 DEF VersionedInv, OnePlace
  <2>3. TriedOut'
    BY <1>1, <1>6, <1>11 DEF VersionedInv, TriedOut
  <2>4. QED
    BY <1>2, <2>1, <2>2, <2>3 DEF VersionedInv
<1>12. QED
  BY <1>1, <1>9, <1>10, <1>11

LEMMA SubmittingKeeps ==
  ASSUME VersionedInv, NEW j \in Job, PoolSubmit(j)
  PROVE  VersionedInv'
<1>1. /\ backlog' = Sorted(Append(backlog, j))
      /\ UNCHANGED <<staff, letters, tries, handled, ended, allPaused, rolling, orders, dropped, doubled, pauses>>
      /\ j \notin ToSet(backlog) \cup ToSet(letters) \cup ended \cup dropped \cup InHand
  BY DEF PoolSubmit, Seen, InHand
<1>2. backlog \in Seq(Job) /\ Distinct(backlog)
  BY DEF VersionedInv, TasksTyped, OnePlace
<1>3. /\ Append(backlog, j) \in Seq(Job) /\ ToSet(Append(backlog, j)) = ToSet(backlog) \cup {j}
      /\ Distinct(Append(backlog, j))
  BY <1>1, <1>2, AppendSet
<1>4. backlog' \in Seq(Job) /\ ToSet(backlog') = ToSet(backlog) \cup {j} /\ Distinct(backlog')
  BY <1>1, <1>3, SortingPermutes
<1>5. StaffTyped' /\ TasksTyped'
  BY <1>1, <1>4 DEF VersionedInv, StaffTyped, TasksTyped, Member0
<1>6. OnePlace'
  BY <1>1, <1>4 DEF VersionedInv, OnePlace, InHand
<1>7. TriedOut' /\ InTurns'
  BY <1>1 DEF VersionedInv, TriedOut, InTurns, AtWork, Member0
<1>8. QED
  BY <1>5, <1>6, <1>7 DEF VersionedInv

LEMMA ReplayingKeeps ==
  ASSUME VersionedInv, ReplayDLQ
  PROVE  VersionedInv'
<1>1. /\ backlog' = Sorted(backlog \o letters) /\ letters' = <<>> /\ orders' = orders + 1 /\ orders < MaxOrders
      /\ tries' = [j \in Job |-> IF j \in ToSet(letters) THEN 0 ELSE tries[j]]
      /\ UNCHANGED <<staff, handled, ended, allPaused, rolling, dropped, doubled, pauses>>
  BY DEF ReplayDLQ
<1>2. backlog \in Seq(Job) /\ letters \in Seq(Job) /\ Distinct(backlog) /\ Distinct(letters) /\ ToSet(backlog) \cap ToSet(letters) = {}
  BY DEF VersionedInv, TasksTyped, OnePlace
<1>3. /\ backlog \o letters \in Seq(Job) /\ ToSet(backlog \o letters) = ToSet(backlog) \cup ToSet(letters)
      /\ Distinct(backlog \o letters)
  BY <1>2, ConcatSet
<1>4. backlog' \in Seq(Job) /\ ToSet(backlog') = ToSet(backlog) \cup ToSet(letters) /\ Distinct(backlog')
  BY <1>1, <1>3, SortingPermutes
<1>5. letters' \in Seq(Job) /\ ToSet(letters') = {} /\ Distinct(letters')
  BY <1>1, EmptySet
<1>6. orders' \in 0 .. MaxOrders /\ tries' \in [Job -> 0 .. MaxTries]
  <2>1. orders \in 0 .. MaxOrders /\ tries \in [Job -> 0 .. MaxTries]
    BY DEF VersionedInv, StaffTyped, TasksTyped
  <2>2. QED
    BY <1>1, <2>1, PoolAssumption
<1>7. StaffTyped' /\ TasksTyped'
  BY <1>1, <1>4, <1>5, <1>6 DEF VersionedInv, StaffTyped, TasksTyped, Member0
<1>8. OnePlace'
  BY <1>1, <1>4, <1>5 DEF VersionedInv, OnePlace, InHand
<1>9. TriedOut'
  BY <1>1, <1>5, PoolAssumption DEF VersionedInv, TriedOut
<1>10. InTurns'
  BY <1>1 DEF VersionedInv, InTurns, AtWork, Member0
<1>11. QED
  BY <1>7, <1>8, <1>9, <1>10 DEF VersionedInv

LEMMA ResettingKeeps ==
  ASSUME VersionedInv, PoolReset
  PROVE  VersionedInv'
<1>1. /\ staff' = <<>> /\ pauses' = <<>> /\ backlog' = <<>> /\ letters' = <<>> /\ allPaused' = FALSE /\ doubled' = {}
      /\ dropped' = dropped \cup ToSet(backlog) \cup ToSet(letters) /\ orders' = orders + 1 /\ orders < MaxOrders
      /\ handled' = {[c EXCEPT !.worker = 0] : c \in handled} /\ rolling' = [rolling EXCEPT !.next = 1]
      /\ UNCHANGED <<tries, ended>>
  BY DEF PoolReset
<1>2. /\ <<>> \in Seq(Status) /\ <<>> \in Seq(Job) /\ Len(<<>>) = 0 /\ DOMAIN <<>> = {} /\ ToSet(<<>>) = {} /\ Distinct(<<>>)
      /\ <<>> \in [{} -> 0 .. 2]
  BY EmptySet
<1>3. StaffTyped'
  <2>1. orders' \in 0 .. MaxOrders /\ 1 \in 1 .. MaxStaff + 1 /\ 0 <= MaxStaff
    BY <1>1, PoolAssumption DEF VersionedInv, StaffTyped
  <2>2. rolling' \in [at : 0 .. MaxStaff, next : 1 .. MaxStaff + 1]
    BY <1>1, <2>1 DEF VersionedInv, StaffTyped
  <2>3. QED
    BY <1>1, <1>2, <2>1, <2>2 DEF StaffTyped, Member0
<1>4. TasksTyped'
  <2>1. handled \subseteq [task : Job, worker : 0 .. Len(staff)] /\ ToSet(backlog) \subseteq Job /\ ToSet(letters) \subseteq Job
    BY LenProperties DEF VersionedInv, TasksTyped, ToSet
  <2>2. \A c \in handled : [c EXCEPT !.worker = 0] \in [task : Job, worker : 0 .. 0]
    BY <2>1
  <2>3. handled' \subseteq [task : Job, worker : 0 .. 0]
    BY <1>1, <2>2
  <2>4. QED
    BY <1>1, <1>2, <2>1, <2>3 DEF VersionedInv, TasksTyped
<1>5. \A c \in handled : [c EXCEPT !.worker = 0].task = c.task
  BY DEF VersionedInv, TasksTyped
<1>6. OnePlace'
  <2>1. InHand' = InHand
    BY <1>1, <1>5 DEF InHand
  <2>2. \A c, d \in handled' : c.task = d.task => c = d
    <3> DEFINE Moved(c) == [c EXCEPT !.worker = 0]
    <3>1. handled' = {Moved(c) : c \in handled} /\ \A c \in handled : Moved(c).task = c.task
      BY <1>1, <1>5
    <3> HIDE DEF Moved
    <3>2. QED
      BY <3>1 DEF VersionedInv, OnePlace
  <2>3. QED
    BY <1>1, <1>2, <2>1, <2>2 DEF VersionedInv, OnePlace
<1>7. TriedOut'
  BY <1>1, <1>2 DEF VersionedInv, TriedOut
<1>8. InTurns'
  BY <1>1, <1>2 DEF InTurns, Member0
<1>9. QED
  BY <1>3, <1>4, <1>6, <1>7, <1>8 DEF VersionedInv

\* The ways the status of a worker changes.
LEMMA PausingKeepsTurn ==
  ASSUME NEW status \in Status, NEW count \in 0 .. 2, NEW work, InTurn(status, count, work)
  PROVE  /\ InTurn(PausedStatus(status), IF count < 2 THEN count + 1 ELSE count, work)
         /\ InTurn("paused", IF status = "working" THEN 2 ELSE IF count < 2 THEN count + 1 ELSE count, work)
         /\ (IF count < 2 THEN count + 1 ELSE count) \in 0 .. 2 /\ PausedStatus(status) \in Status
<1>1. count = 0 \/ count = 1 \/ count = 2
  OBVIOUS
<1>2. QED
  BY <1>1 DEF InTurn, PausedStatus, Status

\* A rolling update goes to its next worker, if there is one.
LEMMA RenewingKeeps ==
  ASSUME VersionedInv, UNCHANGED <<taskVars, allPaused>>, orders' \in 0 .. MaxOrders, doubled' \subseteq Member0,
         NEW from, from \in [DOMAIN staff -> Status], NEW counts \in [Member0 -> 0 .. 2], NEW w \in 1 .. MaxStaff + 1,
         \A v \in Member0 \ doubled' : InTurn(from[v], counts[v], AtWork(v)),
         Renewed(from, counts, w)
  PROVE  VersionedInv'
<1>1. DOMAIN staff = 1 .. Len(staff) /\ Len(staff) \in Nat /\ Len(staff) <= MaxStaff /\ MaxStaff \in Nat /\ DOMAIN from = Member0
  BY LenProperties, PoolAssumption DEF VersionedInv, StaffTyped, Member0
<1>2. CASE w \in Member0
  <2> DEFINE n == IF from[w] = "working" THEN 2 ELSE IF counts[w] < 2 THEN counts[w] + 1 ELSE counts[w]
  <2>1. staff' = [from EXCEPT ![w] = "paused"] /\ pauses' = [counts EXCEPT ![w] = n] /\ rolling' = [at |-> w, next |-> w + 1]
    BY <1>1, <1>2 DEF Renewed
  <2>2. n \in 0 .. 2
    BY <1>2
  <2> HIDE DEF n
  <2>3. staff' \in [DOMAIN staff -> Status] /\ pauses' \in [Member0 -> 0 .. 2]
    BY <2>1, <2>2 DEF Status, Member0
  <2>4. staff' \in Seq(Status) /\ DOMAIN staff' = DOMAIN staff
    BY <2>3, ChangedInPlace DEF VersionedInv, StaffTyped
  <2>5. rolling' \in [at : 0 .. MaxStaff, next : 1 .. MaxStaff + 1]
    <3>1. w \in 0 .. MaxStaff /\ w + 1 \in 1 .. MaxStaff + 1
      BY <1>1, <1>2 DEF Member0
    <3>2. QED
      BY <2>1, <3>1
  <2>6. ASSUME NEW v \in Member0 \ doubled' PROVE InTurn(staff'[v], pauses'[v], AtWork(v))
    <3>1. InTurn(from[v], counts[v], AtWork(v)) /\ from[v] \in Status /\ counts[v] \in 0 .. 2
      BY DEF Member0
    <3>2. CASE v = w
      <4>1. InTurn("paused", n, AtWork(w))
        BY <3>1, <3>2, PausingKeepsTurn DEF n
      <4>2. staff'[v] = "paused" /\ pauses'[v] = n
        BY <2>1, <3>2 DEF Member0
      <4>3. QED
        BY <3>2, <4>1, <4>2
    <3>3. CASE v # w
      BY <2>1, <3>1, <3>3 DEF Member0
    <3>4. QED
      BY <3>2, <3>3
  <2>7. QED
    BY <2>3, <2>4, <2>5, <2>6, StaffChanges
<1>3. CASE w \notin Member0
  <2>1. staff' = from /\ pauses' = counts /\ rolling' = [at |-> 0, next |-> 1]
    BY <1>1, <1>3 DEF Renewed
  <2>2. staff' \in Seq(Status) /\ DOMAIN staff' = DOMAIN staff
    BY <2>1, ChangedInPlace DEF VersionedInv, StaffTyped
  <2>3. rolling' \in [at : 0 .. MaxStaff, next : 1 .. MaxStaff + 1]
    <3>1. 0 \in 0 .. MaxStaff /\ 1 \in 1 .. MaxStaff + 1
      BY <1>1
    <3>2. QED
      BY <2>1, <3>1
  <2>4. QED
    BY <2>1, <2>2, <2>3, StaffChanges
<1>4. QED
  BY <1>2, <1>3

\* Resuming: whoever is at work counts as doubled from then on.
LEMMA ResumingIsNoted ==
  ASSUME VersionedInv, NEW w
  PROVE  /\ Resumed(w) \in [DOMAIN staff -> Status] /\ Unpaused(w) \in [Member0 -> 0 .. 2] /\ NowDoubled(w) \subseteq Member0
         /\ \A v \in Member0 \ NowDoubled(w) : InTurn(Resumed(w)[v], Unpaused(w)[v], AtWork(v))
<1>1. staff \in [Member0 -> Status] /\ pauses \in [Member0 -> 0 .. 2] /\ doubled \subseteq Member0 /\ "idle" \in Status /\ 0 \in 0 .. 2
  BY LenProperties DEF VersionedInv, StaffTyped, Member0, Status
<1>2. Resumed(w) \in [DOMAIN staff -> Status] /\ Unpaused(w) \in [Member0 -> 0 .. 2] /\ NowDoubled(w) \subseteq Member0
  BY <1>1 DEF Resumed, Unpaused, NowDoubled, Member0
<1>3. ASSUME NEW v \in Member0 \ NowDoubled(w) PROVE InTurn(Resumed(w)[v], Unpaused(w)[v], AtWork(v))
  <2>1. CASE v = w
    <3>1. AtWork(v) = {}
      BY <2>1 DEF NowDoubled
    <3>2. QED
      BY <2>1, <3>1 DEF Resumed, Unpaused, InTurn
  <2>2. CASE v # w
    <3>1. v \in Member0 \ doubled
      BY <2>2 DEF NowDoubled
    <3>2. QED
      BY <2>2, <3>1 DEF Resumed, Unpaused, VersionedInv, InTurns
  <2>3. QED
    BY <2>1, <2>2
<1>4. QED
  BY <1>2, <1>3

LEMMA VersionedKeeps == VersionedInv /\ [PoolNext]_poolVars => VersionedInv'
<1> SUFFICES ASSUME VersionedInv, [PoolNext]_poolVars PROVE VersionedInv'
  OBVIOUS
<1>1. /\ staff \in Seq(Status) /\ staff \in [DOMAIN staff -> Status] /\ DOMAIN staff = 1 .. Len(staff) /\ Len(staff) \in Nat
      /\ Len(staff) <= MaxStaff /\ pauses \in [Member0 -> 0 .. 2] /\ doubled \subseteq Member0
      /\ rolling \in [at : 0 .. MaxStaff, next : 1 .. MaxStaff + 1] /\ orders \in 0 .. MaxOrders /\ allPaused \in BOOLEAN
      /\ \A v \in Member0 \ doubled : InTurn(staff[v], pauses[v], AtWork(v))
  BY LenProperties DEF VersionedInv, StaffTyped, InTurns
<1>2. orders < MaxOrders => orders + 1 \in 0 .. MaxOrders
  BY <1>1, PoolAssumption
<1>3. CASE AddWorkers
  BY <1>3, WorkersJoin
<1>4. CASE ProcessNext
  BY <1>4, TurnsAreGiven
<1>5. CASE PoolPauses
  BY <1>1, <1>5 DEF PoolPauses, VersionedInv, StaffTyped, TasksTyped, OnePlace, InHand, TriedOut, InTurns, AtWork, Member0, taskVars
<1>6. CASE RollingUpdate
  <2>1. UNCHANGED <<taskVars, allPaused, doubled>> /\ orders' \in 0 .. MaxOrders /\ Renewed(staff, pauses, 1)
    BY <1>2, <1>6 DEF RollingUpdate
  <2>2. 1 \in 1 .. MaxStaff + 1
    BY PoolAssumption
  <2>3. QED
    BY <1>1, <2>1, <2>2, RenewingKeeps
<1>7. CASE OnUpdateDone
  <2> DEFINE w == rolling.at
  <2>1. /\ UNCHANGED <<taskVars, allPaused, orders>> /\ doubled' = NowDoubled(w)
        /\ Renewed(Resumed(w), Unpaused(w), rolling.next)
    BY <1>7 DEF OnUpdateDone
  <2>2. rolling.next \in 1 .. MaxStaff + 1
    BY <1>1
  <2> HIDE DEF w
  <2>3. /\ Resumed(w) \in [DOMAIN staff -> Status] /\ Unpaused(w) \in [Member0 -> 0 .. 2] /\ doubled' \subseteq Member0
        /\ \A v \in Member0 \ doubled' : InTurn(Resumed(w)[v], Unpaused(w)[v], AtWork(v))
    BY <2>1, ResumingIsNoted
  <2>4. orders' \in 0 .. MaxOrders
    BY <1>1, <2>1
  <2>5. QED
    BY <2>1, <2>2, <2>3, <2>4, RenewingKeeps
<1>8. CASE OnUpdateFails
  <2>1. UNCHANGED <<staff, taskVars, allPaused, orders, doubled, pauses>> /\ rolling' = [at |-> 0, next |-> 1]
    BY <1>8 DEF OnUpdateFails
  <2>2. rolling' \in [at : 0 .. MaxStaff, next : 1 .. MaxStaff + 1]
    BY <2>1, PoolAssumption
  <2>3. QED
    BY <1>1, <2>1, <2>2, StaffChanges
<1>9. CASE ReplayDLQ
  BY <1>9, ReplayingKeeps
<1>10. CASE PoolReset
  BY <1>10, ResettingKeeps
<1>11. ASSUME NEW j \in Job, PoolSubmit(j) PROVE VersionedInv'
  BY <1>11, SubmittingKeeps
<1>12. ASSUME NEW c \in handled, TaskCompletes(c) \/ TaskFails(c) PROVE VersionedInv'
  BY <1>12, CompletingKeeps, FailingKeeps
<1>13. ASSUME NEW w \in Member0, PauseOne(w) PROVE VersionedInv'
  <2> DEFINE n == IF pauses[w] < 2 THEN pauses[w] + 1 ELSE pauses[w]
  <2>1. /\ staff' = [staff EXCEPT ![w] = PausedStatus(staff[w])] /\ pauses' = [pauses EXCEPT ![w] = n]
        /\ UNCHANGED <<taskVars, allPaused, rolling, orders, doubled>>
    BY <1>13 DEF PauseOne, PauseWorker
  <2>2. n \in 0 .. 2 /\ PausedStatus(staff[w]) \in Status
    BY <1>1 DEF Member0, PausedStatus, Status
  <2>3. w \notin doubled => InTurn(PausedStatus(staff[w]), n, AtWork(w))
    <3>1. staff[w] \in Status /\ pauses[w] \in 0 .. 2
      BY <1>1 DEF Member0
    <3>2. QED
      BY <1>1, <3>1, PausingKeepsTurn
  <2> HIDE DEF n
  <2>4. staff' \in [DOMAIN staff -> Status] /\ pauses' \in [Member0 -> 0 .. 2]
    BY <1>1, <2>1, <2>2
  <2>5. staff' \in Seq(Status) /\ DOMAIN staff' = DOMAIN staff
    BY <1>1, <2>4, ChangedInPlace
  <2>6. \A v \in Member0 \ doubled' : InTurn(staff'[v], pauses'[v], AtWork(v))
    BY <1>1, <2>1, <2>3 DEF Member0
  <2>7. QED
    BY <1>1, <2>1, <2>4, <2>5, <2>6, StaffChanges
<1>14. ASSUME NEW w \in Member0, ResumeOne(w) PROVE VersionedInv'
  <2>1. /\ staff' = Resumed(w) /\ pauses' = Unpaused(w) /\ doubled' = NowDoubled(w)
        /\ UNCHANGED <<taskVars, allPaused, rolling, orders>>
    BY <1>14 DEF ResumeOne
  <2>2. /\ staff' \in [DOMAIN staff -> Status] /\ pauses' \in [Member0 -> 0 .. 2] /\ doubled' \subseteq Member0
        /\ \A v \in Member0 \ doubled' : InTurn(staff'[v], pauses'[v], AtWork(v))
    BY <2>1, ResumingIsNoted
  <2>3. staff' \in Seq(Status) /\ DOMAIN staff' = DOMAIN staff
    BY <1>1, <2>2, ChangedInPlace
  <2>4. QED
    BY <1>1, <2>1, <2>2, <2>3, StaffChanges
<1>15. CASE UNCHANGED poolVars
  <2>1. UNCHANGED <<staff, taskVars, allPaused, rolling, orders, doubled, pauses>>
    BY <1>15 DEF poolVars, taskVars
  <2>2. QED
    BY <1>1, <2>1, StaffChanges
<1>16. QED
  BY <1>3, <1>4, <1>5, <1>6, <1>7, <1>8, <1>9, <1>10, <1>11, <1>12, <1>13, <1>14, <1>15 DEF PoolNext

LEMMA VersionedTypes == VersionedInv => PoolTypeOK
<1> SUFFICES ASSUME VersionedInv PROVE PoolTypeOK
  OBVIOUS
<1> USE DEF VersionedInv, StaffTyped, TasksTyped
<1>1. Len(staff) \in 0 .. MaxStaff /\ staff \in [1 .. Len(staff) -> Status]
  BY LenProperties, PoolAssumption
<1>2. staff \in BoundedSeq(Status, MaxStaff)
  BY <1>1 DEF BoundedSeq, SeqOf
<1>3. backlog \in BoundedSeq(Job, Cardinality(Job)) /\ letters \in BoundedSeq(Job, Cardinality(Job))
  BY DistinctIsBounded, PoolAssumption DEF OnePlace
<1>4. handled \subseteq [task : Job, worker : 0 .. MaxStaff]
  <2>1. 0 .. Len(staff) \subseteq 0 .. MaxStaff
    BY <1>1, PoolAssumption
  <2>2. QED
    BY <2>1
<1>5. QED
  BY <1>2, <1>3, <1>4 DEF PoolTypeOK, Status

LEMMA TimesInQueue ==
  ASSUME NEW s, Distinct(s), NEW j
  PROVE  Times(s, j) = IF j \in ToSet(s) THEN 1 ELSE 0
<1> DEFINE I == {i \in DOMAIN s : s[i] = j}
<1>1. CASE j \in ToSet(s)
  <2>1. PICK k \in DOMAIN s : s[k] = j
    BY <1>1 DEF ToSet
  <2>2. I = {k}
    BY <2>1 DEF Distinct
  <2>3. QED
    BY <1>1, <2>2, FS_Singleton DEF Times
<1>2. CASE j \notin ToSet(s)
  <2>1. I = {}
    BY <1>2 DEF ToSet
  <2>2. QED
    BY <1>2, <2>1, FS_EmptySet DEF Times
<1>3. QED
  BY <1>1, <1>2

LEMMA TasksKeepOnePlace == VersionedInv => EachTaskOnce
<1> SUFFICES ASSUME VersionedInv, NEW j \in Seen
             PROVE  Times(backlog, j) + Times(letters, j) + Cardinality({c \in handled : c.task = j})
                      + (IF j \in ended \cup dropped THEN 1 ELSE 0) = 1
  BY DEF EachTaskOnce
<1> DEFINE H == {c \in handled : c.task = j}
<1>1. OnePlace
  BY DEF VersionedInv
<1>2. /\ Times(backlog, j) = IF j \in ToSet(backlog) THEN 1 ELSE 0
      /\ Times(letters, j) = IF j \in ToSet(letters) THEN 1 ELSE 0
  BY <1>1, TimesInQueue DEF OnePlace
<1>3. Cardinality(H) = IF j \in InHand THEN 1 ELSE 0
  <2>1. CASE j \in InHand
    <3>1. PICK c \in handled : c.task = j
      BY <2>1 DEF InHand
    <3>2. H = {c}
      BY <1>1, <3>1 DEF OnePlace
    <3>3. QED
      BY <2>1, <3>2, FS_Singleton
  <2>2. CASE j \notin InHand
    <3>1. H = {}
      BY <2>2 DEF InHand
    <3>2. QED
      BY <2>2, <3>1, FS_EmptySet
  <2>3. QED
    BY <2>1, <2>2
<1>4. j \in ToSet(backlog) \cup ToSet(letters) \cup InHand \cup ended \cup dropped
  BY DEF Seen, InHand
<1> HIDE DEF H
<1>5. QED
  BY <1>1, <1>2, <1>3, <1>4 DEF OnePlace, H

\* Whom the pool gives a task, it gives it in turn.
LEMMA TurnsAreTaken ==
  VersionedInv /\ [PoolNext]_poolVars =>
    [\A w \in Member0 : (\E c \in handled' \ handled : c.worker = w)
                          => w \in doubled \/ (AtWork(w) = {} /\ pauses[w] # 1)]_poolVars
<1> SUFFICES ASSUME VersionedInv, PoolNext, NEW w \in Member0, NEW c \in handled' \ handled, c.worker = w
             PROVE  w \in doubled \/ (AtWork(w) = {} /\ pauses[w] # 1)
  OBVIOUS
<1>1. DOMAIN staff = 1 .. Len(staff) /\ Len(staff) \in Nat
  BY LenProperties DEF VersionedInv, StaffTyped
<1>2. CASE ProcessNext
  <2>1. GetIdleWorker \in Member0 /\ staff[GetIdleWorker] = "idle"
    BY <1>2, IdleWorkerIsIdle DEF ProcessNext, VersionedInv
  <2>2. w = GetIdleWorker
    BY <1>2 DEF ProcessNext
  <2>3. QED
    BY <2>1, <2>2 DEF VersionedInv, InTurns, InTurn
<1>3. CASE PoolReset
  <2>1. handled \subseteq [task : Job, worker : 0 .. Len(staff)]
    BY DEF VersionedInv, TasksTyped
  <2>2. c.worker = 0
    BY <1>3, <2>1 DEF PoolReset
  <2>3. QED
    BY <1>1, <2>2 DEF Member0
<1>4. CASE ~ProcessNext /\ ~PoolReset
  <2>1. handled' \subseteq handled
    BY <1>4 DEF PoolNext, AddWorkers, PoolPauses, RollingUpdate, OnUpdateDone, OnUpdateFails, ReplayDLQ, PoolSubmit, TaskCompletes,
                TaskFails, Frees, PauseOne, ResumeOne, taskVars
  <2>2. QED
    BY <2>1
<1>5. QED
  BY <1>2, <1>3, <1>4

(* No task of the versioned pool is lost or doubled between its queue, its     *)
(* calls, the dead letters and resets (WorkerPoolManager.processNext,          *)
(* replayDLQ, reset), for any number of tasks and workers.                     *)
THEOREM PoolKeepsTasks == VersionedSpec => []EachTaskOnce
<1> QED
  BY VersionedStarts, VersionedKeeps, TasksKeepOnePlace, PTL DEF VersionedSpec

(* A worker of the versioned pool that was not resumed while it worked takes   *)
(* one task at a time, and takes one while it is paused only if it was paused  *)
(* twice (WorkerPoolManager.pauseWorker, resumeWorker, rollingUpdate).         *)
THEOREM WorkersTakeTurns == VersionedSpec => OutOfTurnOnlyIf
<1> QED
  BY VersionedStarts, VersionedKeeps, TurnsAreTaken, PTL DEF VersionedSpec, OutOfTurnOnlyIf

-----------------------------------------------------------------------------
(* AgentGraph. The resolver is that of a walk that waits, and only a walk     *)
(* below the limit of iterations enters a node.                               *)
GraphSpec == GraphInit /\ [][GraphNext]_graphVars

Doing == WaitsIn \cup {"unused", "top", "task", "condition", "spawn", "leaving", "answered", "woken", "join", "done"}
WalkState == [at : Vertex, steps : 0 .. MaxIterations, of : Walk \cup {NoWalk}, doing : Doing]
GraphTyped ==
  /\ nodes \subseteq Vertex /\ edges \subseteq Vertex \X Vertex \X {"next", "error"}
  /\ walks \in [Walk -> WalkState]
  /\ graphPaused \in BOOLEAN /\ resolver \in Walk \cup {NoWalk} /\ active \subseteq Walk
  /\ edits \in 0 .. MaxEdits /\ overlapped \subseteq Walk

BelowTheLimit == \A w \in Walk : walks[w].doing \in {"paused", "woken"} => walks[w].steps < MaxIterations
ResolverWaits == resolver # NoWalk => walks[resolver].doing \in WaitsIn

GraphInv == GraphTyped /\ BelowTheLimit /\ ResolverWaits /\ OnlyOverlappedStrand

LEMMA GraphStarts == GraphInit => GraphInv
<1> SUFFICES ASSUME GraphInit PROVE GraphInv
  OBVIOUS
<1>1. Unused \in WalkState /\ Unused.doing = "unused"
  BY GraphAssumption DEF Unused, WalkState, Doing, NoWalk
<1>2. GraphTyped
  <2>1. walks \in [Walk -> WalkState]
    BY <1>1 DEF GraphInit
  <2>2. edges \subseteq Vertex \X Vertex \X {"next", "error"} /\ 0 \in 0 .. MaxEdits
    BY GraphAssumption DEF GraphInit
  <2>3. QED
    BY <2>1, <2>2 DEF GraphInit, GraphTyped
<1>3. QED
  BY <1>1, <1>2 DEF GraphInit, GraphInv, BelowTheLimit, ResolverWaits, OnlyOverlappedStrand, Waiting, WaitsIn, NoWalk

\* A step that makes nobody wait and wakes nobody, but for walks it moves on:
\* what it changes are walks that do not wait, into ones that do not wait.
MovesOn ==
  /\ walks' \in [Walk -> WalkState]
  /\ \A u \in Walk : walks'[u] = walks[u] \/ (walks[u].doing \notin WaitsIn /\ walks'[u].doing \notin WaitsIn \cup {"woken"})

LEMMA OthersGoOn ==
  ASSUME GraphInv, MovesOn, UNCHANGED <<resolver, overlapped>>,
         nodes' \subseteq Vertex, edges' \subseteq Vertex \X Vertex \X {"next", "error"},
         graphPaused' \in BOOLEAN, active' \subseteq Walk, edits' \in 0 .. MaxEdits
  PROVE  GraphInv'
<1>1. GraphTyped'
  BY DEF GraphInv, GraphTyped, MovesOn
<1>2. BelowTheLimit'
  BY DEF GraphInv, BelowTheLimit, MovesOn, WaitsIn
<1>3. ResolverWaits'
  BY DEF GraphInv, GraphTyped, ResolverWaits, MovesOn, NoWalk
<1>4. OnlyOverlappedStrand'
  BY DEF GraphInv, OnlyOverlappedStrand, MovesOn, Waiting
<1>5. QED
  BY <1>1, <1>2, <1>3, <1>4 DEF GraphInv

\* The ways a walk moves on.
LEMMA DoesMovesOn ==
  ASSUME GraphInv, NEW w \in Walk, walks[w].doing \notin WaitsIn, NEW what \in Doing \ (WaitsIn \cup {"woken"}),
         Does(w, what) \/ (Enters(w, what) /\ walks[w].steps < MaxIterations)
  PROVE  MovesOn
<1>1. walks \in [Walk -> WalkState]
  BY DEF GraphInv, GraphTyped
<1>2. walks[w].steps \in 0 .. MaxIterations /\ MaxIterations \in Nat
  BY <1>1, GraphAssumption DEF WalkState
<1>3. \A r \in WalkState : [r EXCEPT !.doing = what] \in WalkState /\ [r EXCEPT !.doing = what].doing = what
  BY DEF WalkState
<1>4. \A r \in WalkState : r.steps < MaxIterations =>
        [r EXCEPT !.doing = what, !.steps = @ + 1] \in WalkState /\ [r EXCEPT !.doing = what, !.steps = @ + 1].doing = what
  <2> SUFFICES ASSUME NEW r \in WalkState, r.steps < MaxIterations
               PROVE  /\ [r EXCEPT !.doing = what, !.steps = @ + 1] \in WalkState
                      /\ [r EXCEPT !.doing = what, !.steps = @ + 1].doing = what
    OBVIOUS
  <2>1. r.steps + 1 \in 0 .. MaxIterations
    BY <1>2 DEF WalkState
  <2>2. \A n \in 0 .. MaxIterations : /\ [r EXCEPT !.doing = what, !.steps = n] \in WalkState
                                     /\ [r EXCEPT !.doing = what, !.steps = n].doing = what
    BY DEF WalkState
  <2>3. QED
    BY <2>1, <2>2
<1>5. CASE Does(w, what)
  BY <1>1, <1>3, <1>5 DEF Does, MovesOn
<1>6. CASE Enters(w, what) /\ walks[w].steps < MaxIterations
  <2> DEFINE r == [walks[w] EXCEPT !.doing = what, !.steps = @ + 1]
  <2>1. walks' = [walks EXCEPT ![w] = r]
    BY <1>6 DEF Enters
  <2>2. r \in WalkState /\ r.doing = what
    BY <1>1, <1>4, <1>6
  <2> HIDE DEF r
  <2>3. QED
    BY <1>1, <2>1, <2>2 DEF MovesOn
<1>7. QED
  BY <1>5, <1>6

LEMMA GoingMovesOn ==
  ASSUME GraphInv, NEW w \in Walk, walks[w].doing \notin WaitsIn, NEW v \in Vertex, GoesTo(w, v)
  PROVE  MovesOn
<1>1. walks \in [Walk -> WalkState]
  BY DEF GraphInv, GraphTyped
<1> DEFINE r == [walks[w] EXCEPT !.at = v, !.doing = "top"]
<1>2. walks' = [walks EXCEPT ![w] = r]
  BY DEF GoesTo
<1>3. r \in WalkState /\ r.doing = "top"
  BY <1>1 DEF WalkState, Doing
<1> HIDE DEF r
<1>4. QED
  BY <1>1, <1>2, <1>3 DEF MovesOn, WaitsIn

\* A branch for every edge: the walks that begin are as many as the nodes they go to.
LEMMA FollowingMovesOn ==
  ASSUME GraphInv, NEW w \in Walk, walks[w].doing \notin WaitsIn \cup {"unused"}, FollowEdges(w)
  PROVE  MovesOn
<1> DEFINE next == {e[2] : e \in Outgoing(walks[w].at, {"next"})}
<1>1. walks \in [Walk -> WalkState] /\ edges \subseteq Vertex \X Vertex \X {"next", "error"}
  BY DEF GraphInv, GraphTyped
<1>2. next \subseteq Vertex /\ IsFiniteSet(next)
  <2>1. next \subseteq Vertex
    BY <1>1 DEF Outgoing
  <2>2. QED
    BY <2>1, GraphAssumption, FS_Subset
<1>3. CASE Cardinality(next) = 0 /\ Does(w, "done")
  BY <1>3, DoesMovesOn DEF Doing, WaitsIn
<1>4. ASSUME NEW v \in next, GoesTo(w, v) PROVE MovesOn
  BY <1>2, <1>4, GoingMovesOn
<1>5. ASSUME NEW us \in NextWalks(Cardinality(next)),
             walks' = [u \in Walk |-> IF u \in us
                         THEN Starts((CHOOSE f \in [us -> next] : \A v \in next : \E x \in us : f[x] = v)[u], w)
                         ELSE IF u = w THEN [walks[w] EXCEPT !.doing = "join"] ELSE walks[u]]
      PROVE  MovesOn
  <2> DEFINE to == CHOOSE f \in [us -> next] : \A v \in next : \E x \in us : f[x] = v
  <2>1. us \subseteq {u \in Walk : walks[u] = Unused} /\ Cardinality(us) = Cardinality(next) /\ IsFiniteSet(us)
    <3>1. us \subseteq {u \in Walk : walks[u] = Unused} /\ Cardinality(us) = Cardinality(next)
      BY DEF NextWalks, kSubset
    <3>2. IsFiniteSet(Walk)
      BY GraphAssumption, FS_Interval DEF Walk
    <3>3. QED
      BY <3>1, <3>2, FS_Subset
  <2>2. \E f \in [us -> next] : \A v \in next : \E x \in us : f[x] = v
    <3>1. PICK f : f \in Bijection(us, next)
      BY <1>2, <2>1, FS_SameCardinalityBij DEF ExistsBijection
    <3>2. QED
      BY <3>1 DEF Bijection, Surjection
  <2>3. to \in [us -> next]
    BY <2>2
  <2> HIDE DEF to, next
  <2>4. \A u \in us : Starts(to[u], w) \in WalkState /\ Starts(to[u], w).doing = "top"
    BY <1>2, <2>3, GraphAssumption DEF Starts, WalkState, Doing
  <2> DEFINE r == [walks[w] EXCEPT !.doing = "join"]
  <2>5. r \in WalkState /\ r.doing = "join"
    BY <1>1 DEF WalkState, Doing
  <2> HIDE DEF r
  <2>6. walks' = [u \in Walk |-> IF u \in us THEN Starts(to[u], w) ELSE IF u = w THEN r ELSE walks[u]]
    BY <1>5 DEF to, r
  <2>7. \A u \in us : walks[u].doing = "unused"
    <3>1. Unused.doing = "unused"
      BY DEF Unused
    <3>2. QED
      BY <2>1, <3>1
  <2>8. QED
    BY <1>1, <2>4, <2>5, <2>6, <2>7 DEF MovesOn, WaitsIn
<1>6. QED
  BY <1>3, <1>4, <1>5 DEF FollowEdges

\* A walk begins to wait: the resolver is its own, and whoever waited is overlapped.
LEMMA WaitersOverlap ==
  ASSUME GraphInv, NEW w \in Walk, walks[w].doing \notin WaitsIn, walks[w].steps < MaxIterations,
         Does(w, "paused") \/ Enters(w, "human"), Waits(w), graphPaused' \in BOOLEAN, UNCHANGED <<shapeVars, active>>
  PROVE  GraphInv'
<1>1. walks \in [Walk -> WalkState]
  BY DEF GraphInv, GraphTyped
<1>2. PICK r \in WalkState : /\ walks' = [walks EXCEPT ![w] = r] /\ r.doing \in WaitsIn
                             /\ r.doing = "paused" => r.steps < MaxIterations
  <2>1. CASE Does(w, "paused")
    <3> DEFINE r == [walks[w] EXCEPT !.doing = "paused"]
    <3>1. r \in WalkState /\ r.doing = "paused" /\ r.steps < MaxIterations
      BY <1>1 DEF WalkState, Doing, WaitsIn
    <3>2. QED
      BY <2>1, <3>1 DEF Does, WaitsIn
  <2>2. CASE Enters(w, "human")
    <3> DEFINE r == [walks[w] EXCEPT !.doing = "human", !.steps = @ + 1]
    <3>1. walks[w].steps + 1 \in 0 .. MaxIterations
      BY <1>1, GraphAssumption DEF WalkState
    <3>2. r \in WalkState /\ r.doing = "human"
      BY <1>1, <3>1 DEF WalkState, Doing, WaitsIn
    <3>3. QED
      BY <2>2, <3>2 DEF Enters, WaitsIn
  <2>3. QED
    BY <2>1, <2>2
<1>3. resolver' = w /\ overlapped' = overlapped \cup (Waiting \ {w})
  BY DEF Waits
<1>4. GraphTyped'
  BY <1>1, <1>2, <1>3 DEF GraphInv, GraphTyped, shapeVars, Waiting
<1>5. BelowTheLimit'
  BY <1>1, <1>2 DEF GraphInv, BelowTheLimit, WaitsIn
<1>6. ResolverWaits'
  BY <1>1, <1>2, <1>3 DEF ResolverWaits
<1>7. OnlyOverlappedStrand'
  BY <1>1, <1>2, <1>3 DEF OnlyOverlappedStrand, Waiting
<1>8. QED
  BY <1>4, <1>5, <1>6, <1>7 DEF GraphInv

LEMMA VisitingKeeps ==
  ASSUME GraphInv, NEW w \in Walk, walks[w].doing \in {"top", "woken"}, walks[w].steps < MaxIterations,
         VisitNode(w), UNCHANGED shapeVars
  PROVE  GraphInv'
<1> DEFINE kind == Kind[walks[w].at]
<1>1. kind \in {"task", "condition", "spawn", "human-input"} /\ walks[w].doing \notin WaitsIn
  BY GraphAssumption DEF GraphInv, GraphTyped, WalkState, WaitsIn
<1>2. ASSUME MovesOn, UNCHANGED pauseVars, active' \subseteq Walk PROVE GraphInv'
  BY <1>2, OthersGoOn DEF GraphInv, GraphTyped, shapeVars, pauseVars
<1>3. {"done", "task", "condition", "spawn", "leaving"} \subseteq Doing \ (WaitsIn \cup {"woken"})
  BY DEF Doing, WaitsIn
<1>4. CASE Does(w, "done") /\ UNCHANGED <<pauseVars, active>>
  BY <1>1, <1>2, <1>3, <1>4, DoesMovesOn DEF GraphInv, GraphTyped
<1>5. ASSUME NEW what \in {"task", "condition", "spawn", "leaving"}, Enters(w, what), active' \subseteq Walk, UNCHANGED pauseVars
      PROVE  GraphInv'
  BY <1>1, <1>2, <1>3, <1>5, DoesMovesOn
<1>6. CASE kind \in {"task", "condition"} /\ walks[w].at \in nodes
  BY <1>5, <1>6 DEF VisitNode, GraphInv, GraphTyped
<1>7. CASE kind = "spawn" /\ walks[w].at \in nodes
  BY <1>5, <1>7 DEF VisitNode, SpawnHere, GraphInv, GraphTyped
<1>8. CASE kind = "human-input" /\ walks[w].at \in nodes
  <2>1. HumanHere(w) /\ UNCHANGED active
    BY <1>8 DEF VisitNode
  <2>2. QED
    BY <1>1, <2>1, WaitersOverlap DEF HumanHere
<1>9. QED
  BY <1>1, <1>4, <1>6, <1>7, <1>8 DEF VisitNode

LEMMA ResumingKeeps ==
  ASSUME GraphInv, GraphResume
  PROVE  GraphInv'
<1>1. walks \in [Walk -> WalkState] /\ BelowTheLimit /\ ResolverWaits /\ OnlyOverlappedStrand
  BY DEF GraphInv, GraphTyped
<1> DEFINE next(w) == [walks[w] EXCEPT !.doing = IF @ = "human" THEN "answered" ELSE "woken"]
<1>2. walks' = [w \in Walk |-> IF w = resolver THEN next(w) ELSE walks[w]] /\ resolver' = NoWalk /\ graphPaused' = FALSE
  BY DEF GraphResume, Resumes
<1>3. \A w \in Walk : /\ next(w) \in WalkState
                      /\ next(w).doing = (IF walks[w].doing = "human" THEN "answered" ELSE "woken")
                      /\ next(w).steps = walks[w].steps
  BY <1>1 DEF WalkState, Doing
<1> HIDE DEF next
<1>4. GraphTyped'
  BY <1>1, <1>2, <1>3 DEF GraphInv, GraphTyped, GraphResume, shapeVars
<1>5. BelowTheLimit'
  <2> SUFFICES ASSUME NEW w \in Walk, walks'[w].doing \in {"paused", "woken"} PROVE walks'[w].steps < MaxIterations
    BY DEF BelowTheLimit
  <2>1. CASE w = resolver
    <3>1. w # NoWalk
      BY GraphAssumption DEF Walk, NoWalk
    <3>2. walks[w].doing \in WaitsIn
      BY <1>1, <2>1, <3>1 DEF ResolverWaits
    <3>3. walks[w].doing = "paused"
      BY <1>2, <1>3, <2>1, <3>2 DEF WaitsIn
    <3>4. QED
      BY <1>1, <1>2, <1>3, <2>1, <3>3 DEF BelowTheLimit
  <2>2. CASE w # resolver
    BY <1>1, <1>2, <2>2 DEF BelowTheLimit
  <2>3. QED
    BY <2>1, <2>2
<1>6. ResolverWaits'
  BY <1>2 DEF ResolverWaits
<1>7. OnlyOverlappedStrand'
  BY <1>1, <1>2, <1>3 DEF OnlyOverlappedStrand, Waiting, WaitsIn, GraphResume
<1>8. QED
  BY <1>4, <1>5, <1>6, <1>7 DEF GraphInv

LEMMA GraphKeeps == GraphInv /\ [GraphNext]_graphVars => GraphInv'
<1> SUFFICES ASSUME GraphInv, [GraphNext]_graphVars PROVE GraphInv'
  OBVIOUS
<1>1. GraphTyped
  BY DEF GraphInv
<1>2. \A u \in Walk : walks[u] \in WalkState /\ walks[u].at \in Vertex
  BY <1>1 DEF GraphTyped, WalkState
<1>3. ASSUME UNCHANGED <<walks, pauseVars>>, nodes' \subseteq Vertex, edges' \subseteq Vertex \X Vertex \X {"next", "error"},
             active' \subseteq Walk, edits' \in 0 .. MaxEdits
      PROVE  GraphInv'
  BY <1>1, <1>3, OthersGoOn DEF GraphTyped, MovesOn, pauseVars
<1>4. ASSUME MovesOn, UNCHANGED <<shapeVars, resolver, overlapped>>, active' \subseteq Walk, graphPaused' \in BOOLEAN
      PROVE  GraphInv'
  BY <1>1, <1>4, OthersGoOn DEF GraphTyped, shapeVars
<1>5. edits < MaxEdits => edits + 1 \in 0 .. MaxEdits
  BY <1>1, GraphAssumption DEF GraphTyped
<1>6. CASE GraphResume
  BY <1>6, ResumingKeeps
<1>7. CASE GraphReset
  <2>1. nodes' = {} /\ edges' = {} /\ active' = {} /\ edits' \in 0 .. MaxEdits /\ graphPaused' = FALSE /\ UNCHANGED <<walks, resolver, overlapped>>
    BY <1>5, <1>7 DEF GraphReset
  <2>2. MovesOn
    BY <1>1, <2>1 DEF MovesOn, GraphTyped
  <2>3. QED
    BY <2>1, <2>2, OthersGoOn
<1>8. ASSUME NEW w \in Walk, LoopTop(w) PROVE GraphInv'
  <2>1. walks[w].doing = "top" /\ walks[w].doing \notin WaitsIn /\ UNCHANGED shapeVars
    BY <1>8 DEF LoopTop, WaitsIn
  <2>2. CASE Does(w, "done") /\ UNCHANGED <<pauseVars, active>>
    <3>1. MovesOn
      BY <2>1, <2>2, DoesMovesOn DEF Doing, WaitsIn
    <3>2. QED
      BY <1>1, <1>4, <2>1, <2>2, <3>1 DEF pauseVars, GraphTyped
  <2>3. CASE walks[w].steps < MaxIterations /\ Does(w, "paused") /\ Waits(w) /\ UNCHANGED <<graphPaused, active>>
    BY <1>1, <2>1, <2>3, WaitersOverlap DEF GraphTyped
  <2>4. CASE walks[w].steps < MaxIterations /\ VisitNode(w)
    BY <2>1, <2>4, VisitingKeeps
  <2>5. QED
    BY <1>8, <2>2, <2>3, <2>4 DEF LoopTop
<1>9. ASSUME NEW w \in Walk, Condition(w) PROVE GraphInv'
  <2>1. walks[w].doing \notin WaitsIn /\ UNCHANGED <<shapeVars, pauseVars, active>>
    BY <1>9 DEF Condition, WaitsIn
  <2>2. Does(w, "done") \/ \E v \in Vertex : GoesTo(w, v)
    BY <1>9 DEF Condition
  <2>3. "done" \in Doing \ (WaitsIn \cup {"woken"})
    BY DEF Doing, WaitsIn
  <2>4. MovesOn
    BY <2>1, <2>2, <2>3, DoesMovesOn, GoingMovesOn
  <2>5. QED
    BY <1>1, <1>4, <2>1, <2>4 DEF pauseVars, GraphTyped
<1>10. ASSUME NEW w \in Walk, NodeExecuted(w) PROVE GraphInv'
  <2>1. walks[w].doing \notin WaitsIn \cup {"unused"} /\ UNCHANGED <<shapeVars, pauseVars, active>>
    BY <1>10 DEF NodeExecuted, WaitsIn
  <2>2. MovesOn
    BY <1>10, <2>1, FollowingMovesOn DEF NodeExecuted
  <2>3. QED
    BY <1>1, <1>4, <2>1, <2>2 DEF pauseVars, GraphTyped
<1>11. ASSUME NEW w \in Walk, NodeFails(w) PROVE GraphInv'
  <2>1. walks[w].doing \notin WaitsIn /\ UNCHANGED <<shapeVars, pauseVars, active>>
    BY <1>11 DEF NodeFails, WaitsIn
  <2>2. Does(w, "done") \/ \E e \in Outgoing(walks[w].at, {"error"}) : GoesTo(w, e[2])
    BY <1>11 DEF NodeFails
  <2>3. \A e \in Outgoing(walks[w].at, {"error"}) : e[2] \in Vertex
    BY <1>1 DEF Outgoing, GraphTyped
  <2>4. "done" \in Doing \ (WaitsIn \cup {"woken"})
    BY DEF Doing, WaitsIn
  <2>5. MovesOn
    BY <2>1, <2>2, <2>3, <2>4, DoesMovesOn, GoingMovesOn
  <2>6. QED
    BY <1>1, <1>4, <2>1, <2>5 DEF pauseVars, GraphTyped
<1>12. ASSUME NEW w \in Walk, SubAgentEnds(w) PROVE GraphInv'
  <2>1. walks[w].doing \notin WaitsIn \cup {"unused"} /\ UNCHANGED <<shapeVars, pauseVars>> /\ active' = active \ {w}
    BY <1>12 DEF SubAgentEnds, WaitsIn
  <2>2. MovesOn
    BY <1>12, <2>1, FollowingMovesOn DEF SubAgentEnds
  <2>3. QED
    BY <1>1, <1>4, <2>1, <2>2 DEF pauseVars, GraphTyped
<1>13. ASSUME NEW w \in Walk, TerminateSubAgent(w) PROVE GraphInv'
  BY <1>1, <1>3, <1>13 DEF TerminateSubAgent, GraphTyped, shapeVars
<1>14. ASSUME NEW w \in Walk, HumanAnswered(w) PROVE GraphInv'
  <2>1. /\ walks[w].doing \notin WaitsIn \cup {"unused"} /\ graphPaused' = FALSE
        /\ UNCHANGED <<shapeVars, resolver, overlapped, active>>
    BY <1>14 DEF HumanAnswered, WaitsIn
  <2>2. MovesOn
    BY <1>14, <2>1, FollowingMovesOn DEF HumanAnswered
  <2>3. QED
    BY <1>1, <1>4, <2>1, <2>2 DEF GraphTyped
<1>15. ASSUME NEW w \in Walk, Woken(w) PROVE GraphInv'
  <2>1. walks[w].doing = "woken" /\ walks[w].steps < MaxIterations
    BY <1>15 DEF Woken, GraphInv, BelowTheLimit
  <2>2. QED
    BY <1>15, <2>1, VisitingKeeps DEF Woken
<1>16. ASSUME NEW w \in Walk, BranchesJoin(w) PROVE GraphInv'
  <2>1. walks[w].doing \notin WaitsIn /\ UNCHANGED <<shapeVars, pauseVars, active>> /\ Does(w, "done")
    BY <1>16 DEF BranchesJoin, WaitsIn
  <2>2. MovesOn
    BY <2>1, DoesMovesOn DEF Doing, WaitsIn
  <2>3. QED
    BY <1>1, <1>4, <2>1, <2>2 DEF pauseVars, GraphTyped
<1>17. ASSUME NEW w \in Walk, NEW v \in Start, ExecuteGraph(w, v) PROVE GraphInv'
  <2>1. walks' = [walks EXCEPT ![w] = Starts(v, NoWalk)] /\ UNCHANGED <<shapeVars, pauseVars, active>>
    BY <1>17 DEF ExecuteGraph
  <2>2. walks[w] = Unused
    BY <1>17 DEF ExecuteGraph, NextWalks, kSubset
  <2>3. Unused.doing = "unused"
    BY DEF Unused
  <2>4. Starts(v, NoWalk) \in WalkState /\ Starts(v, NoWalk).doing = "top"
    BY GraphAssumption DEF Starts, WalkState, Doing
  <2>5. MovesOn
    BY <1>1, <2>1, <2>2, <2>3, <2>4 DEF MovesOn, WaitsIn, GraphTyped
  <2>6. QED
    BY <1>1, <1>4, <2>1, <2>5 DEF pauseVars, GraphTyped
<1>18. ASSUME NEW v \in Vertex, AddNode(v) \/ RemoveNode(v) PROVE GraphInv'
  BY <1>1, <1>3, <1>5, <1>18 DEF AddNode, RemoveNode, Edited, GraphTyped
<1>19. ASSUME NEW from \in Vertex, NEW to \in Vertex, NEW label \in {"next", "error"}, AddEdge(from, to, label) PROVE GraphInv'
  BY <1>1, <1>3, <1>5, <1>19 DEF AddEdge, Edited, GraphTyped
<1>20. ASSUME NEW e \in edges, RemoveEdge(e) PROVE GraphInv'
  BY <1>1, <1>3, <1>5, <1>20 DEF RemoveEdge, Edited, GraphTyped
<1>21. CASE UNCHANGED graphVars
  BY <1>1, <1>3, <1>21 DEF graphVars, pauseVars, GraphTyped
<1>22. QED
  BY <1>6, <1>7, <1>8, <1>9, <1>10, <1>11, <1>12, <1>13, <1>14, <1>15, <1>16, <1>17, <1>18, <1>19, <1>20, <1>21 DEF GraphNext

LEMMA GraphTypes == GraphInv => GraphTypeOK
<1> SUFFICES ASSUME GraphInv PROVE GraphTypeOK
  OBVIOUS
<1>1. 0 .. MaxIterations \subseteq 0 .. MaxIterations + 1
  BY GraphAssumption
<1>2. QED
  BY <1>1 DEF GraphInv, GraphTyped, GraphTypeOK, WalkState, Doing

(* A walk through the graph that waits is the one resume() reaches, or another *)
(* began to wait while it did (AgentGraph.pause), for every graph and number   *)
(* of walks.                                                                   *)
THEOREM WalksAloneGoOn == GraphSpec => []OnlyOverlappedStrand
<1>1. GraphInv => OnlyOverlappedStrand
  BY DEF GraphInv
<1>2. QED
  BY <1>1, GraphStarts, GraphKeeps, PTL DEF GraphSpec

-----------------------------------------------------------------------------
(* MemoryStore. What a store holds under a key is what it held when a user    *)
(* last changed something or, once it has merged, the newer of the two        *)
(* entries; so is what it sends.                                              *)
StoreSpec == MemoryStoreInit /\ [][MemoryStoreNext]_memoryStoreVars

Post == [on : BOOLEAN, fresh : BOOLEAN, entries : [Key -> MemoryEntry]]
StoreTyped ==
  /\ MemoryStoreTypeOK
  /\ changed \in [Store -> [Key -> MemoryEntry]] /\ posted \in [Store -> Post]

\* Two entries that tell which one is newer.
Ordered(e, f) == ~Twisted(e, f) /\ ~Twisted(f, e)
Newer(s, t, k) == Merged(changed[t][k], changed[s][k])

\* What s holds under k, t being the other store, and what it sent.
HeldSince(s, t, k) ==
  Ordered(changed[s][k], changed[t][k]) =>
    /\ kept[s][k] = IF s \in settled THEN Newer(s, t, k) ELSE changed[s][k]
    /\ posted[s].on /\ posted[s].fresh => posted[s].entries[k] \in {changed[s][k], Newer(s, t, k)}
OneStepBehind ==
  resolution = "last-write-wins" => \A s, t \in Store, k \in Key : s # t => HeldSince(s, t, k)

StoreInv == StoreTyped /\ OneStepBehind

\* Two stores that hold what they last wrote, or have merged it, have merged it
\* when one of them merges what the other holds; both then hold the same, or what
\* the merge takes for the same.
LEMMA MergeIsJoin ==
  ASSUME NEW mine \in MemoryEntry, NEW theirs \in MemoryEntry, Ordered(mine, theirs), resolution = "last-write-wins"
  PROVE  LET here == Merged(theirs, mine)
             there == Merged(mine, theirs)
         IN  /\ here = there \/ (Alike(mine, theirs) /\ Alike(here, there))
             /\ \A x \in {mine, here}, y \in {theirs, there} : Merged(y, x) = here
<1>1. mine.time \in Nat /\ theirs.time \in Nat /\ mine.version \in Nat /\ theirs.version \in Nat
  BY StoreAssumption DEF MemoryEntry
<1>2. Alike(mine, mine) /\ Alike(theirs, theirs) /\ (Alike(mine, theirs) <=> Alike(theirs, mine))
  BY DEF Alike
<1>3. CASE mine = Missing \/ theirs = Missing
  BY <1>2, <1>3 DEF Merged
<1>4. CASE mine # Missing /\ theirs # Missing /\ Alike(mine, theirs)
  BY <1>2, <1>4 DEF Merged
<1>5. CASE mine # Missing /\ theirs # Missing /\ ~Alike(mine, theirs)
  <2>1. \/ RemoteWins(mine, theirs) /\ ~RemoteWins(theirs, mine)
        \/ RemoteWins(theirs, mine) /\ ~RemoteWins(mine, theirs)
    BY <1>1, <1>2, <1>5 DEF Ordered, Twisted, RemoteWins
  <2>2. QED
    BY <1>2, <1>5, <2>1 DEF Merged
<1>6. QED
  BY <1>3, <1>4, <1>5

\* The two stores.
LEMMA TwoStores == \A s, t, u \in Store : s = t \/ s = u \/ t = u
<1> SUFFICES ASSUME NEW s \in Store, NEW t \in Store, NEW u \in Store, s # t, s # u, t # u PROVE FALSE
  OBVIOUS
<1>1. IsFiniteSet({s}) /\ Cardinality({s}) = 1
  BY FS_Singleton
<1>2. IsFiniteSet({s} \cup {t}) /\ Cardinality({s} \cup {t}) = 2
  BY <1>1, FS_AddElement
<1>3. Cardinality({s} \cup {t} \cup {u}) = 3
  BY <1>2, FS_AddElement
<1>4. IsFiniteSet(Store)
  BY StoreAssumption
<1>5. QED
  BY <1>3, <1>4, FS_Subset, StoreAssumption

LEMMA StoreStarts == MemoryStoreInit => StoreInv
<1> SUFFICES ASSUME MemoryStoreInit PROVE StoreInv
  OBVIOUS
<1>1. Missing \in MemoryEntry
  BY StoreAssumption DEF Missing, MemoryEntry
<1>2. NothingPosted \in Post /\ ~NothingPosted.on
  BY <1>1 DEF NothingPosted, Post
<1>3. StoreTyped
  BY <1>1, <1>2, StoreAssumption DEF MemoryStoreInit, StoreTyped, MemoryStoreTypeOK
<1>4. OneStepBehind
  BY <1>2 DEF MemoryStoreInit, OneStepBehind, HeldSince
<1>5. QED
  BY <1>3, <1>4 DEF StoreInv

\* A change by a user: both stores hold what the change left them.
LEMMA ChangesStart ==
  ASSUME StoreTyped, kept' \in [Store -> [Key -> MemoryEntry]], versions' \in [Store -> 0 .. MaxWrites], UNCHANGED time,
         NEW sent \in [Store -> Post], Changed(sent)
  PROVE  StoreInv'
<1>1. posted' \in [Store -> Post] /\ \A s \in Store : ~posted'[s].fresh
  BY DEF Changed, Post
<1>2. settled' = {} /\ changed' = kept'
  BY DEF Changed
<1>3. StoreTyped'
  BY <1>1, <1>2 DEF StoreTyped, MemoryStoreTypeOK
<1>4. OneStepBehind'
  BY <1>1, <1>2 DEF OneStepBehind, HeldSince
<1>5. QED
  BY <1>3, <1>4 DEF StoreInv

LEMMA EntriesMergeTyped ==
  ASSUME NEW e \in MemoryEntry, NEW f \in MemoryEntry
  PROVE  Merged(e, f) \in MemoryEntry
BY DEF Merged

LEMMA StoreKeeps == StoreInv /\ [MemoryStoreNext]_memoryStoreVars => StoreInv'
<1> SUFFICES ASSUME StoreInv, [MemoryStoreNext]_memoryStoreVars PROVE StoreInv'
  OBVIOUS
<1>1. StoreTyped /\ OneStepBehind /\ Missing \in MemoryEntry /\ NothingPosted \in Post /\ ~NothingPosted.on
  <2>1. Missing \in MemoryEntry
    BY StoreAssumption DEF Missing, MemoryEntry
  <2>2. QED
    BY <2>1 DEF NothingPosted, Post, StoreInv
<1>2. CASE StoreTick
  BY <1>1, <1>2, StoreAssumption DEF StoreTick, StoreInv, StoreTyped, MemoryStoreTypeOK, OneStepBehind, HeldSince, Newer, Merged
<1>3. ASSUME NEW s \in Store, PostEntries(s) PROVE StoreInv'
  <2> DEFINE new == [on |-> TRUE, fresh |-> TRUE, entries |-> kept[s]]
  <2>1. new \in Post
    BY <1>1 DEF Post, StoreTyped, MemoryStoreTypeOK
  <2>2. posted' = [posted EXCEPT ![s] = new] /\ UNCHANGED <<resolution, kept, versions, clocks, time, settled, changed>>
    BY <1>3 DEF PostEntries
  <2>3. StoreTyped'
    BY <1>1, <2>1, <2>2 DEF StoreTyped, MemoryStoreTypeOK
  <2>4. OneStepBehind'
    <3> SUFFICES ASSUME resolution = "last-write-wins", NEW u \in Store, NEW v \in Store, NEW k \in Key, u # v,
                        Ordered(changed[u][k], changed[v][k])
                 PROVE  HeldSince(u, v, k)'
      BY <2>2 DEF OneStepBehind, HeldSince
    <3>1. kept[u][k] = (IF u \in settled THEN Newer(u, v, k) ELSE changed[u][k])
      BY <1>1 DEF OneStepBehind, HeldSince
    <3>2. posted[u].on /\ posted[u].fresh => posted[u].entries[k] \in {changed[u][k], Newer(u, v, k)}
      BY <1>1 DEF OneStepBehind, HeldSince
    <3>3. posted'[u] = IF u = s THEN new ELSE posted[u]
      BY <1>1, <2>2 DEF StoreTyped
    <3>4. Newer(u, v, k)' = Newer(u, v, k)
      BY <2>2 DEF Newer, Merged
    <3>5. QED
      BY <2>2, <3>1, <3>2, <3>3, <3>4 DEF HeldSince
  <2>5. QED
    BY <2>3, <2>4 DEF StoreInv
<1>4. ASSUME NEW s \in Store, NEW t \in Store, MergeRemote(s, t) PROVE StoreInv'
  <2> DEFINE sent == [posted EXCEPT ![t] = NothingPosted]
             merged == [k \in Key |-> Merged(posted[t].entries[k], kept[s][k])]
  <2>1. sent \in [Store -> Post]
    BY <1>1 DEF StoreTyped
  <2>2. posted[t] \in Post /\ posted[t].entries \in [Key -> MemoryEntry] /\ kept[s] \in [Key -> MemoryEntry]
    BY <1>1 DEF StoreTyped, MemoryStoreTypeOK, Post
  <2>3. merged \in [Key -> MemoryEntry]
    BY <2>2, EntriesMergeTyped
  <2>4. /\ s # t /\ posted[t].on /\ kept' = [kept EXCEPT ![s] = merged] /\ UNCHANGED <<resolution, versions, clocks, time>>
        /\ IF posted[t].fresh THEN posted' = sent /\ settled' = settled \cup {s} /\ UNCHANGED changed ELSE Changed(sent)
    BY <1>4 DEF MergeRemote
  <2>5. kept' \in [Store -> [Key -> MemoryEntry]] /\ kept'[s] = merged /\ \A u \in Store : u # s => kept'[u] = kept[u]
    <3> HIDE DEF merged
    <3> QED
      BY <1>1, <2>3, <2>4 DEF StoreTyped, MemoryStoreTypeOK
  <2>6. CASE ~posted[t].fresh
    <3> HIDE DEF sent
    <3> QED
      BY <1>1, <2>1, <2>4, <2>5, <2>6, ChangesStart DEF StoreTyped, MemoryStoreTypeOK
  <2>7. CASE posted[t].fresh
    <3>1. posted' = sent /\ settled' = settled \cup {s} /\ changed' = changed
      BY <2>4, <2>7
    <3>2. StoreTyped'
      BY <1>1, <2>1, <2>4, <2>5, <3>1 DEF StoreTyped, MemoryStoreTypeOK
    <3>3. OneStepBehind'
      <4> SUFFICES ASSUME resolution = "last-write-wins", NEW u \in Store, NEW v \in Store, NEW k \in Key, u # v,
                          Ordered(changed[u][k], changed[v][k])
                   PROVE  HeldSince(u, v, k)'
        BY <2>4, <3>1 DEF OneStepBehind, HeldSince
      <4>1. Newer(u, v, k)' = Newer(u, v, k)
        BY <2>4, <3>1 DEF Newer, Merged
      <4>2. posted'[u].on /\ posted'[u].fresh => posted'[u].entries[k] \in {changed[u][k], Newer(u, v, k)}
        BY <1>1, <3>1 DEF OneStepBehind, HeldSince, StoreTyped
      <4>3. CASE u # s
        BY <1>1, <2>5, <3>1, <4>1, <4>2, <4>3 DEF OneStepBehind, HeldSince
      <4>4. CASE u = s
        <5> DEFINE mine == changed[s][k]
                   theirs == changed[t][k]
        <5>1. v = t
          BY <2>4, <4>4, TwoStores
        <5>2. mine \in MemoryEntry /\ theirs \in MemoryEntry /\ Ordered(mine, theirs) /\ Ordered(theirs, mine)
          BY <1>1, <4>4, <5>1 DEF StoreTyped, Ordered
        <5>3. Newer(s, t, k) = Merged(theirs, mine) /\ Newer(t, s, k) = Merged(mine, theirs)
          BY DEF Newer
        <5>4. kept[s][k] \in {mine, Newer(s, t, k)}
          BY <1>1, <2>4, <5>2 DEF OneStepBehind, HeldSince
        <5>5. posted[t].entries[k] \in {theirs, Newer(t, s, k)}
          BY <1>1, <2>4, <2>7, <5>2 DEF OneStepBehind, HeldSince
        <5>6. kept'[s][k] = Merged(posted[t].entries[k], kept[s][k])
          BY <2>5
        <5>7. kept'[s][k] = Newer(s, t, k)
          <6> HIDE DEF mine, theirs
          <6> QED
            BY <5>2, <5>3, <5>4, <5>5, <5>6, MergeIsJoin
        <5>8. QED
          BY <3>1, <4>1, <4>2, <4>4, <5>1, <5>7 DEF HeldSince
      <4>5. QED
        BY <4>3, <4>4
    <3>4. QED
      BY <3>2, <3>3 DEF StoreInv
  <2>8. QED
    BY <2>6, <2>7
<1>5. ASSUME NEW s \in Store, NEW k \in Key, DeleteEntry(s, k) PROVE StoreInv'
  <2>1. kept' \in [Store -> [Key -> MemoryEntry]] /\ UNCHANGED <<versions, time>> /\ Changed(posted)
    BY <1>1, <1>5 DEF DeleteEntry, StoreTyped, MemoryStoreTypeOK
  <2>2. QED
    BY <1>1, <2>1, ChangesStart DEF StoreTyped, MemoryStoreTypeOK
<1>6. ASSUME NEW s \in Store, NEW k \in Key, NEW a \in Author, NEW v \in Value, StoreEntry(s, k, a, v) PROVE StoreInv'
  <2>1. versions \in [Store -> 0 .. MaxWrites] /\ versions' = [versions EXCEPT ![s] = @ + 1] /\ time \in 0 .. MaxTime
    BY <1>1, <1>6 DEF StoreEntry, StoreTyped, MemoryStoreTypeOK
  <2>2. versions[s] + 1 \in 0 .. MaxWrites
    <3>1. \E t \in Store : t # s
      <4>1. SUFFICES ASSUME Store = {s} PROVE FALSE
        OBVIOUS
      <4>2. Cardinality({s}) = 1
        BY FS_Singleton
      <4>3. Cardinality(Store) = 2
        BY StoreAssumption
      <4>4. QED
        BY <4>1, <4>2, <4>3
    <3>2. PICK t \in Store : t # s /\ versions[s] + versions[t] < MaxWrites
      BY <1>6, <3>1 DEF StoreEntry
    <3>3. versions[s] \in Nat /\ versions[t] \in Nat
      BY <2>1
    <3>4. QED
      BY <3>2, <3>3, StoreAssumption
  <2>3. versions' \in [Store -> 0 .. MaxWrites] /\ versions'[s] \in 0 .. MaxWrites
    BY <2>1, <2>2
  <2> DEFINE new == [at |-> s, by |-> a, value |-> v, time |-> time, version |-> versions'[s]]
  <2>4. new \in MemoryEntry
    BY <2>1, <2>3 DEF MemoryEntry
  <2>5. kept' = [kept EXCEPT ![s][k] = new] /\ Changed(posted) /\ UNCHANGED time
    BY <1>6 DEF StoreEntry
  <2>6. kept' \in [Store -> [Key -> MemoryEntry]]
    <3> HIDE DEF new
    <3> QED
      BY <1>1, <2>4, <2>5 DEF StoreTyped, MemoryStoreTypeOK
  <2>7. QED
    BY <1>1, <2>3, <2>5, <2>6, ChangesStart DEF StoreTyped
<1>7. CASE UNCHANGED memoryStoreVars
  BY <1>1, <1>7 DEF memoryStoreVars, StoreInv, StoreTyped, MemoryStoreTypeOK, OneStepBehind, HeldSince, Newer, Merged
<1>8. QED
  BY <1>2, <1>3, <1>4, <1>5, <1>6, <1>7 DEF MemoryStoreNext

LEMMA StoreTypes == StoreInv => MemoryStoreTypeOK
BY DEF StoreInv, StoreTyped

(* Two stores that merged each other's entries since a user last changed one  *)
(* hold the same value and version (MemoryStore.mergeRemote), unless times    *)
(* and versions disagree, for all keys and agents and whatever is late.       *)
LEMMA StoresConverge == StoreInv => MergesConverge
<1> SUFFICES ASSUME StoreInv, resolution = "last-write-wins", settled = Store,
                    NEW s \in Store, NEW t \in Store, NEW k \in Key,
                    Ordered(changed[s][k], changed[t][k])
             PROVE  \/ kept[s][k] = kept[t][k]
                    \/ Alike(changed[s][k], changed[t][k]) /\ Alike(kept[s][k], kept[t][k])
  BY DEF MergesConverge, Ordered
<1>1. CASE s = t
  BY <1>1
<1>2. CASE s # t
  <2> DEFINE mine == changed[s][k]
             theirs == changed[t][k]
  <2>1. mine \in MemoryEntry /\ theirs \in MemoryEntry /\ Ordered(mine, theirs) /\ Ordered(theirs, mine)
    BY DEF StoreInv, StoreTyped, Ordered
  <2>2. kept[s][k] = Merged(theirs, mine) /\ kept[t][k] = Merged(mine, theirs)
    BY <1>2, <2>1 DEF StoreInv, OneStepBehind, HeldSince, Newer
  <2> HIDE DEF mine, theirs
  <2>3. Merged(theirs, mine) = Merged(mine, theirs)
          \/ (Alike(mine, theirs) /\ Alike(Merged(theirs, mine), Merged(mine, theirs)))
    BY <2>1, MergeIsJoin
  <2>4. QED
    BY <2>2, <2>3 DEF mine, theirs
<1>3. QED
  BY <1>1, <1>2

(* Two stores that have merged each other's last entries under a key hold the  *)
(* same value and version there, where the newer time comes with the newer     *)
(* version, and the same entry unless both wrote that value as that version:   *)
(* mergeRemote with last-write-wins, for any keys, values, writers and delays. *)
THEOREM MergedStoresAgree == StoreSpec => []MergesConverge
<1> QED
  BY StoreStarts, StoreKeeps, StoresConverge, PTL DEF StoreSpec

-----------------------------------------------------------------------------
(* The parts together: a step of the fleet is a step of one part.             *)

LEMMA PartsStart ==
  Init => /\ FleetInit /\ BusInit /\ HierarchyInit /\ LinkInit /\ MemoryInit /\ PageInit /\ TabInit
          /\ PoolInit /\ GraphInit /\ MemoryStoreInit
BY DEF Init

LEMMA PartsStep ==
  [Next]_<<focus, agentVars, transportVars, workVars>> =>
    /\ [FleetNext]_fleetVars /\ [BusNext]_busVars /\ [HierarchyNext]_hierarchyVars
    /\ [LinkNext]_linkVars /\ [MemoryNext]_memoryVars /\ [PageNext]_pageVars /\ [TabNext]_tabVars
    /\ [PoolNext]_poolVars /\ [GraphNext]_graphVars /\ [MemoryStoreNext]_memoryStoreVars
BY DEF Next, AgentsStep, TransportStep, WorkStep, agentVars, transportVars, workVars

LEMMA PartsOfTheFleet ==
  Spec => /\ FleetSpec /\ BusSpec /\ HierarchySpec /\ LinkSpec /\ MemorySpec /\ PageSpec /\ TabSpec
          /\ VersionedSpec /\ GraphSpec /\ StoreSpec
BY PartsStart, PartsStep, PTL DEF Spec, FleetSpec, BusSpec, HierarchySpec, LinkSpec, MemorySpec, PageSpec, TabSpec,
   VersionedSpec, GraphSpec, StoreSpec

(* Types of all parts of the fleet.                                            *)
THEOREM FleetIsTyped == Spec => []TypeOK
<1>1. FleetInv /\ BusInv /\ HierarchyInv /\ LinkInv /\ MemoryInv /\ PageInv /\ TabInv /\ VersionedInv /\ GraphInv /\ StoreInv
        => TypeOK
  <2>1. TabInv => TabTypeOK
    BY DEF TabInv, TabTyped, TabTypeOK
  <2>2. BusInv /\ HierarchyInv /\ MemoryInv /\ PageInv => BusTypeOK /\ HierarchyTypeOK /\ MemoryTypeOK /\ PageTypeOK
    BY DEF BusInv, HierarchyInv, MemoryInv, PageInv
  <2>3. QED
    BY <2>1, <2>2, FleetTypes, LinkTypes, VersionedTypes, GraphTypes, StoreTypes, Zenon DEF TypeOK
<1>2. QED
  BY <1>1, PartsStart, PartsStep, FleetStarts, FleetKeeps, BusStarts, BusKeeps, HierarchyStarts, HierarchyKeeps, LinkStarts, LinkStep,
     MemoryStarts, MemoryKeeps, PageStarts, PageKeeps, TabsStart, TabsKeep, VersionedStarts, VersionedKeeps, GraphStarts, GraphKeeps,
     StoreStarts, StoreKeeps, PTL DEF Spec

(* Tabs that have heard of each other follow one leader, and stores that have  *)
(* merged each other's entries hold the same, but for entries whose times and  *)
(* versions disagree, and for who wrote the same value as the same version     *)
(* (BroadcastCoordinator, MemoryStore.mergeRemote).                            *)
THEOREM ReplicasConverge == Spec => []ReplicasAgree
<1>1. TwoLeadersOnlyInFlight /\ MergesConverge => ReplicasAgree
  BY DEF ReplicasAgree
<1>2. QED
  BY <1>1, PartsOfTheFleet, TabsAgreeOnALeader, MergedStoresAgree, PTL

(* What the bus and the Redis transport accepted is kept until it is handed    *)
(* over, whoever matches hears it, and nobody hears it twice                   *)
(* (AgentMessageBus, RedisTransport, MemoryTransport, TabTransport).           *)
THEOREM MessagesAreDelivered == Spec => DeliveredAsDue
<1> QED
  BY PartsOfTheFleet, MessagesAreKept, AcceptedMessagesAreKept, MatchingSubscriptionsHear, NotesAreHeardOnce, PTL
     DEF DeliveredAsDue

(* The pool gives its tasks in turn and loses none, and walks through a graph  *)
(* that wait are reached (WorkerPoolManager, AgentGraph).                      *)
THEOREM WorkGoesOnInHand == Spec => WorkStaysInHand
<1> QED
  BY PartsOfTheFleet, WorkersTakeTurns, PoolKeepsTasks, WalksAloneGoOn, PTL DEF WorkStaysInHand

=============================================================================
