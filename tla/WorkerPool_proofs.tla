------------------------- MODULE WorkerPool_proofs --------------------------
(* The safety of the worker pool for any number of workers, tasks, retries   *)
(* and calls of the application: a task is in one place, a worker has one    *)
(* task, and no task is lost.                                                *)
(*                                                                           *)
(* Callbacks do not call resume() and stop() does not overlap start(): where *)
(* they do, a worker can get a second task.                                  *)
EXTENDS WorkerPool, FiniteSetTheorems, SequenceTheorems, TLAPS

-----------------------------------------------------------------------------
(* The inductive invariant                                                   *)

QueueTyped ==
  /\ queue \in Seq(Tasks)
  /\ inProgress \subseteq Tasks /\ completed \subseteq Tasks /\ failed \subseteq Tasks
  /\ retries \in [Tasks -> Nat]

WorkersTyped ==
  /\ status \in [Workers -> {"idle", "working"}]
  /\ currentTask \in [Workers -> Tasks \cup {NoTask}]
  /\ executing \subseteq Workers \X Tasks

\* What an assignment needs and keeps.
TasksPlaced == QueueTyped /\ WorkersTyped /\ OnePlaceEach /\ OneTaskPerWorker

CallsTyped ==
  /\ running \in BOOLEAN /\ paused \in BOOLEAN /\ stopped \in BOOLEAN
  /\ loader \in {"none", "loading", "loaded", "failed"} /\ loads \in Nat
  /\ call \in [Callers -> Kinds \cup {"free", "mutating", "waiting", "stopping"}]
  /\ calls \in [Callers -> 0..MaxCalls]
  /\ awaited \subseteq Workers
  /\ pauseTimers \in Nat
  /\ callback \in Workers \cup {NoWorker}
  /\ config \in 0..1
  /\ completions \in Nat
  /\ threw \in BOOLEAN

\* The worker whose task has just ended has no other yet.
CallbackIdle == callback # NoWorker => status[callback] = "idle"

\* Until the loader has answered nobody works.
RestsUnlessLoaded ==
  loader # "loaded" => ~running /\ executing = {} /\ callback = NoWorker

\* stop() waits for every worker that works, and nobody starts to.
StopWaits ==
  \A c \in Callers : call[c] = "stopping" =>
    /\ ~running
    /\ loader # "loading"
    /\ \A w \in Workers : status[w] = "working" => w \in awaited

\* A pool that runs has tasks left.
RunsForWork == running => ~Drained

IInv == /\ TasksPlaced /\ CallsTyped
        /\ CallbackIdle /\ RestsUnlessLoaded /\ StopWaits
        /\ CompletesOnce /\ WorkGoesOn /\ RunsForWork

LEMMA IInvTypes == IInv => TypeOK
BY DEF IInv, TypeOK, TasksPlaced, QueueTyped, WorkersTyped, CallsTyped

-----------------------------------------------------------------------------
(* assignNextTask: the first tasks of the queue go to different workers      *)

LEMMA WorkersFinite ==
  ASSUME NEW ws \in SUBSET Workers
  PROVE  /\ ws \subseteq Int /\ IsFiniteSet(ws)
         /\ \A w \in Workers : Place(ws, w) \in Nat
<1>1. Workers \subseteq Int /\ IsFiniteSet(Workers)
  BY WorkerAssumption, FS_Interval DEF Workers
<1>2. \A S \in SUBSET Workers : IsFiniteSet(S)
  BY <1>1, FS_Subset
<1>3. \A w \in Workers : {v \in ws : v <= w} \in SUBSET Workers
  OBVIOUS
<1> QED
  BY <1>1, <1>2, <1>3, FS_CardinalityType DEF Place

LEMMA EmptyQueue ==
  ASSUME NEW q \in Seq(Tasks)
  PROVE  q = <<>> <=> {q[i] : i \in DOMAIN q} = {}
<1>1. Len(q) \in Nat /\ DOMAIN q = 1..Len(q) /\ (q # <<>> => Len(q) \in Nat \ {0})
  BY LenProperties, EmptySeq
<1>2. CASE q = <<>>
  BY <1>2
<1>3. CASE q # <<>>
  <2>1. 1 \in DOMAIN q
    BY <1>1, <1>3
  <2> QED
    BY <1>3, <2>1
<1> QED
  BY <1>2, <1>3

LEMMA PlacesGrow ==
  ASSUME NEW ws \in SUBSET Workers, NEW v \in ws, NEW w \in ws, v < w
  PROVE  Place(ws, v) < Place(ws, w)
<1> DEFINE below == {u \in ws : u <= v}
           above == {u \in ws : u <= w}
<1>1. ws \subseteq Int /\ IsFiniteSet(ws)
  BY WorkersFinite
<1>2. IsFiniteSet(above) /\ IsFiniteSet(below)
  BY <1>1, FS_Subset
<1>3. below \in SUBSET above /\ w \in above /\ w \notin below
  <2>1. \A u \in ws : u <= v => u <= w
    BY <1>1
  <2>2. v \in Int /\ w \in Int /\ ~(w <= v)
    BY <1>1
  <2>3. w <= w
    BY <2>2
  <2> QED
    BY <2>1, <2>2, <2>3
<1>4. Cardinality(below) <= Cardinality(above) /\ Cardinality(below) # Cardinality(above)
  BY <1>2, <1>3, FS_Subset
<1>5. Cardinality(below) \in Nat /\ Cardinality(above) \in Nat
  BY <1>2, FS_CardinalityType
<1> QED
  BY <1>4, <1>5 DEF Place

LEMMA SomebodyIsFirst ==
  ASSUME NEW ws \in SUBSET Workers, ws # {}
  PROVE  \E w \in ws : Place(ws, w) = 1
<1> DEFINE n == Cardinality(ws)
           f == [w \in ws |-> Place(ws, w)]
<1>1. ws \subseteq Int /\ IsFiniteSet(ws) /\ n \in Nat
  BY WorkersFinite, FS_CardinalityType
<1>2. n # 0
  BY <1>1, FS_EmptySet
<1>3. ASSUME NEW w \in ws PROVE Place(ws, w) \in 1..n
  <2> DEFINE upto == {v \in ws : v <= w}
  <2>1. w \in upto /\ upto \in SUBSET ws
    BY <1>1
  <2>2. IsFiniteSet(upto) /\ Cardinality(upto) <= n
    BY <2>1, <1>1, FS_Subset
  <2>3. Cardinality(upto) \in Nat /\ Cardinality(upto) # 0
    BY <2>1, <2>2, FS_EmptySet, FS_CardinalityType
  <2> QED
    BY <2>2, <2>3, <1>1 DEF Place
<1>4. ASSUME NEW v \in ws, NEW w \in ws, Place(ws, v) = Place(ws, w)
      PROVE  v = w
  <2>1. v \in Int /\ w \in Int /\ Place(ws, v) \in Int
    BY <1>1, <1>3
  <2>2. ~(v < w) /\ ~(w < v)
    BY <2>1, <1>4, PlacesGrow
  <2> QED
    BY <2>1, <2>2
<1>5. f \in Injection(ws, 1..n)
  BY <1>3, <1>4 DEF Injection, IsInjective
<1>6. IsFiniteSet(1..n) /\ Cardinality(1..n) = n
  BY <1>1, FS_Interval
<1>7. f \in Surjection(ws, 1..n)
  BY <1>5, <1>6, FS_Injection
<1>8. \A i \in 1..n : \E w \in ws : Place(ws, w) = i
  BY <1>7 DEF Surjection
<1>9. 1 \in 1..n
  BY <1>1, <1>2
<1> QED
  BY <1>8, <1>9

\* The places of the workers that are served are exactly the first ones.
LEMMA ServedPlaces ==
  ASSUME queue \in Seq(Tasks), NEW ws \in SUBSET Workers
  PROVE  LET S == Served(ws)
             n == Cardinality(S)
         IN /\ n \in Nat /\ n <= Len(queue)
            /\ S \subseteq ws
            /\ \A w \in S : Place(ws, w) \in 1..n
            /\ \A v, w \in S : Place(ws, v) = Place(ws, w) => v = w
            /\ \A i \in 1..n : \E w \in S : Place(ws, w) = i
<1> DEFINE S == Served(ws)
           n == Cardinality(S)
           f == [w \in S |-> Place(ws, w)]
<1>1. S \subseteq ws /\ S \in SUBSET Workers
  BY DEF Served
<1>2. IsFiniteSet(S) /\ n \in Nat /\ ws \subseteq Int
  BY <1>1, WorkersFinite, FS_CardinalityType
<1>3. ASSUME NEW w \in S PROVE Place(ws, w) \in 1..n
  <2> DEFINE upto == {v \in ws : v <= w}
  <2>1. w \in ws /\ Place(ws, w) <= Len(queue) /\ Place(ws, w) \in Nat
    BY <1>1, WorkersFinite DEF Served
  <2>2. ASSUME NEW v \in upto PROVE v \in S
    <3>1. CASE v = w
      BY <3>1
    <3>2. CASE v # w
      <4>1. v < w
        BY <3>2, <1>2, <2>1
      <4>2. Place(ws, v) < Place(ws, w)
        BY <4>1, <2>1, PlacesGrow
      <4>3. Place(ws, v) \in Nat /\ Len(queue) \in Nat
        <5>1. v \in Workers /\ v \in ws
          OBVIOUS
        <5> HIDE DEF upto
        <5> QED
          BY <5>1, WorkersFinite, LenProperties
      <4> QED
        BY <4>2, <4>3, <2>1 DEF Served
    <3> QED
      BY <3>1, <3>2
  <2>3. Cardinality(upto) <= n
    BY <2>2, <1>2, FS_Subset
  <2>4. upto # {} /\ IsFiniteSet(upto)
    <3>1. w \in Int
      BY <2>1, <1>2
    <3>2. w <= w
      BY <3>1
    <3>3. w \in upto
      BY <3>2, <2>1
    <3>4. upto \in SUBSET S
      BY <2>2
    <3> QED
      BY <3>3, <3>4, <1>2, FS_Subset
  <2>5. Cardinality(upto) # 0
    BY <2>4, FS_EmptySet
  <2> QED
    BY <2>1, <2>3, <2>5, <1>2 DEF Place
<1>4. ASSUME NEW v \in S, NEW w \in S, Place(ws, v) = Place(ws, w)
      PROVE  v = w
  <2>1. v \in ws /\ w \in ws /\ v \in Int /\ w \in Int
    BY <1>1, <1>2
  <2>2. Place(ws, v) \in Int
    BY <1>3
  <2>3. ~(v < w) /\ ~(w < v)
    BY <2>1, <2>2, <1>4, PlacesGrow
  <2> QED
    BY <2>1, <2>3
<1>5. f \in Injection(S, 1..n)
  BY <1>3, <1>4 DEF Injection, IsInjective
<1>6. IsFiniteSet(1..n) /\ Cardinality(1..n) = n
  BY <1>2, FS_Interval
<1>7. f \in Surjection(S, 1..n)
  BY <1>5, <1>6, FS_Injection
<1>8. \A i \in 1..n : \E w \in S : Place(ws, w) = i
  BY <1>7 DEF Surjection
<1>9. n <= Len(queue)
  <2>1. CASE n = 0
    BY <2>1
  <2>2. CASE n # 0
    <3>1. PICK w \in S : Place(ws, w) = n
      BY <1>8, <2>2, <1>2
    <3> QED
      BY <3>1 DEF Served
  <2> QED
    BY <2>1, <2>2
<1> QED
  BY <1>1, <1>2, <1>3, <1>4, <1>8, <1>9

\* What assignNextTask called for the workers of ws amounts to: the workers of S
\* get the tasks f, which leave the queue.
Assigned(ws, S, f) ==
  /\ \A v, w \in S : f[v] = f[w] => v = w
  /\ \A w \in S : f[w] \notin Queued'
  /\ Queued = Queued' \cup {f[w] : w \in S}
  /\ inProgress' = inProgress \cup {f[w] : w \in S}
  /\ executing' = executing \cup {<<w, f[w]>> : w \in S}
  /\ status' = [w \in Workers |-> IF w \in S THEN "working"
                                  ELSE IF w \in ws THEN "idle" ELSE status[w]]
  /\ currentTask' = [w \in Workers |-> IF w \in S THEN f[w] ELSE currentTask[w]]
  /\ UNCHANGED <<completed, failed, retries>>

\* What is left of a sequence without repetitions when its first n members go.
Distinct(q) == \A i, j \in DOMAIN q : q[i] = q[j] => i = j

CutAfter(q, n, r) ==
  /\ r \in Seq(Tasks) /\ Distinct(r)
  /\ \A i \in 1..n : q[i] \in Tasks
  /\ \A i \in 1..n, j \in DOMAIN r : q[i] # r[j]
  /\ {q[i] : i \in DOMAIN q} = {r[j] : j \in DOMAIN r} \cup {q[i] : i \in 1..n}

LEMMA SeqCut ==
  ASSUME NEW q \in Seq(Tasks), Distinct(q), NEW n \in Nat, n <= Len(q),
         NEW r, r = SubSeq(q, n + 1, Len(q))
  PROVE  CutAfter(q, n, r)
<1>1. /\ Len(q) \in Nat /\ DOMAIN q = 1..Len(q)
      /\ \A i \in 1..Len(q) : q[i] \in Tasks
  BY LenProperties, ElementOfSeq
<1>2. /\ r \in Seq(Tasks)
      /\ Len(r) = IF n + 1 <= Len(q) THEN Len(q) - (n + 1) + 1 ELSE 0
      /\ \A i \in 1..Len(q) - (n + 1) + 1 : r[i] = q[(n + 1) + i - 1]
  <2>1. \A i \in n + 1 .. Len(q) : q[i] \in Tasks
    BY <1>1
  <2>2. n + 1 \in Int /\ Len(q) \in Int
    BY <1>1
  <2> QED
    BY <2>1, <2>2, SubSeqProperties
<1>3. Len(r) = Len(q) - n
  <2>1. CASE n + 1 <= Len(q)
    BY <1>1, <1>2, <2>1
  <2>2. CASE ~(n + 1 <= Len(q))
    <3>1. PICK m \in Nat : m = Len(q)
      BY <1>1
    <3>2. m = n
      BY <2>2, <3>1
    <3> QED
      BY <1>2, <2>2, <3>1, <3>2
  <2> QED
    BY <2>1, <2>2
<1>4. DOMAIN r = 1..Len(q) - n
  BY <1>2, <1>3, LenProperties
<1>5. \A j \in DOMAIN r : n + j \in DOMAIN q /\ r[j] = q[n + j]
  BY <1>1, <1>2, <1>4
<1>6. Distinct(r)
  <2>1. \A i, j \in DOMAIN r : n + i = n + j => i = j
    BY <1>1, <1>4
  <2> QED
    BY <1>5, <2>1 DEF Distinct
<1>7. \A i \in 1..n, j \in DOMAIN r : i \in DOMAIN q /\ i # n + j
  BY <1>1, <1>4
<1>8. \A i \in 1..n, j \in DOMAIN r : q[i] # r[j]
  BY <1>5, <1>7 DEF Distinct
<1>9. \A i \in 1..n : i \in DOMAIN q
  BY <1>1
<1>10. ASSUME NEW i \in DOMAIN q, i \notin 1..n
       PROVE  i - n \in DOMAIN r /\ r[i - n] = q[i]
  <2>1. i - n \in DOMAIN r /\ n + (i - n) = i
    BY <1>1, <1>4, <1>10
  <2> QED
    BY <2>1, <1>5
<1>11. {q[i] : i \in DOMAIN q} = {r[j] : j \in DOMAIN r} \cup {q[i] : i \in 1..n}
  <2>1. ASSUME NEW i \in DOMAIN q
        PROVE  q[i] \in {r[j] : j \in DOMAIN r} \cup {q[k] : k \in 1..n}
    BY <1>10, Zenon
  <2>2. \A j \in DOMAIN r : r[j] \in {q[i] : i \in DOMAIN q}
    BY <1>5, Zenon
  <2>3. \A i \in 1..n : q[i] \in {q[k] : k \in DOMAIN q}
    BY <1>9, Zenon
  <2> QED
    BY <2>1, <2>2, <2>3, Zenon
<1>12. \A i \in 1..n : q[i] \in Tasks
  BY <1>1, <1>9
<1> QED
  BY <1>2, <1>6, <1>8, <1>11, <1>12, Zenon DEF CutAfter

\* A new last member.
Extended(q, t, r) ==
  /\ r \in Seq(Tasks) /\ Distinct(r) /\ r # <<>>
  /\ {r[j] : j \in DOMAIN r} = {q[i] : i \in DOMAIN q} \cup {t}

LEMMA SeqExtended ==
  ASSUME NEW q \in Seq(Tasks), Distinct(q), NEW t \in Tasks,
         \A i \in DOMAIN q : q[i] # t, NEW r, r = Append(q, t)
  PROVE  Extended(q, t, r)
<1>1. PICK m \in Nat : m = Len(q) /\ DOMAIN q = 1..m
  BY LenProperties
<1>2. /\ r \in Seq(Tasks) /\ r # <<>> /\ Len(r) = m + 1
      /\ \A i \in 1..m : r[i] = q[i]
      /\ r[m + 1] = t
  BY <1>1, AppendProperties
<1>3. DOMAIN r = 1..m + 1
  BY <1>2, LenProperties
<1>4. /\ \A i \in DOMAIN r : i = m + 1 \/ i \in DOMAIN q
      /\ \A i \in DOMAIN q : i \in DOMAIN r
      /\ m + 1 \in DOMAIN r
  BY <1>1, <1>3
<1>5. \A i \in DOMAIN q : r[i] = q[i]
  BY <1>1, <1>2
<1>6. Distinct(r)
  BY <1>2, <1>4, <1>5 DEF Distinct
<1>7. {r[j] : j \in DOMAIN r} = {q[i] : i \in DOMAIN q} \cup {t}
  BY <1>2, <1>4, <1>5
<1> QED
  BY <1>2, <1>6, <1>7 DEF Extended

LEMMA AssignFacts ==
  ASSUME QueueTyped, Distinct(queue), NEW ws \in SUBSET Workers, AssignNextTask(ws)
  PROVE  /\ queue' \in Seq(Tasks) /\ Distinct(queue)'
         /\ \E S \in SUBSET ws : \E f \in [S -> Tasks] : Assigned(ws, S, f)
<1> DEFINE S == Served(ws)
           n == Cardinality(S)
           f == [w \in S |-> queue[Place(ws, w)]]
<1>1. queue \in Seq(Tasks)
  BY DEF QueueTyped
<1>2. /\ n \in Nat /\ n <= Len(queue)
      /\ S \subseteq ws
      /\ \A w \in S : Place(ws, w) \in 1..n
      /\ \A v, w \in S : Place(ws, v) = Place(ws, w) => v = w
      /\ \A i \in 1..n : \E w \in S : Place(ws, w) = i
  BY <1>1, ServedPlaces
<1>3. /\ queue' = SubSeq(queue, n + 1, Len(queue))
      /\ inProgress' = inProgress \cup {queue[i] : i \in 1..n}
      /\ UNCHANGED <<completed, failed, retries>>
      /\ executing' = executing \cup {<<w, queue[Place(ws, w)]>> : w \in S}
      /\ status' = [w \in Workers |-> IF w \in S THEN "working"
                                      ELSE IF w \in ws THEN "idle" ELSE status[w]]
      /\ currentTask' = [w \in Workers |-> IF w \in S THEN queue[Place(ws, w)]
                                           ELSE currentTask[w]]
  BY DEF AssignNextTask, Dequeue
<1> HIDE DEF S
<1>4. /\ queue' \in Seq(Tasks) /\ Distinct(queue)'
      /\ \A i \in 1..n : queue[i] \in Tasks /\ queue[i] \notin Queued'
      /\ Queued = Queued' \cup {queue[i] : i \in 1..n}
  <2>0. PICK r : r = SubSeq(queue, n + 1, Len(queue))
    OBVIOUS
  <2>2. CutAfter(queue, n, r)
    <3> HIDE DEF n
    <3> QED
      BY <1>1, <1>2, <2>0, SeqCut
  <2>3. queue' = r
    BY <1>3, <2>0
  <2>4. Queued' = {r[j] : j \in DOMAIN r}
    BY <2>3 DEF Queued
  <2> QED
    BY <2>2, <2>3, <2>4 DEF Queued, CutAfter
<1>5. {queue[i] : i \in 1..n} = {f[w] : w \in S}
  BY <1>2
<1>6. f \in [S -> Tasks]
  BY <1>2, <1>4
<1>7. \A v, w \in S : f[v] = f[w] => v = w
  <2>1. \A i, j \in 1..n : queue[i] = queue[j] => i = j
    BY <1>1, <1>2, LenProperties DEF Distinct
  <2> QED
    BY <2>1, <1>2
<1>8. \A w \in S : f[w] \notin Queued'
  BY <1>2, <1>4
<1>9. executing' = executing \cup {<<w, f[w]>> : w \in S}
  BY <1>3
<1>10. currentTask' = [w \in Workers |-> IF w \in S THEN f[w] ELSE currentTask[w]]
  BY <1>3
<1>11. Assigned(ws, S, f)
  BY <1>3, <1>4, <1>5, <1>7, <1>8, <1>9, <1>10 DEF Assigned
<1> QED
  BY <1>2, <1>4, <1>6, <1>11

\* Tasks handed to idle workers keep every task in its place and every worker
\* at one task, and lose nothing.
LEMMA AssignKeepsPlaces ==
  ASSUME TasksPlaced, NEW ws \in SUBSET Workers, \A w \in ws : status[w] = "idle",
         AssignNextTask(ws)
  PROVE  /\ TasksPlaced'
         /\ Known \subseteq Known'
         /\ Queued' \cup inProgress' = Queued \cup inProgress
         /\ completed' = completed /\ failed' = failed
         /\ \A w \in Workers \ ws : status'[w] = status[w]
         /\ ws = {} => executing' = executing /\ inProgress' = inProgress
                       /\ Queued' = Queued /\ status' = status
         /\ executing \subseteq executing'
         /\ ws # {} /\ queue # <<>> => executing' # {}
<1>1. QueueTyped /\ WorkersTyped /\ OnePlaceEach /\ OneTaskPerWorker /\ Distinct(queue)
  BY DEF TasksPlaced, OnePlaceEach, Distinct
<1>2. queue' \in Seq(Tasks) /\ Distinct(queue)'
  BY <1>1, AssignFacts
<1>3. PICK S \in SUBSET ws : \E f \in [S -> Tasks] : Assigned(ws, S, f)
  BY <1>1, AssignFacts
<1>4. PICK f \in [S -> Tasks] : Assigned(ws, S, f)
  BY <1>3
<1>5. QueueTyped'
  BY <1>1, <1>2, <1>4 DEF QueueTyped, Assigned
<1>6. WorkersTyped'
  BY <1>1, <1>4 DEF WorkersTyped, Assigned
<1>7. OnePlaceEach'
  <2>1. Queued' \cap (inProgress' \cup completed' \cup failed') = {}
    BY <1>1, <1>4 DEF OnePlaceEach, Assigned
  <2>2. inProgress' \cap (completed' \cup failed') = {}
    BY <1>1, <1>4 DEF OnePlaceEach, Assigned
  <2>3. completed' \cap failed' = {}
    BY <1>1, <1>4 DEF OnePlaceEach, Assigned
  <2> QED
    BY <1>2, <2>1, <2>2, <2>3 DEF OnePlaceEach, Distinct
<1>8. OneTaskPerWorker'
  <2>1. \A w \in S, t \in Tasks : <<w, t>> \notin executing
    BY <1>1 DEF OneTaskPerWorker
  <2>2. \A w \in S : f[w] \notin inProgress
    BY <1>1, <1>4 DEF OnePlaceEach, Assigned
  <2>3. ASSUME NEW a \in executing', NEW b \in executing', a[1] = b[1] \/ a[2] = b[2]
        PROVE  a = b
    <3>1. /\ a \in executing \/ \E w \in S : a = <<w, f[w]>>
          /\ b \in executing \/ \E w \in S : b = <<w, f[w]>>
      BY <1>4 DEF Assigned
    <3>2. \A e \in executing : e = <<e[1], e[2]>> /\ e[2] \in Tasks /\ e[2] \in inProgress
      BY <1>1 DEF WorkersTyped, OneTaskPerWorker
    <3>3. CASE a \in executing /\ b \in executing
      BY <3>3, <2>3, <1>1 DEF OneTaskPerWorker
    <3>4. CASE \E v, w \in S : a = <<v, f[v]>> /\ b = <<w, f[w]>>
      BY <3>4, <2>3, <1>4 DEF Assigned
    <3>5. CASE a \in executing /\ \E w \in S : b = <<w, f[w]>>
      BY <3>5, <3>2, <2>1, <2>2, <2>3
    <3>6. CASE b \in executing /\ \E w \in S : a = <<w, f[w]>>
      BY <3>6, <3>2, <2>1, <2>2, <2>3
    <3> QED
      BY <3>1, <3>3, <3>4, <3>5, <3>6
  <2>4. inProgress' = {e[2] : e \in executing'}
    BY <1>1, <1>4 DEF OneTaskPerWorker, Assigned
  <2>5. ASSUME NEW w \in Workers
        PROVE  status'[w] = "working" <=> \E t \in Tasks : <<w, t>> \in executing'
    <3>1. CASE w \in S
      <4>1. status'[w] = "working" /\ <<w, f[w]>> \in executing' /\ f[w] \in Tasks
        BY <3>1, <1>4 DEF Assigned
      <4> QED
        BY <4>1
    <3>2. CASE w \notin S
      <4>1. \A t : <<w, t>> \in executing' <=> <<w, t>> \in executing
        BY <3>2, <1>4 DEF Assigned
      <4>2. status'[w] = "working" <=> status[w] = "working"
        BY <3>2, <1>4 DEF Assigned
      <4> QED
        BY <4>1, <4>2, <1>1 DEF OneTaskPerWorker
    <3> QED
      BY <3>1, <3>2
  <2>6. ASSUME NEW e \in executing'
        PROVE  currentTask'[e[1]] = e[2]
    <3>1. CASE e \in executing
      <4>1. e[1] \in Workers /\ e[2] \in Tasks /\ e = <<e[1], e[2]>>
        BY <3>1, <1>1 DEF WorkersTyped
      <4>2. e[1] \notin S
        BY <4>1, <3>1, <2>1
      <4> QED
        BY <3>1, <4>1, <4>2, <1>1, <1>4 DEF Assigned, OneTaskPerWorker
    <3>2. CASE \E w \in S : e = <<w, f[w]>>
      BY <3>2, <1>4 DEF Assigned
    <3> QED
      BY <3>1, <3>2, <1>4 DEF Assigned
  <2> QED
    BY <2>3, <2>4, <2>5, <2>6 DEF OneTaskPerWorker
<1>9. Known \subseteq Known' /\ Queued' \cup inProgress' = Queued \cup inProgress
  BY <1>4 DEF Assigned, Known
<1>10. \A w \in Workers \ ws : status'[w] = status[w]
  BY <1>4 DEF Assigned
<1>11. ws = {} => executing' = executing /\ inProgress' = inProgress
                  /\ Queued' = Queued /\ status' = status
  BY <1>1, <1>4 DEF Assigned, WorkersTyped
<1>12. executing \subseteq executing'
  BY <1>4 DEF Assigned
<1>13. ws # {} /\ queue # <<>> => executing' # {}
  <2>1. SUFFICES ASSUME ws # {}, queue # <<>> PROVE executing' # {}
    OBVIOUS
  <2>2. PICK w \in ws : Place(ws, w) = 1
    BY <2>1, SomebodyIsFirst
  <2>3. Len(queue) \in Nat \ {0}
    BY <1>1, <2>1, EmptySeq DEF QueueTyped
  <2>4. w \in Served(ws)
    BY <2>2, <2>3 DEF Served
  <2> QED
    BY <2>4 DEF AssignNextTask
<1> QED
  BY <1>4, <1>5, <1>6, <1>7, <1>8, <1>9, <1>10, <1>11, <1>12, <1>13
  DEF TasksPlaced, Assigned

-----------------------------------------------------------------------------
(* The steps                                                                 *)

StepOK == IInv' /\ (Restarts \/ Known \subseteq Known')

LEMMA InitIInv == Init => IInv
<1> SUFFICES ASSUME Init PROVE IInv
  OBVIOUS
<1>1. queue \in Seq(Tasks) /\ queue = <<>>
  BY EmptySeq DEF Init, QueueInit
<1>2. QueueTyped /\ WorkersTyped
  BY <1>1 DEF Init, QueueInit, QueueTyped, WorkersTyped
<1>3. OnePlaceEach /\ OneTaskPerWorker
  BY <1>1, EmptyQueue DEF Init, QueueInit, OnePlaceEach, OneTaskPerWorker, Queued
<1>4. CallsTyped
  <2>1. 0 \in 0..MaxCalls /\ 0 \in 0..1
    BY CallAssumption
  <2>2. call \in [Callers -> Kinds \cup {"free", "mutating", "waiting", "stopping"}]
    BY DEF Init
  <2>3. calls \in [Callers -> 0..MaxCalls]
    BY <2>1 DEF Init
  <2> QED
    BY <2>1, <2>2, <2>3 DEF Init, CallsTyped
<1> QED
  BY <1>2, <1>3, <1>4
  DEF Init, QueueInit, IInv, TasksPlaced, CallbackIdle, RestsUnlessLoaded, StopWaits,
      CompletesOnce, WorkGoesOn, RunsForWork

\* The places depend on the queue and the workers only.
LEMMA PlacesFrame ==
  ASSUME TasksPlaced, UNCHANGED <<queueVars, workerVars>>
  PROVE  TasksPlaced' /\ Known' = Known /\ Drained' = Drained
<1>1. /\ queue' = queue /\ inProgress' = inProgress /\ completed' = completed
      /\ failed' = failed /\ retries' = retries
      /\ status' = status /\ currentTask' = currentTask /\ executing' = executing
  BY DEF queueVars, workerVars
<1>2. Queued' = Queued
  BY <1>1 DEF Queued
<1>3. QueueTyped' /\ WorkersTyped'
  BY <1>1 DEF TasksPlaced, QueueTyped, WorkersTyped
<1>4. OnePlaceEach'
  BY <1>1, <1>2 DEF TasksPlaced, OnePlaceEach
<1>5. OneTaskPerWorker'
  BY <1>1 DEF TasksPlaced, OneTaskPerWorker
<1> QED
  BY <1>1, <1>2, <1>3, <1>4, <1>5 DEF TasksPlaced, Known, Drained

LEMMA StartStep == ~StopDuringStart /\ IInv /\ Start => StepOK
<1> SUFFICES ASSUME ~StopDuringStart, IInv, Start PROVE StepOK
  OBVIOUS
<1>1. TasksPlaced' /\ Known' = Known /\ Drained' = Drained
  BY PlacesFrame DEF IInv, Start
<1> QED
  BY <1>1 DEF IInv, Start, StepOK, CallsTyped, CallbackIdle, RestsUnlessLoaded,
      StopWaits, CompletesOnce, WorkGoesOn, RunsForWork, queueVars, workerVars, callVars

LEMMA LoaderFailsStep == IInv /\ LoaderFails => StepOK
<1> SUFFICES ASSUME IInv, LoaderFails PROVE StepOK
  OBVIOUS
<1>1. TasksPlaced' /\ Known' = Known /\ Drained' = Drained
  BY PlacesFrame DEF IInv, LoaderFails
<1> QED
  BY <1>1 DEF IInv, LoaderFails, StepOK, CallsTyped, CallbackIdle, RestsUnlessLoaded,
      StopWaits, CompletesOnce, WorkGoesOn, RunsForWork, queueVars, workerVars, callVars

\* Calls that touch neither the queue nor a worker.
QuietCall(c) ==
  \/ \E kind \in Kinds : Pause(c, kind)
  \/ PauseResolves(c) \/ WaitForCompletion(c) \/ Stop(c)

LEMMA QuietCalls ==
  ASSUME IInv, ~StopDuringStart, NEW c \in Callers, QuietCall(c)
  PROVE  StepOK
<1> USE CallAssumption DEF IInv, StepOK, CallsTyped, CallbackIdle, RestsUnlessLoaded,
      StopWaits, CompletesOnce, WorkGoesOn, RunsForWork, queueVars, workerVars, poolVars
<1>1. ASSUME NEW kind \in Kinds, Pause(c, kind) PROVE StepOK
  <2>1. TasksPlaced' /\ Known' = Known /\ Drained' = Drained
    BY <1>1, PlacesFrame DEF Pause
  <2> QED
    BY <1>1, <2>1 DEF Pause, Begin, Kinds
<1>2. CASE PauseResolves(c)
  <2>1. TasksPlaced' /\ Known' = Known /\ Drained' = Drained
    BY <1>2, PlacesFrame DEF PauseResolves
  <2> QED
    BY <1>2, <2>1 DEF PauseResolves, Kinds
<1>3. CASE WaitForCompletion(c)
  <2>1. TasksPlaced' /\ Known' = Known /\ Drained' = Drained
    BY <1>3, PlacesFrame DEF WaitForCompletion
  <2> QED
    BY <1>3, <2>1 DEF WaitForCompletion, Begin, Kinds
<1>4. CASE Stop(c)
  <2>1. TasksPlaced' /\ Known' = Known /\ Drained' = Drained
    BY <1>4, PlacesFrame DEF Stop
  <2>2. CallsTyped'
    <3>1. calls' \in [Callers -> 0..MaxCalls]
      BY <1>4 DEF Stop, Begin
    <3>2. call' \in [Callers -> Kinds \cup {"free", "mutating", "waiting", "stopping"}]
      BY <1>4 DEF Stop
    <3>3. awaited' \subseteq Workers /\ running' = FALSE /\ stopped' = TRUE
      BY <1>4 DEF Stop
    <3> QED
      BY <1>4, <3>1, <3>2, <3>3 DEF Stop
  <2>3. StopWaits'
    <3>1. ~running' /\ loader' # "loading" /\ status' = status
      BY <1>4 DEF Stop
    <3>2. \A w \in Workers : status[w] = "working" => w \in awaited'
      BY <1>4 DEF Stop, Idle
    <3> QED
      BY <3>1, <3>2 DEF StopWaits
  <2>4. CallbackIdle' /\ RestsUnlessLoaded' /\ CompletesOnce' /\ WorkGoesOn' /\ RunsForWork'
    BY <1>4, <2>1 DEF Stop
  <2> QED
    BY <2>1, <2>2, <2>3, <2>4
<1> QED
  BY <1>1, <1>2, <1>3, <1>4 DEF QuietCall

LEMMA StopSeesIdleStep ==
  ASSUME IInv, NEW w \in Workers, StopSeesIdle(w)
  PROVE  StepOK
<1>1. TasksPlaced' /\ Known' = Known /\ Drained' = Drained
  BY PlacesFrame DEF IInv, StopSeesIdle
<1> QED
  BY <1>1 DEF IInv, StopSeesIdle, Idle, StepOK, CallsTyped, CallbackIdle,
      RestsUnlessLoaded, StopWaits, CompletesOnce, WorkGoesOn, RunsForWork,
      queueVars, workerVars, poolVars

\* When stop() resolves nobody works, so its reset of the workers changes nothing.
LEMMA StopResolvesStep ==
  ASSUME IInv, NEW c \in Callers, StopResolves(c)
  PROVE  StepOK
<1>1. status' = status
  BY DEF IInv, StopResolves, StopWaits, TasksPlaced, WorkersTyped
<1>2. TasksPlaced' /\ Known' = Known /\ Drained' = Drained
  BY <1>1, PlacesFrame DEF IInv, StopResolves, workerVars
<1> QED
  BY <1>1, <1>2 DEF IInv, StopResolves, StepOK, CallsTyped, CallbackIdle,
      RestsUnlessLoaded, StopWaits, CompletesOnce, WorkGoesOn, RunsForWork,
      queueVars, workerVars, poolVars, Kinds

-----------------------------------------------------------------------------
(* The end of a task                                                         *)

\* Wherever the task goes, its worker is idle and nobody else is touched.
LEMMA EndKeepsPlaces ==
  ASSUME TasksPlaced, NEW w \in Workers, NEW t \in Tasks,
         WorkerFreed(w, t), Complete(t) \/ Fail(t)
  PROVE  /\ TasksPlaced' /\ Known \subseteq Known'
         /\ t \in inProgress
         /\ status' = [status EXCEPT ![w] = "idle"]
         /\ ~Drained
         /\ Drained' => DrainedBy(t)
         /\ Drained' /\ Fail(t) => ~WillRetry(t)
         /\ DrainedBy(t) /\ (Complete(t) \/ ~WillRetry(t)) => Drained'
<1>1. /\ QueueTyped /\ WorkersTyped /\ OnePlaceEach /\ OneTaskPerWorker
      /\ <<w, t>> \in executing
      /\ executing' = executing \ {<<w, t>>}
      /\ inProgress' = inProgress \ {t}
      /\ status' = [status EXCEPT ![w] = "idle"]
      /\ currentTask' = [currentTask EXCEPT ![w] = NoTask]
  BY DEF TasksPlaced, WorkerFreed, Complete, Fail
<1>2. t \in inProgress
  BY <1>1 DEF OneTaskPerWorker
<1>3. t \notin Queued /\ t \notin completed /\ t \notin failed
  BY <1>1, <1>2 DEF OnePlaceEach
<1>4. \/ /\ queue' = queue /\ Queued' = Queued
         /\ completed' = completed \cup {t} /\ failed' = failed /\ retries' = retries
         /\ Complete(t)
      \/ /\ queue' = queue /\ Queued' = Queued
         /\ completed' = completed /\ failed' = failed \cup {t}
         /\ retries' \in [Tasks -> Nat]
         /\ Fail(t) /\ ~WillRetry(t)
      \/ /\ queue' \in Seq(Tasks) /\ Distinct(queue)' /\ Queued' = Queued \cup {t}
         /\ queue' # <<>>
         /\ completed' = completed /\ failed' = failed
         /\ retries' \in [Tasks -> Nat]
         /\ Fail(t) /\ WillRetry(t)
  <2>1. CASE Complete(t)
    BY <2>1 DEF Complete, Queued
  <2>2. CASE Fail(t)
    <3>1. retries' \in [Tasks -> Nat]
      BY <1>1, <2>2 DEF Fail, QueueTyped
    <3>2. CASE ~WillRetry(t)
      BY <2>2, <3>1, <3>2 DEF Fail, Queued
    <3>3. CASE WillRetry(t)
      <4>1. queue' = Append(queue, t) /\ completed' = completed /\ failed' = failed
        BY <2>2, <3>3 DEF Fail
      <4>2. queue \in Seq(Tasks) /\ Distinct(queue)
        BY <1>1 DEF QueueTyped, OnePlaceEach, Distinct
      <4>3. \A i \in DOMAIN queue : queue[i] # t
        BY <1>3 DEF Queued
      <4>4. Extended(queue, t, queue')
        BY <4>1, <4>2, <4>3, SeqExtended
      <4> QED
        BY <2>2, <3>1, <3>3, <4>1, <4>4 DEF Extended, Queued, Distinct
    <3> QED
      BY <3>2, <3>3
  <2> QED
    BY <2>1, <2>2
<1>5. QueueTyped'
  BY <1>1, <1>4 DEF QueueTyped
<1>6. WorkersTyped'
  BY <1>1 DEF WorkersTyped
<1>7. OnePlaceEach'
  <2>1. Distinct(queue)'
    BY <1>1, <1>4 DEF OnePlaceEach, Distinct
  <2>2. Queued' \cap (inProgress' \cup completed' \cup failed') = {}
    BY <1>1, <1>2, <1>3, <1>4 DEF OnePlaceEach
  <2>3. inProgress' \cap (completed' \cup failed') = {}
    BY <1>1, <1>4 DEF OnePlaceEach
  <2>4. completed' \cap failed' = {}
    BY <1>1, <1>3, <1>4 DEF OnePlaceEach
  <2> QED
    BY <2>1, <2>2, <2>3, <2>4 DEF OnePlaceEach, Distinct
<1>8. OneTaskPerWorker'
  <2>1. \A v \in Workers, u \in Tasks :
           <<v, u>> \in executing' <=> <<v, u>> \in executing /\ v # w
    BY <1>1 DEF OneTaskPerWorker
  <2>2. \A a, b \in executing' : (a[1] = b[1] \/ a[2] = b[2]) => a = b
    BY <1>1 DEF OneTaskPerWorker
  <2>3. inProgress' = {e[2] : e \in executing'}
    BY <1>1 DEF OneTaskPerWorker
  <2>4. \A v \in Workers :
           status'[v] = "working" <=> \E u \in Tasks : <<v, u>> \in executing'
    BY <1>1, <2>1 DEF OneTaskPerWorker, WorkersTyped
  <2>5. \A e \in executing' : currentTask'[e[1]] = e[2]
    <3>1. \A e \in executing' : e \in executing /\ e[1] \in Workers /\ e[1] # w
      BY <1>1, <2>1 DEF WorkersTyped
    <3> QED
      BY <1>1, <3>1 DEF OneTaskPerWorker, WorkersTyped
  <2> QED
    BY <2>2, <2>3, <2>4, <2>5 DEF OneTaskPerWorker
<1>9. Known \subseteq Known'
  BY <1>1, <1>4 DEF Known
<1>10. /\ ~Drained
       /\ Drained' => DrainedBy(t)
       /\ DrainedBy(t) /\ (Complete(t) \/ ~WillRetry(t)) => Drained'
  <2>1. ~Drained /\ (Drained' => DrainedBy(t))
    BY <1>1, <1>2, <1>4 DEF Drained, DrainedBy
  <2>2. Complete(t) => queue' = queue
    BY DEF Complete
  <2>3. ~WillRetry(t) => queue' = queue
    BY <1>4
  <2> QED
    BY <1>1, <2>1, <2>2, <2>3 DEF Drained, DrainedBy
<1>11. Drained' /\ Fail(t) => ~WillRetry(t)
  BY <1>4 DEF Drained, Complete, Fail
<1> QED
  BY <1>1, <1>2, <1>5, <1>6, <1>7, <1>8, <1>9, <1>10, <1>11 DEF TasksPlaced

\* What the listeners do when a task has ended: `left` says it was the last.
LEMMA EndStep ==
  ASSUME IInv, NEW w \in Workers, NEW t \in Tasks,
         WorkerFreed(w, t), Complete(t) \/ Fail(t), NEW left \in BOOLEAN,
         left <=> Drained', QueueDrained(left),
         callback' = w, UNCHANGED threw
  PROVE  StepOK
<1>1. /\ TasksPlaced' /\ Known \subseteq Known'
      /\ status' = [status EXCEPT ![w] = "idle"]
      /\ ~Drained
  BY EndKeepsPlaces DEF IInv
<1>2. loader = "loaded" /\ completions = 0
  BY <1>1 DEF IInv, RestsUnlessLoaded, WorkerFreed, CompletesOnce, CallsTyped
<1>3. CallsTyped'
  BY <1>2 DEF IInv, CallsTyped, QueueDrained, Kinds
<1>4. CallbackIdle'
  BY <1>1 DEF IInv, CallbackIdle, TasksPlaced, WorkersTyped
<1>5. StopWaits'
  <2>1. \A v \in Workers : status'[v] = "working" => status[v] = "working"
    BY <1>1 DEF IInv, TasksPlaced, WorkersTyped
  <2>2. \A c \in Callers : call'[c] = "stopping" => call[c] = "stopping"
    BY DEF QueueDrained
  <2>3. awaited' = awaited /\ loader' = loader /\ (running' => running)
    BY DEF QueueDrained
  <2> QED
    BY <2>1, <2>2, <2>3 DEF IInv, StopWaits
<1>6. /\ loader' = loader
      /\ running' = (running /\ ~left)
      /\ completions' = IF left THEN completions + 1 ELSE completions
  BY DEF QueueDrained
<1>7. RestsUnlessLoaded' /\ CompletesOnce' /\ RunsForWork'
  <2>1. CASE left
    <3>1. Drained' /\ ~running'
      BY <2>1, <1>6
    <3>2. completions' = 1
      BY <2>1, <1>2, <1>6
    <3> QED
      BY <3>1, <3>2, <1>2, <1>6 DEF RestsUnlessLoaded, CompletesOnce, RunsForWork
  <2>2. CASE ~left
    <3>1. ~Drained' /\ completions' = 0
      BY <2>2, <1>2, <1>6
    <3> QED
      BY <3>1, <1>2, <1>6 DEF RestsUnlessLoaded, CompletesOnce, RunsForWork
  <2> QED
    BY <2>1, <2>2
<1>8. WorkGoesOn'
  BY WorkerAssumption DEF WorkGoesOn, Workers
<1> QED
  BY <1>1, <1>3, <1>4, <1>5, <1>7, <1>8 DEF IInv, StepOK

LEMMA EndOfTaskStep ==
  ASSUME IInv, NEW w \in Workers, NEW t \in Tasks, EndOfTask(w, t)
  PROVE  StepOK
<1>1. CASE TaskSucceeds(w, t)
  <2>1. WorkerFreed(w, t) /\ Complete(t)
    BY <1>1 DEF TaskSucceeds
  <2>2. DrainedBy(t) <=> Drained'
    BY <2>1, EndKeepsPlaces DEF IInv
  <2>3. QueueDrained(DrainedBy(t)) /\ callback' = w /\ UNCHANGED threw
    BY <1>1 DEF TaskSucceeds
  <2>4. PICK left \in BOOLEAN : left = DrainedBy(t)
    BY DEF DrainedBy
  <2> QED
    BY <2>1, <2>2, <2>3, <2>4, EndStep
<1>2. CASE TaskFails(w, t)
  <2>1. WorkerFreed(w, t) /\ Fail(t)
    BY <1>2 DEF TaskFails
  <2>2. ~WillRetry(t) /\ DrainedBy(t) <=> Drained'
    BY <2>1, EndKeepsPlaces DEF IInv
  <2>3. QueueDrained(~WillRetry(t) /\ DrainedBy(t)) /\ callback' = w /\ UNCHANGED threw
    BY <1>2 DEF TaskFails
  <2>4. PICK left \in BOOLEAN : left = (~WillRetry(t) /\ DrainedBy(t))
    BY DEF DrainedBy
  <2> QED
    BY <2>1, <2>2, <2>3, <2>4, EndStep
<1>3. CASE OnCompleteThrows(w, t)
  <2>1. /\ TasksPlaced' /\ Known \subseteq Known' /\ ~Drained
        /\ status' = [status EXCEPT ![w] = "idle"]
    BY <1>3, EndKeepsPlaces DEF IInv, OnCompleteThrows
  <2>2. Drained'
    BY <1>3, EndKeepsPlaces DEF IInv, OnCompleteThrows
  <2>3. /\ loader = "loaded" /\ completions = 0
        /\ loader' = loader /\ completions' = 1 /\ running' = FALSE /\ threw' = TRUE
        /\ callback = NoWorker
    BY <1>3, <2>1 DEF IInv, RestsUnlessLoaded, WorkerFreed, CompletesOnce, CallsTyped,
       OnCompleteThrows
  <2>4. CallsTyped'
    <3>1. running' \in BOOLEAN /\ threw' \in BOOLEAN /\ completions' \in Nat
      BY <2>3
    <3>2. UNCHANGED <<paused, stopped, loader, loads, call, calls, awaited, pauseTimers, config, callback>>
      BY <1>3 DEF OnCompleteThrows, callVars
    <3> QED
      BY <3>1, <3>2 DEF IInv, CallsTyped
  <2>5. StopWaits'
    <3>1. \A v \in Workers : status'[v] = "working" => status[v] = "working"
      BY <2>1 DEF IInv, TasksPlaced, WorkersTyped
    <3>2. call' = call /\ awaited' = awaited
      BY <1>3 DEF OnCompleteThrows, callVars
    <3> QED
      BY <2>3, <3>1, <3>2 DEF IInv, StopWaits
  <2>6. CallbackIdle'
    BY <1>3, <2>3 DEF CallbackIdle, OnCompleteThrows
  <2> QED
    BY <2>1, <2>2, <2>3, <2>4, <2>5, <2>6
    DEF IInv, StepOK, RestsUnlessLoaded, CompletesOnce, WorkGoesOn, RunsForWork
<1> QED
  BY <1>1, <1>2, <1>3 DEF EndOfTask

\* A callback throws: its worker was idle before and stays so.
LEMMA CallbackThrowsStep == IInv /\ CallbackThrows => StepOK
<1> SUFFICES ASSUME IInv, CallbackThrows PROVE StepOK
  OBVIOUS
<1>1. /\ callback \in Workers /\ callback' = NoWorker /\ threw' = TRUE
      /\ status' = status /\ executing' = executing
      /\ currentTask' = [currentTask EXCEPT ![callback] = NoTask]
      /\ UNCHANGED queueVars
  BY DEF IInv, CallbackThrows, CallbackIdle, CallsTyped, TasksPlaced, WorkersTyped
<1>2. /\ queue' = queue /\ inProgress' = inProgress /\ completed' = completed
      /\ failed' = failed /\ retries' = retries /\ Queued' = Queued
  BY <1>1 DEF queueVars, Queued
<1>3. QueueTyped' /\ OnePlaceEach' /\ Known' = Known /\ Drained' = Drained
  BY <1>2 DEF IInv, TasksPlaced, QueueTyped, OnePlaceEach, Known, Drained
<1>4. WorkersTyped'
  BY <1>1 DEF IInv, TasksPlaced, WorkersTyped
<1>5. OneTaskPerWorker'
  <2>1. \A e \in executing : e = <<e[1], e[2]>> /\ e[1] \in Workers /\ e[2] \in Tasks
    BY DEF IInv, TasksPlaced, WorkersTyped
  <2>2. \A e \in executing : e[1] # callback
    BY <1>1, <2>1 DEF IInv, CallbackIdle, CallbackThrows, TasksPlaced, OneTaskPerWorker
  <2>3. \A e \in executing' : currentTask'[e[1]] = e[2]
    BY <1>1, <2>1, <2>2 DEF IInv, TasksPlaced, OneTaskPerWorker, WorkersTyped
  <2> QED
    BY <1>1, <1>2, <2>3 DEF IInv, TasksPlaced, OneTaskPerWorker
<1>6. UNCHANGED <<poolVars, callVars>>
  BY DEF CallbackThrows
<1>7. CallsTyped' /\ StopWaits'
  BY <1>1, <1>6 DEF IInv, CallsTyped, StopWaits, poolVars, callVars
<1> QED
  BY <1>1, <1>2, <1>3, <1>4, <1>5, <1>6, <1>7
  DEF IInv, StepOK, TasksPlaced, CallbackIdle, RestsUnlessLoaded, CompletesOnce,
      WorkGoesOn, RunsForWork, poolVars

-----------------------------------------------------------------------------
(* Tasks are handed out                                                      *)

\* What stays true when idle workers are given tasks and the callbacks are done:
\* a pool that goes on finds somebody to go on with.
LEMMA AssignStep ==
  ASSUME IInv, NEW ws \in SUBSET Idle, AssignNextTask(ws), callback' = NoWorker,
         UNCHANGED <<running, stopped, loader, loads, completions, threw, awaited>>,
         ~running => ws = {},
         running /\ ~paused' /\ executing = {} /\ queue # <<>> => ws # {},
         \A c \in Callers : call'[c] = "stopping" => call[c] = "stopping",
         CallsTyped'
  PROVE  StepOK
<1>1. /\ TasksPlaced' /\ Known \subseteq Known'
      /\ Queued' \cup inProgress' = Queued \cup inProgress
      /\ completed' = completed /\ failed' = failed
      /\ ws = {} => executing' = executing /\ inProgress' = inProgress
                    /\ Queued' = Queued /\ status' = status
      /\ executing \subseteq executing'
      /\ ws # {} /\ queue # <<>> => executing' # {}
  <2>1. ws \in SUBSET Workers /\ \A w \in ws : status[w] = "idle"
    BY DEF Idle
  <2> QED
    BY <2>1, AssignKeepsPlaces DEF IInv
<1>2. /\ queue = <<>> <=> Queued = {}
      /\ queue' = <<>> <=> Queued' = {}
  BY <1>1, EmptyQueue DEF IInv, TasksPlaced, QueueTyped, Queued
<1>3. Drained' = Drained
  BY <1>1, <1>2 DEF Drained
<1>4. RestsUnlessLoaded'
  BY <1>1, <1>2 DEF IInv, RestsUnlessLoaded
<1>5. StopWaits'
  BY <1>1 DEF IInv, StopWaits
<1>6. WorkGoesOn'
  <2>1. SUFFICES ASSUME running, ~paused', queue' # <<>>, executing' = {}
                 PROVE  FALSE
    BY DEF WorkGoesOn
  <2>2. executing = {} /\ inProgress = {}
    BY <1>1, <2>1 DEF IInv, TasksPlaced, OneTaskPerWorker
  <2>3. queue # <<>>
    BY <2>1, <2>2, <1>2 DEF IInv, RunsForWork, Drained
  <2> QED
    BY <2>1, <2>2, <2>3, <1>1
<1> QED
  BY <1>1, <1>3, <1>4, <1>5, <1>6
  DEF IInv, StepOK, CallbackIdle, CompletesOnce, RunsForWork

LEMMA CallbackReturnsStep == IInv /\ CallbackReturns => StepOK
<1> SUFFICES ASSUME IInv, CallbackReturns PROVE StepOK
  OBVIOUS
<1>1. PICK ws : ws = IF running /\ ~paused THEN {callback} ELSE {}
  OBVIOUS
<1>2. /\ ws \in SUBSET Idle /\ AssignNextTask(ws)
      /\ callback' = NoWorker /\ UNCHANGED <<poolVars, callVars, threw>>
  BY <1>1 DEF IInv, CallbackReturns, CallbackIdle, CallsTyped, Idle
<1>3. CallsTyped'
  BY <1>2 DEF IInv, CallsTyped, poolVars, callVars
<1> QED
  BY <1>1, <1>2, <1>3, AssignStep DEF poolVars, callVars

\* A pool where nobody works has a worker to wake.
LEMMA ResumePoolStep ==
  ASSUME IInv, ResumePool, callback = NoWorker, callback' = NoWorker,
         UNCHANGED <<running, stopped, loader, loads, completions, threw, awaited>>,
         \A c \in Callers : call'[c] = "stopping" => call[c] = "stopping",
         CallsTyped'
  PROVE  StepOK
<1>1. PICK ws : ws = IF running THEN Idle ELSE {}
  OBVIOUS
<1>2. ws \in SUBSET Idle /\ AssignNextTask(ws)
  BY <1>1 DEF ResumePool
<1>3. executing = {} => Idle # {}
  <2>1. SUFFICES ASSUME executing = {} PROVE Idle # {}
    OBVIOUS
  <2>2. 1 \in Workers
    BY WorkerAssumption DEF Workers
  <2>3. status[1] # "working" /\ status[1] \in {"idle", "working"}
    BY <2>1, <2>2 DEF IInv, TasksPlaced, WorkersTyped, OneTaskPerWorker
  <2> QED
    BY <2>2, <2>3 DEF Idle
<1> QED
  BY <1>1, <1>2, <1>3, AssignStep

LEMMA ResumeStep == ~ResumeInCallback /\ IInv /\ Resume => StepOK
<1> SUFFICES ASSUME ~ResumeInCallback, IInv, Resume PROVE StepOK
  OBVIOUS
<1>1. /\ ResumePool /\ callback = NoWorker /\ callback' = NoWorker /\ paused' = FALSE
      /\ UNCHANGED <<running, stopped, loader, loads, completions, callVars, threw>>
  BY DEF Resume, ResumePool
<1>2. CallsTyped'
  BY <1>1 DEF IInv, CallsTyped, callVars
<1> QED
  BY <1>1, <1>2, ResumePoolStep DEF callVars

LEMMA AutoResumeStep == IInv /\ AutoResume => StepOK
<1> SUFFICES ASSUME IInv, AutoResume PROVE StepOK
  OBVIOUS
<1>1. /\ callback = NoWorker /\ callback' = NoWorker
      /\ paused' = FALSE \/ paused' = paused
      /\ pauseTimers > 0 /\ pauseTimers' = pauseTimers - 1
      /\ UNCHANGED <<running, stopped, loader, loads, completions, call, calls, awaited, config, threw>>
  BY DEF AutoResume, ResumePool
<1>2. CallsTyped'
  <2>1. pauseTimers' \in Nat
    BY <1>1 DEF IInv, CallsTyped
  <2>2. paused' \in BOOLEAN
    BY <1>1 DEF IInv, CallsTyped
  <2> QED
    BY <1>1, <2>1, <2>2 DEF IInv, CallsTyped
<1>3. CASE ResumePool
  BY <1>1, <1>2, <1>3, ResumePoolStep
<1>4. CASE UNCHANGED <<paused, queueVars, workerVars>>
  <2>1. TasksPlaced' /\ Known' = Known /\ Drained' = Drained
    BY <1>4, PlacesFrame DEF IInv
  <2> QED
    BY <1>1, <1>2, <1>4, <2>1 DEF IInv, StepOK, CallbackIdle, RestsUnlessLoaded,
      StopWaits, CompletesOnce, WorkGoesOn, RunsForWork, queueVars, workerVars
<1> QED
  BY <1>3, <1>4 DEF AutoResume

LEMMA MutateStep ==
  ASSUME IInv, NEW c \in Callers, Mutate(c)
  PROVE  StepOK
<1>1. /\ callback = NoWorker /\ callback' = NoWorker
      /\ paused' = FALSE \/ paused' = paused
      /\ call' = [call EXCEPT ![c] = "free"]
      /\ config' \in {config, 1 - config}
      /\ UNCHANGED <<running, stopped, loader, loads, completions, calls, awaited, pauseTimers, threw>>
  BY DEF Mutate, ResumePool
<1>2. config' \in 0..1
  BY <1>1 DEF IInv, CallsTyped
<1>3. CallsTyped'
  BY <1>1, <1>2 DEF IInv, CallsTyped
<1>4. \A d \in Callers : call'[d] = "stopping" => call[d] = "stopping"
  BY <1>1 DEF IInv, CallsTyped
<1>5. CASE ResumePool
  BY <1>1, <1>3, <1>4, <1>5, ResumePoolStep
<1>6. CASE UNCHANGED <<paused, queueVars, workerVars>>
  <2>1. TasksPlaced' /\ Known' = Known /\ Drained' = Drained
    BY <1>6, PlacesFrame DEF IInv
  <2> QED
    BY <1>1, <1>3, <1>4, <1>6, <2>1 DEF IInv, StepOK, CallbackIdle, RestsUnlessLoaded,
      StopWaits, CompletesOnce, WorkGoesOn, RunsForWork, queueVars, workerVars
<1> QED
  BY <1>5, <1>6 DEF Mutate

\* A running pool has somebody at work or in a callback, or tasks that wait; so
\* a new task does not wait alone.
LEMMA SubmitTaskStep ==
  ASSUME IInv, NEW t \in Tasks, SubmitTask(t)
  PROVE  StepOK
<1>1. /\ queue' = Append(queue, t)
      /\ UNCHANGED <<inProgress, completed, failed, retries>>
      /\ t \notin Queued /\ t \notin inProgress /\ t \notin completed /\ t \notin failed
      /\ running
      /\ UNCHANGED <<workerVars, poolVars, callVars, callback, threw>>
  BY DEF SubmitTask, Push, Known
<1>2. queue \in Seq(Tasks) /\ Distinct(queue)
  BY DEF IInv, TasksPlaced, QueueTyped, OnePlaceEach, Distinct
<1>3. \A i \in DOMAIN queue : queue[i] # t
  BY <1>1 DEF Queued
<1>4. Extended(queue, t, queue')
  BY <1>1, <1>2, <1>3, SeqExtended
<1>5. queue' \in Seq(Tasks) /\ Distinct(queue)' /\ queue' # <<>> /\ Queued' = Queued \cup {t}
  BY <1>4 DEF Extended, Distinct, Queued
<1>6. QueueTyped' /\ Known \subseteq Known'
  BY <1>1, <1>5 DEF IInv, TasksPlaced, QueueTyped, Known
<1>7. OnePlaceEach'
  BY <1>1, <1>5 DEF IInv, TasksPlaced, OnePlaceEach, Distinct
<1>8. WorkersTyped' /\ OneTaskPerWorker'
  BY <1>1 DEF IInv, TasksPlaced, WorkersTyped, OneTaskPerWorker, workerVars
<1>9. CallsTyped' /\ StopWaits' /\ CallbackIdle'
  BY <1>1 DEF IInv, CallsTyped, StopWaits, CallbackIdle, workerVars, poolVars, callVars
<1>10. completions # 1 /\ loader = "loaded"
  BY <1>1 DEF IInv, CompletesOnce, RestsUnlessLoaded
<1>11. CompletesOnce' /\ RestsUnlessLoaded'
  BY <1>1, <1>10 DEF IInv, CompletesOnce, RestsUnlessLoaded, poolVars
<1>12. WorkGoesOn'
  <2>1. queue # <<>> \/ executing # {}
    BY <1>1 DEF IInv, RunsForWork, Drained, TasksPlaced, OneTaskPerWorker
  <2> QED
    BY <2>1, <1>1 DEF IInv, WorkGoesOn, workerVars, poolVars
<1>13. RunsForWork'
  BY <1>5 DEF RunsForWork, Drained
<1> QED
  BY <1>6, <1>7, <1>8, <1>9, <1>11, <1>12, <1>13 DEF IInv, TasksPlaced, StepOK

\* start() gives the first tasks of the sorted load to the first workers.
FirstTasks(s) ==
  LET n == IF paused THEN 0 ELSE IF MaxConcurrent < Len(s) THEN MaxConcurrent ELSE Len(s)
  IN /\ queue' = SubSeq(s, n + 1, Len(s))
     /\ inProgress' = {s[w] : w \in 1..n}
     /\ executing' = {<<w, s[w]>> : w \in 1..n}
     /\ status' = [w \in Workers |-> IF w <= n THEN "working" ELSE "idle"]
     /\ currentTask' = [w \in Workers |-> IF w <= n THEN s[w] ELSE NoTask]

LEMMA LoaderAnswersStep == IInv /\ LoaderAnswers => StepOK
<1> SUFFICES ASSUME IInv, LoaderAnswers PROVE StepOK
  OBVIOUS
<1>1. /\ loader = "loading" /\ loader' = "loaded"
      /\ callback = NoWorker /\ callback' = NoWorker
      /\ running' = TRUE /\ stopped' = FALSE
      /\ loads' = loads + 1 /\ completions' = 0 /\ completed' = {} /\ failed' = {}
      /\ awaited' = {} /\ threw' = FALSE
      /\ UNCHANGED <<paused, call, calls, pauseTimers, config>>
  BY DEF LoaderAnswers
<1>2. retries' \in [Tasks -> Nat]
  BY DEF LoaderAnswers, IInv, TasksPlaced, QueueTyped
<1>3. PICK load \in Loads : \E s \in Sorted(load) : FirstTasks(s)
  BY DEF LoaderAnswers, FirstTasks
<1>4. PICK s \in Sorted(load) : FirstTasks(s)
  BY <1>3
<1>5. PICK m \in Nat : m = Cardinality(load) /\ m # 0
  <2>1. load \in SUBSET Tasks /\ load # {}
    BY LoadAssumption
  <2>2. IsFiniteSet(load)
    BY <2>1, TasksAssumption, FS_Subset
  <2> QED
    BY <2>1, <2>2, FS_EmptySet, FS_CardinalityType
<1>6. s \in Seq(Tasks) /\ Len(s) = m /\ DOMAIN s = 1..m /\ Distinct(s)
  <2>1. s \in [1..m -> load] /\ load \subseteq Tasks
    BY <1>5, LoadAssumption DEF Sorted
  <2>2. s \in Seq(Tasks)
    BY <2>1, IsASeq
  <2>3. DOMAIN s = 1..m /\ Len(s) = m
    BY <2>1, <2>2, LenProperties
  <2>4. \A i, j \in 1..m : i < j => s[i] # s[j]
    BY <2>3 DEF Sorted
  <2>5. \A i, j \in 1..m : i < j \/ j < i \/ i = j
    BY <1>5
  <2> QED
    BY <2>2, <2>3, <2>4, <2>5 DEF Distinct
<1>7. PICK n \in Nat :
        n = IF paused THEN 0 ELSE IF MaxConcurrent < Len(s) THEN MaxConcurrent ELSE Len(s)
  BY <1>5, <1>6, WorkerAssumption
<1>8. n <= Len(s) /\ n <= MaxConcurrent /\ (~paused => n # 0)
  BY <1>5, <1>6, <1>7, WorkerAssumption
<1>9. /\ queue' = SubSeq(s, n + 1, Len(s))
      /\ inProgress' = {s[w] : w \in 1..n}
      /\ executing' = {<<w, s[w]>> : w \in 1..n}
      /\ status' = [w \in Workers |-> IF w <= n THEN "working" ELSE "idle"]
      /\ currentTask' = [w \in Workers |-> IF w <= n THEN s[w] ELSE NoTask]
  BY <1>4, <1>7 DEF FirstTasks
<1>10. CutAfter(s, n, queue')
  BY <1>6, <1>8, <1>9, SeqCut
<1>11. 1..n \subseteq Workers /\ \A w \in Workers : w <= n <=> w \in 1..n
  BY <1>8, WorkerAssumption DEF Workers
<1>12. QueueTyped' /\ WorkersTyped'
  BY <1>1, <1>2, <1>9, <1>10, <1>11 DEF IInv, TasksPlaced, QueueTyped, WorkersTyped, CutAfter
<1>13. OnePlaceEach'
  <2>1. Queued' \cap inProgress' = {}
    BY <1>9, <1>10 DEF CutAfter, Queued
  <2> QED
    BY <1>1, <1>10, <2>1 DEF OnePlaceEach, CutAfter, Distinct
<1>14. OneTaskPerWorker'
  <2>1. \A i, j \in 1..n : s[i] = s[j] => i = j
    BY <1>6, <1>8, <1>5 DEF Distinct
  <2>2. \A a, b \in executing' : (a[1] = b[1] \/ a[2] = b[2]) => a = b
    BY <1>9, <2>1
  <2>3. inProgress' = {e[2] : e \in executing'}
    <3> DEFINE D == 1..n
    <3>1. inProgress' = {s[w] : w \in D} /\ executing' = {<<w, s[w]>> : w \in D}
      BY <1>9
    <3> HIDE DEF D
    <3>2. \A e \in executing' : e[2] \in inProgress'
      BY <3>1
    <3>3. \A w \in D : <<w, s[w]>> \in executing' /\ <<w, s[w]>>[2] = s[w]
      BY <3>1
    <3>4. \A t \in inProgress' : \E e \in executing' : t = e[2]
      BY <3>1, <3>3, Zenon
    <3> QED
      BY <3>2, <3>4, Zenon
  <2>4. \A w \in Workers :
           status'[w] = "working" <=> \E t \in Tasks : <<w, t>> \in executing'
    BY <1>9, <1>10, <1>11 DEF CutAfter
  <2>5. \A e \in executing' : currentTask'[e[1]] = e[2]
    BY <1>9, <1>11
  <2> QED
    BY <2>2, <2>3, <2>4, <2>5 DEF OneTaskPerWorker
<1>15. ~Drained'
  <2>1. 1 \in DOMAIN s
    BY <1>5, <1>6
  <2>2. s[1] \in Queued' \cup inProgress'
    BY <2>1, <1>9, <1>10 DEF CutAfter, Queued
  <2>3. queue' = <<>> => Queued' = {}
    BY DEF Queued
  <2> QED
    BY <2>2, <2>3 DEF Drained
<1>16. WorkGoesOn'
  <2>1. SUFFICES ASSUME ~paused PROVE executing' # {}
    BY <1>1 DEF WorkGoesOn
  <2>2. 1 \in 1..n
    BY <1>8, <2>1
  <2> QED
    BY <2>2, <1>9
<1>17. CallsTyped'
  <2>1. loads' \in Nat /\ completions' \in Nat
    BY <1>1 DEF IInv, CallsTyped
  <2>2. /\ running' \in BOOLEAN /\ stopped' \in BOOLEAN /\ threw' \in BOOLEAN
        /\ loader' \in {"none", "loading", "loaded", "failed"}
        /\ callback' \in Workers \cup {NoWorker} /\ awaited' \subseteq Workers
    BY <1>1
  <2>3. CallsTyped /\ UNCHANGED <<paused, call, calls, pauseTimers, config>>
    BY <1>1 DEF IInv
  <2> QED
    BY <2>1, <2>2, <2>3 DEF CallsTyped
<1>18. StopWaits'
  BY <1>1 DEF IInv, StopWaits
<1>19. Restarts
  BY <1>1 DEF Restarts
<1> QED
  BY <1>1, <1>19, <1>12, <1>13, <1>14, <1>15, <1>16, <1>17, <1>18
  DEF IInv, TasksPlaced, StepOK, CallbackIdle, RestsUnlessLoaded, CompletesOnce, RunsForWork

-----------------------------------------------------------------------------
(* Every step, and the theorems                                              *)

LEMMA NextStep ==
  ASSUME ~ResumeInCallback, ~StopDuringStart
  PROVE  IInv /\ [Next]_vars => StepOK
<1> SUFFICES ASSUME IInv, [Next]_vars PROVE StepOK
  OBVIOUS
<1>1. CASE Start \/ LoaderAnswers \/ LoaderFails
  BY <1>1, StartStep, LoaderAnswersStep, LoaderFailsStep
<1>2. ASSUME NEW w \in Workers, NEW t \in Tasks, EndOfTask(w, t)
      PROVE  StepOK
  BY <1>2, EndOfTaskStep
<1>3. CASE CallbackReturns \/ CallbackThrows
  BY <1>3, CallbackReturnsStep, CallbackThrowsStep
<1>4. ASSUME NEW c \in Callers, CallOf(c)
      PROVE  StepOK
  BY <1>4, QuietCalls, MutateStep, StopResolvesStep DEF CallOf, QuietCall
<1>5. CASE Resume \/ AutoResume
  BY <1>5, ResumeStep, AutoResumeStep
<1>6. ASSUME NEW t \in Tasks, SubmitTask(t)
      PROVE  StepOK
  BY <1>6, SubmitTaskStep
<1>7. ASSUME NEW w \in Workers, StopSeesIdle(w)
      PROVE  StepOK
  BY <1>7, StopSeesIdleStep
<1>8. CASE UNCHANGED vars
  <2>1. TasksPlaced' /\ Known' = Known /\ Drained' = Drained
    BY <1>8, PlacesFrame DEF IInv, vars
  <2> QED
    BY <1>8, <2>1 DEF IInv, StepOK, CallsTyped, CallbackIdle, RestsUnlessLoaded,
      StopWaits, CompletesOnce, WorkGoesOn, RunsForWork, vars, queueVars, workerVars,
      poolVars, callVars
<1> QED
  BY <1>1, <1>2, <1>3, <1>4, <1>5, <1>6, <1>7, <1>8 DEF Next

\* The inductive invariant holds in every state: it carries all that follows.
THEOREM PoolInvariant ==
  ASSUME ~ResumeInCallback, ~StopDuringStart
  PROVE  Spec => []IInv
<1>1. IInv /\ [Next]_vars => IInv'
  BY NextStep DEF StepOK
<1> QED
  BY <1>1, InitIInv, PTL DEF Spec

\* The pool's variables keep their types.
THEOREM PoolTypes ==
  ASSUME ~ResumeInCallback, ~StopDuringStart
  PROVE  Spec => []TypeOK
BY PoolInvariant, IInvTypes, PTL

\* Whatever the number of workers and the order of retries, submissions, pauses
\* and stops, a task is in exactly one place of the queue.
THEOREM TasksInOnePlace ==
  ASSUME ~ResumeInCallback, ~StopDuringStart
  PROVE  Spec => []OnePlaceEach
<1>1. IInv => OnePlaceEach
  BY DEF IInv, TasksPlaced
<1> QED
  BY <1>1, PoolInvariant, PTL

\* No worker has two tasks, no task two workers, and status and currentTask
\* agree with what the provider was given.
THEOREM WorkersHaveOneTask ==
  ASSUME ~ResumeInCallback, ~StopDuringStart
  PROVE  Spec => []OneTaskPerWorker
<1>1. IInv => OneTaskPerWorker
  BY DEF IInv, TasksPlaced
<1> QED
  BY <1>1, PoolInvariant, PTL

\* Of each load, onComplete is called at most once, with nothing left to do.
THEOREM PoolCompletesOnce ==
  ASSUME ~ResumeInCallback, ~StopDuringStart
  PROVE  Spec => []CompletesOnce
<1>1. IInv => CompletesOnce
  BY DEF IInv
<1> QED
  BY <1>1, PoolInvariant, PTL

\* While the pool runs unpaused and no callback threw, waiting tasks have a
\* worker that will come back for them.
THEOREM NoTaskIsLeft ==
  ASSUME ~ResumeInCallback, ~StopDuringStart
  PROVE  Spec => []WorkGoesOn
<1>1. IInv => WorkGoesOn
  BY DEF IInv
<1> QED
  BY <1>1, PoolInvariant, PTL

\* A pool loses a task it has taken on only when start() is called again.
THEOREM PoolLosesNoTask ==
  ASSUME ~ResumeInCallback, ~StopDuringStart
  PROVE  Spec => NoTaskLost
<1>1. IInv /\ [Next]_vars => [Restarts \/ Known \subseteq Known']_vars
  BY NextStep DEF StepOK
<1> QED
  BY <1>1, PoolInvariant, PTL DEF Spec, NoTaskLost
=============================================================================
