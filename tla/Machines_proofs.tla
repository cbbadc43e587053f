---------------------------- MODULE Machines_proofs ----------------------------
(***************************************************************************)
(* The parts with timers, limits and retries, for any numbers of callers,  *)
(* tasks, runners, requests, agents and steps. Each part has an inductive  *)
(* invariant of its own; the parts together have all of them, as a step is *)
(* a step of one part. What folds, sums and sorts compute is proved first, *)
(* by induction on sets and on numbers.                                    *)
(***************************************************************************)
EXTENDS MCMachines, Integers, Functions, FiniteSetsExt,
        SequenceTheorems, FiniteSetTheorems, FunctionTheorems, NaturalsInduction, WellFoundedInduction, TLAPS

-----------------------------------------------------------------------------
(* Induction and recursion, for sets and functions in place of predicates.    *)

\* A set of numbers has a least one, and so an induction is a set without one.
LEMMA LeastNumber ==
  ASSUME NEW S \in SUBSET Nat, S # {}
  PROVE  \E m \in S : \A n \in S : m <= n
<1> DEFINE R == OpToRel(<, Nat)
<1>1. IsWellFoundedOn(R, Nat)
  BY NatLessThanWellFounded
<1>2. \A x, y \in Nat : x < y => <<x, y>> \in R
  BY DEF OpToRel
<1> HIDE DEF R
<1>3. PICK m \in S : \A n \in S : <<n, m>> \notin R
  BY <1>1, WFMin
<1>4. \A n \in S : ~(n < m)
  BY <1>2, <1>3
<1>5. QED
  BY <1>4

LEMMA NatUpwards ==
  ASSUME NEW S \in SUBSET Nat, 0 \in S, \A n \in Nat : n \in S => n + 1 \in S
  PROVE  S = Nat
<1>1. SUFFICES ASSUME Nat \ S # {} PROVE FALSE
  OBVIOUS
<1>2. PICK m \in Nat \ S : \A n \in Nat \ S : m <= n
  BY <1>1, LeastNumber
<1>3. m - 1 \in Nat /\ m - 1 \in S
  BY <1>2
<1>4. QED
  BY <1>2, <1>3

\* A function may be defined by recursion on the numbers.
Recurs(f, base, G) == f[0] = base /\ \A n \in Nat : f[n + 1] = G[n][f[n]]

LEMMA RecursionOnNat ==
  ASSUME NEW X, NEW base \in X, NEW G \in [Nat -> [X -> X]]
  PROVE  \E f \in [Nat -> X] : Recurs(f, base, G)
<1> DEFINE Upto(n) == {g \in [0 .. n -> X] : g[0] = base /\ \A i \in 0 .. n - 1 : g[i + 1] = G[i][g[i]]}
           S == {n \in Nat : Upto(n) # {}}
           T == {n \in Nat : \A g, h \in Upto(n) : g[n] = h[n]}
           Reaching(n) == CHOOSE g \in Upto(n) : TRUE
           f == [n \in Nat |-> Reaching(n)[n]]
<1>1. S = Nat
  <2>1. 0 \in S
    <3>1. [i \in 0 .. 0 |-> base] \in Upto(0)
      OBVIOUS
    <3>2. QED
      BY <3>1
  <2>2. ASSUME NEW n \in Nat, n \in S PROVE n + 1 \in S
    <3>1. PICK g \in Upto(n) : TRUE
      BY <2>2
    <3>2. g[n] \in X /\ G[n][g[n]] \in X
      OBVIOUS
    <3> DEFINE h == [i \in 0 .. n + 1 |-> IF i = n + 1 THEN G[n][g[n]] ELSE g[i]]
    <3>3. h \in [0 .. n + 1 -> X]
      BY <3>2
    <3>4. h[0] = base
      OBVIOUS
    <3>5. ASSUME NEW i \in 0 .. n PROVE h[i + 1] = G[i][h[i]]
      <4>1. CASE i = n
        BY <4>1
      <4>2. CASE i # n
        <5>1. i \in 0 .. n - 1 /\ i + 1 \in 0 .. n + 1 /\ i + 1 # n + 1 /\ i \in 0 .. n + 1 /\ i # n + 1
          BY <4>2
        <5>2. h[i + 1] = g[i + 1] /\ h[i] = g[i]
          BY <5>1
        <5>3. QED
          BY <5>1, <5>2
      <4>3. QED
        BY <4>1, <4>2
    <3> HIDE DEF h
    <3>6. \A i \in 0 .. (n + 1) - 1 : h[i + 1] = G[i][h[i]]
      BY <3>5
    <3>7. h \in Upto(n + 1)
      BY <3>3, <3>4, <3>6
    <3>8. QED
      BY <3>7
  <2> HIDE DEF S
  <2>3. S \in SUBSET Nat
    BY DEF S
  <2>4. QED
    BY <2>1, <2>2, <2>3, NatUpwards
<1>2. ASSUME NEW n \in Nat, NEW g \in Upto(n + 1)
      PROVE  [i \in 0 .. n |-> g[i]] \in Upto(n)
  BY <1>2
<1>3. T = Nat
  <2>1. 0 \in T
    OBVIOUS
  <2>2. ASSUME NEW n \in Nat, n \in T PROVE n + 1 \in T
    <3>1. SUFFICES ASSUME NEW g \in Upto(n + 1), NEW h \in Upto(n + 1) PROVE g[n + 1] = h[n + 1]
      OBVIOUS
    <3>2. g[n + 1] = G[n][g[n]] /\ h[n + 1] = G[n][h[n]]
      OBVIOUS
    <3>3. [i \in 0 .. n |-> g[i]] \in Upto(n) /\ [i \in 0 .. n |-> h[i]] \in Upto(n)
      BY <1>2
    <3>4. [i \in 0 .. n |-> g[i]][n] = [i \in 0 .. n |-> h[i]][n]
      BY <2>2, <3>3
    <3>5. g[n] = h[n]
      BY <3>4
    <3>6. QED
      BY <3>2, <3>5
  <2> HIDE DEF T
  <2>3. T \in SUBSET Nat
    BY DEF T
  <2>4. QED
    BY <2>1, <2>2, <2>3, NatUpwards
<1>4. ASSUME NEW n \in Nat PROVE Reaching(n) \in Upto(n)
  BY <1>1
<1>5. f \in [Nat -> X]
  <2>1. ASSUME NEW n \in Nat PROVE Reaching(n)[n] \in X
    <3>1. Reaching(n) \in Upto(n)
      BY <1>4
    <3> HIDE DEF Reaching
    <3>2. QED
      BY <3>1
  <2>2. QED
    BY <2>1
<1>6. f[0] = base
  BY <1>4
<1>7. ASSUME NEW n \in Nat PROVE f[n + 1] = G[n][f[n]]
  <2>1. Reaching(n + 1) \in Upto(n + 1) /\ Reaching(n) \in Upto(n)
    <3> HIDE DEF Upto, Reaching
    <3>1. n + 1 \in Nat
      OBVIOUS
    <3>2. QED
      BY <1>4, <3>1
  <2>2. [i \in 0 .. n |-> Reaching(n + 1)[i]] \in Upto(n)
    BY <1>2, <2>1
  <2> HIDE DEF Reaching
  <2>3. [i \in 0 .. n |-> Reaching(n + 1)[i]][n] = Reaching(n)[n]
    BY <1>3, <2>1, <2>2
  <2>4. Reaching(n + 1)[n] = Reaching(n)[n]
    BY <2>3
  <2>5. Reaching(n + 1)[n + 1] = G[n][Reaching(n + 1)[n]]
    BY <2>1
  <2>6. QED
    BY <2>4, <2>5
<1> HIDE DEF f
<1>8. QED
  BY <1>5, <1>6, <1>7 DEF Recurs

-----------------------------------------------------------------------------
(* Sums over finite sets.                                                     *)

LEMMA SetsUpwards ==
  ASSUME NEW S, IsFiniteSet(S), NEW P \in SUBSET (SUBSET S), {} \in P,
         \A s \in SUBSET S : s # {} /\ (\A x \in s : s \ {x} \in P) => s \in P
  PROVE  P = SUBSET S
<1>1. SUFFICES ASSUME (SUBSET S) \ P # {} PROVE FALSE
  OBVIOUS
<1> DEFINE Sizes == {Cardinality(s) : s \in (SUBSET S) \ P}
<1>2. \A s \in SUBSET S : IsFiniteSet(s) /\ Cardinality(s) \in Nat
  BY FS_Subset, FS_CardinalityType
<1>3. Sizes \in SUBSET Nat /\ Sizes # {}
  BY <1>1, <1>2
<1>4. PICK m \in Sizes : \A n \in Sizes : m <= n
  BY <1>3, LeastNumber
<1>5. PICK s \in (SUBSET S) \ P : Cardinality(s) = m
  OBVIOUS
<1>6. s # {}
  OBVIOUS
<1>7. ASSUME NEW x \in s PROVE s \ {x} \in P
  <2>1. Cardinality(s \ {x}) = m - 1
    BY <1>2, <1>5, FS_RemoveElement
  <2>2. m - 1 \notin Sizes
    <3>1. m \in Nat
      BY <1>3
    <3>2. ~(m <= m - 1)
      BY <3>1
    <3> HIDE DEF Sizes
    <3>3. QED
      BY <3>2, <1>4
  <2>3. QED
    BY <2>1, <2>2
<1>8. QED
  BY <1>5, <1>6, <1>7

Chooses(c, S) == \A s \in SUBSET S : s # {} => c[s] \in s

\* A function may be defined by recursion on the subsets of a finite set.
RecursOn(it, S, base, c, G) == it = [s \in SUBSET S |-> IF s = {} THEN base ELSE G[c[s]][it[s \ {c[s]}]]]

LEMMA RecursionOnSets ==
  ASSUME NEW S, IsFiniteSet(S), NEW X, NEW base \in X, NEW c, Chooses(c, S),
         NEW G \in [S -> [X -> X]]
  PROVE  \E it \in [SUBSET S -> X] : RecursOn(it, S, base, c, G)
<1> DEFINE Y == [SUBSET S -> X]
           H == [n \in Nat |-> [g \in Y |-> [s \in SUBSET S |->
                  IF s = {} THEN base ELSE G[c[s]][g[s \ {c[s]}]]]]]
           first == [s \in SUBSET S |-> base]
<1>1. first \in Y
  OBVIOUS
<1>2. H \in [Nat -> [Y -> Y]]
  <2>1. ASSUME NEW n \in Nat, NEW g \in Y, NEW s \in SUBSET S, s # {} PROVE G[c[s]][g[s \ {c[s]}]] \in X
    <3>1. c[s] \in S /\ s \ {c[s]} \in SUBSET S
      BY <2>1 DEF Chooses
    <3>2. QED
      BY <3>1
  <2>2. QED
    BY <2>1
<1>3. PICK f \in [Nat -> Y] : Recurs(f, first, H)
  <2> HIDE DEF Y, H, first
  <2>1. QED
    BY <1>1, <1>2, RecursionOnNat
<1> DEFINE it == [s \in SUBSET S |-> f[Cardinality(s)][s]]
<1>4. \A s \in SUBSET S : IsFiniteSet(s) /\ Cardinality(s) \in Nat
  BY FS_Subset, FS_CardinalityType
<1>5. it \in Y
  BY <1>4
<1>6. ASSUME NEW s \in SUBSET S
      PROVE  it[s] = IF s = {} THEN base ELSE G[c[s]][it[s \ {c[s]}]]
  <2>1. CASE s = {}
    <3>1. Cardinality({}) = 0
      BY FS_EmptySet
    <3>2. QED
      BY <2>1, <3>1, <1>3 DEF Recurs
  <2>2. CASE s # {}
    <3> DEFINE t == s \ {c[s]}
               n == Cardinality(t)
    <3>1. Cardinality(s) = n + 1 /\ n \in Nat /\ t \in SUBSET S
      <4>1. c[s] \in s /\ IsFiniteSet(s) /\ t \in SUBSET S
        BY <2>2, <1>4 DEF Chooses
      <4>2. Cardinality(t) = Cardinality(s) - 1
        BY <4>1, FS_RemoveElement
      <4>3. QED
        BY <4>1, <4>2, <1>4
    <3>2. f[n + 1] = H[n][f[n]]
      BY <3>1, <1>3 DEF Recurs
    <3>3. f[n] \in Y
      BY <3>1
    <3>4. H[n][f[n]][s] = G[c[s]][f[n][t]]
      BY <3>1, <3>3, <2>2
    <3>5. it[t] = f[n][t] /\ it[s] = f[n + 1][s]
      BY <3>1
    <3>6. QED
      BY <3>2, <3>4, <3>5, <2>2
  <2>3. QED
    BY <2>1, <2>2
<1> HIDE DEF it
<1>7. it = [s \in SUBSET S |-> IF s = {} THEN base ELSE G[c[s]][it[s \ {c[s]}]]]
  BY <1>5, <1>6
<1>8. QED
  BY <1>5, <1>7 DEF RecursOn

SumOf(u, S) == MapThenSumSet(LAMBDA x : u[x], S)
One(s) == CHOOSE x \in s : TRUE

\* The sums over the subsets of a set, as MapThenSumSet computes them.
SumsOver(u, S, it) == it = [s \in SUBSET S |-> IF s = {} THEN 0 ELSE u[One(s)] + it[s \ {One(s)}]]

LEMMA SumIsComputed ==
  ASSUME NEW S, IsFiniteSet(S), NEW u, \A x \in S : u[x] \in Nat
  PROVE  \E it \in [SUBSET S -> Nat] : SumsOver(u, S, it) /\ SumOf(u, S) = it[S]
<1> DEFINE c == [s \in SUBSET S |-> One(s)]
           G == [x \in S |-> [n \in Nat |-> u[x] + n]]
<1>1. \A s \in SUBSET S : s # {} => c[s] \in s
  BY DEF One
<1>1a. Chooses(c, S)
  BY <1>1 DEF Chooses
<1>2. G \in [S -> [Nat -> Nat]]
  OBVIOUS
<1>3. PICK g \in [SUBSET S -> Nat] : RecursOn(g, S, 0, c, G)
  <2> HIDE DEF c, G
  <2>1. 0 \in Nat
    OBVIOUS
  <2>2. QED
    BY <1>1a, <1>2, <2>1, RecursionOnSets
<1>4. SumsOver(u, S, g)
  <2>1. ASSUME NEW s \in SUBSET S, s # {} PROVE G[c[s]][g[s \ {c[s]}]] = u[One(s)] + g[s \ {One(s)}]
    BY <2>1, <1>1
  <2> HIDE DEF c, G
  <2>2. QED
    BY <1>3, <2>1 DEF SumsOver, RecursOn
<1> DEFINE it == CHOOSE i : SumsOver(u, S, i)
<1>5. SumsOver(u, S, it)
  BY <1>4
<1>6. SumOf(u, S) = it[S]
  BY DEF SumOf, MapThenSumSet, MapThenFoldSet, SumsOver, One
<1> HIDE DEF it
<1>7. it \in [SUBSET S -> Nat]
  <2> DEFINE P == {s \in SUBSET S : it[s] \in Nat}
  <2>1. {} \in P
    BY <1>5 DEF SumsOver
  <2>2. ASSUME NEW s \in SUBSET S, s # {}, \A x \in s : s \ {x} \in P PROVE s \in P
    <3>1. One(s) \in s
      BY <2>2 DEF One
    <3>2. it[s] = u[One(s)] + it[s \ {One(s)}]
      BY <1>5, <2>2 DEF SumsOver
    <3>3. s \ {One(s)} \in P
      BY <2>2, <3>1
    <3>4. it[s \ {One(s)}] \in Nat
      BY <3>3
    <3>5. QED
      BY <3>1, <3>2, <3>4
  <2> HIDE DEF P
  <2>3. P \in SUBSET (SUBSET S)
    BY DEF P
  <2>4. P = SUBSET S
    BY <2>1, <2>2, <2>3, SetsUpwards
  <2>5. QED
    BY <2>4, <1>5 DEF P, SumsOver
<1>8. QED
  BY <1>5, <1>6, <1>7

\* The function is the same for a smaller set.
LEMMA SumsAgree ==
  ASSUME NEW S, NEW u, NEW it, SumsOver(u, S, it), NEW T, IsFiniteSet(T), T \subseteq S, NEW g, SumsOver(u, T, g)
  PROVE  g[T] = it[T]
<1> DEFINE P == {s \in SUBSET T : g[s] = it[s]}
<1>3. {} \in P
  BY DEF SumsOver
<1>4. ASSUME NEW s \in SUBSET T, s # {}, \A x \in s : s \ {x} \in P PROVE s \in P
  <2>1. One(s) \in s /\ s \in SUBSET S
    BY <1>4 DEF One
  <2>2. it[s] = u[One(s)] + it[s \ {One(s)}] /\ g[s] = u[One(s)] + g[s \ {One(s)}]
    BY <1>4, <2>1 DEF SumsOver
  <2>3. QED
    BY <1>4, <2>1, <2>2
<1> HIDE DEF P
<1>5. P \in SUBSET (SUBSET T)
  BY DEF P
<1>6. P = SUBSET T
  BY <1>3, <1>4, <1>5, SetsUpwards
<1>7. QED
  BY <1>6 DEF P

LEMMA SumUnfolds ==
  ASSUME NEW S, IsFiniteSet(S), NEW u, \A x \in S : u[x] \in Nat
  PROVE  /\ SumOf(u, S) \in Nat
         /\ SumOf(u, {}) = 0
         /\ S # {} => SumOf(u, S) = u[One(S)] + SumOf(u, S \ {One(S)})
<1>1. PICK it \in [SUBSET S -> Nat] : SumsOver(u, S, it) /\ SumOf(u, S) = it[S]
  BY SumIsComputed
<1>2. ASSUME NEW T \in SUBSET S PROVE SumOf(u, T) = it[T]
  <2>0. IsFiniteSet(T)
    BY FS_Subset
  <2>1. \A x \in T : u[x] \in Nat
    OBVIOUS
  <2>2. PICK g \in [SUBSET T -> Nat] : SumsOver(u, T, g) /\ SumOf(u, T) = g[T]
    BY <2>0, <2>1, SumIsComputed
  <2>3. QED
    BY <1>1, <2>0, <2>2, SumsAgree
<1>3. it[{}] = 0
  BY <1>1 DEF SumsOver
<1>4. ASSUME S # {} PROVE SumOf(u, S) = u[One(S)] + SumOf(u, S \ {One(S)})
  <2>1. it[S] = u[One(S)] + it[S \ {One(S)}]
    BY <1>1, <1>4 DEF SumsOver
  <2>2. QED
    BY <1>2, <2>1
<1>5. QED
  BY <1>1, <1>2, <1>3, <1>4

\* Whatever is chosen first, the sum is the same.
LEMMA SumWithout ==
  ASSUME NEW S, IsFiniteSet(S), NEW u, \A x \in S : u[x] \in Nat, NEW y \in S
  PROVE  /\ SumOf(u, S) = u[y] + SumOf(u, S \ {y})
         /\ SumOf(u, S \ {y}) \in Nat
<1> DEFINE P == {s \in SUBSET S : \A x \in s : SumOf(u, s) = u[x] + SumOf(u, s \ {x})}
<1>1. {} \in P
  OBVIOUS
<1>2. ASSUME NEW s \in SUBSET S PROVE IsFiniteSet(s) /\ SumOf(u, s) \in Nat
  BY FS_Subset, SumUnfolds
<1>3. ASSUME NEW s \in SUBSET S, s # {}, \A x \in s : s \ {x} \in P PROVE s \in P
  <2>1. SUFFICES ASSUME NEW x \in s PROVE SumOf(u, s) = u[x] + SumOf(u, s \ {x})
    OBVIOUS
  <2> DEFINE o == One(s)
  <2>2. o \in s
    BY DEF One
  <2>3. SumOf(u, s) = u[o] + SumOf(u, s \ {o})
    BY <1>2, <1>3, SumUnfolds
  <2>4. CASE x = o
    BY <2>3, <2>4
  <2>5. CASE x # o
    <3> HIDE DEF o
    <3>1. SumOf(u, s \ {o}) = u[x] + SumOf(u, (s \ {o}) \ {x})
      BY <1>3, <2>2, <2>5
    <3>2. SumOf(u, s \ {x}) = u[o] + SumOf(u, (s \ {x}) \ {o})
      BY <1>3, <2>2, <2>5
    <3>3. (s \ {o}) \ {x} = (s \ {x}) \ {o}
      OBVIOUS
    <3>4. u[o] \in Nat /\ u[x] \in Nat /\ SumOf(u, (s \ {o}) \ {x}) \in Nat
      <4>1. (s \ {o}) \ {x} \in SUBSET S
        OBVIOUS
      <4>2. QED
        BY <4>1, <1>2, <2>2
    <3>5. QED
      BY <2>3, <3>1, <3>2, <3>3, <3>4
  <2>6. QED
    BY <2>4, <2>5
<1> HIDE DEF P
<1>4. P \in SUBSET (SUBSET S)
  BY DEF P
<1>5. P = SUBSET S
  BY <1>1, <1>3, <1>4, SetsUpwards
<1>6. S \in P
  BY <1>5
<1>7. QED
  BY <1>2, <1>6 DEF P

LEMMA SumGrows ==
  ASSUME NEW S, IsFiniteSet(S), NEW u, \A x \in S : u[x] \in Nat, NEW v, \A x \in S : v[x] \in Nat /\ u[x] <= v[x]
  PROVE  SumOf(u, S) <= SumOf(v, S)
<1> DEFINE P == {s \in SUBSET S : SumOf(u, s) <= SumOf(v, s)}
<1>2. ASSUME NEW s \in SUBSET S PROVE IsFiniteSet(s) /\ SumOf(u, s) \in Nat /\ SumOf(v, s) \in Nat
  BY FS_Subset, SumUnfolds
<1>1. {} \in P
  <2>1. SumOf(u, {}) = 0 /\ SumOf(v, {}) = 0
    BY SumUnfolds
  <2>2. QED
    BY <2>1
<1>3. ASSUME NEW s \in SUBSET S, s # {}, \A x \in s : s \ {x} \in P PROVE s \in P
  <2>1. PICK x \in s : TRUE
    BY <1>3
  <2>2. SumOf(u, s) = u[x] + SumOf(u, s \ {x}) /\ SumOf(v, s) = v[x] + SumOf(v, s \ {x})
    BY <1>2, SumWithout
  <2>3. SumOf(u, s \ {x}) <= SumOf(v, s \ {x})
    BY <1>3
  <2>4. SumOf(u, s \ {x}) \in Nat /\ SumOf(v, s \ {x}) \in Nat
    <3>1. s \ {x} \in SUBSET S
      OBVIOUS
    <3>2. QED
      BY <1>2, <3>1
  <2>5. QED
    BY <2>2, <2>3, <2>4
<1> HIDE DEF P
<1>4. P \in SUBSET (SUBSET S)
  BY DEF P
<1>5. P = SUBSET S
  BY <1>1, <1>3, <1>4, SetsUpwards
<1>6. S \in P
  BY <1>5
<1>7. QED
  BY <1>6 DEF P

LEMMA SumIsTheSame ==
  ASSUME NEW S, IsFiniteSet(S), NEW u, NEW v, \A x \in S : u[x] \in Nat /\ v[x] = u[x]
  PROVE  SumOf(v, S) = SumOf(u, S)
<1>1. SumOf(u, S) <= SumOf(v, S) /\ SumOf(v, S) <= SumOf(u, S)
  BY SumGrows
<1>2. SumOf(u, S) \in Nat /\ SumOf(v, S) \in Nat
  BY SumUnfolds
<1>3. QED
  BY <1>1, <1>2

LEMMA SumOfOneChange ==
  ASSUME NEW S, IsFiniteSet(S), NEW u, NEW v, \A x \in S : u[x] \in Nat /\ v[x] \in Nat,
         NEW y \in S, \A x \in S \ {y} : v[x] = u[x]
  PROVE  SumOf(v, S) = SumOf(u, S) - u[y] + v[y]
<1>1. IsFiniteSet(S \ {y})
  BY FS_Subset
<1>2. SumOf(v, S \ {y}) = SumOf(u, S \ {y})
  BY <1>1, SumIsTheSame
<1>3. SumOf(u, S) = u[y] + SumOf(u, S \ {y}) /\ SumOf(v, S) = v[y] + SumOf(v, S \ {y}) /\ SumOf(u, S \ {y}) \in Nat
  BY SumWithout
<1>4. QED
  BY <1>2, <1>3

\* What counts for nothing may be left out.
LEMMA SumOfSupport ==
  ASSUME NEW S, IsFiniteSet(S), NEW u, \A x \in S : u[x] \in Nat, NEW T \in SUBSET S, \A x \in S \ T : u[x] = 0
  PROVE  SumOf(u, S) = SumOf(u, T)
<1> DEFINE P == {s \in SUBSET S : SumOf(u, s) = SumOf(u, s \cap T)}
<1>1. {} \in P
  <2>1. {} \cap T = {}
    OBVIOUS
  <2>2. QED
    BY <2>1
<1>2. ASSUME NEW s \in SUBSET S PROVE IsFiniteSet(s) /\ SumOf(u, s) \in Nat
  BY FS_Subset, SumUnfolds
<1>3. ASSUME NEW s \in SUBSET S, s # {}, \A x \in s : s \ {x} \in P PROVE s \in P
  <2>1. PICK x \in s : TRUE
    BY <1>3
  <2>2. SumOf(u, s) = u[x] + SumOf(u, s \ {x}) /\ SumOf(u, s \ {x}) \in Nat
    BY <1>2, SumWithout
  <2>3. SumOf(u, s \ {x}) = SumOf(u, (s \ {x}) \cap T)
    BY <1>3
  <2>4. CASE x \in T
    <3>1. s \cap T \in SUBSET S /\ x \in s \cap T /\ (s \cap T) \ {x} = (s \ {x}) \cap T
      BY <2>4
    <3>2. SumOf(u, s \cap T) = u[x] + SumOf(u, (s \cap T) \ {x})
      BY <1>2, <3>1, SumWithout
    <3>2a. SumOf(u, s \ {x}) = SumOf(u, (s \cap T) \ {x})
      BY <2>3, <3>1, Zenon
    <3>3. SumOf(u, s) = SumOf(u, s \cap T)
      BY <2>2, <3>2a, <3>2
    <3>4. QED
      BY <3>3
  <2>5. CASE x \notin T
    <3>1. s \cap T = (s \ {x}) \cap T
      BY <2>5
    <3>2. u[x] = 0
      BY <2>5
    <3>2a. SumOf(u, s \ {x}) = SumOf(u, s \cap T)
      BY <2>3, <3>1, Zenon
    <3>3. SumOf(u, s) = SumOf(u, s \cap T)
      BY <2>2, <3>2a, <3>2
    <3>4. QED
      BY <3>3
  <2>6. QED
    BY <2>4, <2>5
<1> HIDE DEF P
<1>4. P \in SUBSET (SUBSET S)
  BY DEF P
<1>5. P = SUBSET S
  BY <1>1, <1>3, <1>4, SetsUpwards
<1>6. S \in P /\ S \cap T = T
  BY <1>5
<1>7. QED
  BY <1>6 DEF P

LEMMA SumIsBounded ==
  ASSUME NEW S, IsFiniteSet(S), NEW u, NEW m \in Nat, \A x \in S : u[x] \in Nat /\ u[x] <= m
  PROVE  SumOf(u, S) <= Cardinality(S) * m
<1> DEFINE P == {s \in SUBSET S : SumOf(u, s) <= Cardinality(s) * m}
<1>2. ASSUME NEW s \in SUBSET S PROVE IsFiniteSet(s) /\ SumOf(u, s) \in Nat /\ Cardinality(s) \in Nat
  BY FS_Subset, SumUnfolds, FS_CardinalityType
<1>1. {} \in P
  <2>1. SumOf(u, {}) = 0 /\ Cardinality({}) = 0
    BY SumUnfolds, FS_EmptySet
  <2>2. QED
    BY <2>1
<1>3. ASSUME NEW s \in SUBSET S, s # {}, \A x \in s : s \ {x} \in P PROVE s \in P
  <2>1. PICK x \in s : TRUE
    BY <1>3
  <2>2. SumOf(u, s) = u[x] + SumOf(u, s \ {x})
    BY <1>2, SumWithout
  <2>3. SumOf(u, s \ {x}) <= Cardinality(s \ {x}) * m
    BY <1>3
  <2>4. Cardinality(s) = Cardinality(s \ {x}) + 1
    BY <1>2, FS_RemoveElement
  <2>5. SumOf(u, s \ {x}) \in Nat /\ Cardinality(s \ {x}) \in Nat
    <3>1. s \ {x} \in SUBSET S
      OBVIOUS
    <3>2. QED
      BY <1>2, <3>1
  <2>6. ASSUME NEW k \in Nat PROVE (k + 1) * m = k * m + m /\ k * m \in Nat
    OBVIOUS
  <2>7. QED
    BY <2>2, <2>3, <2>4, <2>5, <2>6
<1> HIDE DEF P
<1>4. P \in SUBSET (SUBSET S)
  BY DEF P
<1>5. P = SUBSET S
  BY <1>1, <1>3, <1>4, SetsUpwards
<1>6. S \in P
  BY <1>5
<1>7. QED
  BY <1>6 DEF P

-----------------------------------------------------------------------------
(* Sequences.                                                                 *)

LEMMA IsSequence ==
  ASSUME NEW T, NEW n \in Nat, NEW f \in [1 .. n -> T]
  PROVE  f \in Seq(T) /\ Len(f) = n /\ DOMAIN f = 1 .. n
OBVIOUS

LEMMA UpToSize ==
  ASSUME NEW n \in Nat
  PROVE  IsFiniteSet(1 .. n) /\ Cardinality(1 .. n) = n
<1>1. 1 \in Int /\ n \in Int
  OBVIOUS
<1>2. IsFiniteSet(1 .. n) /\ Cardinality(1 .. n) = IF 1 > n THEN 0 ELSE n - 1 + 1
  BY <1>1, FS_Interval
<1>3. QED
  BY <1>2

\* A sequence without repetition is no longer than its set is large.
NoRepeats(s) == \A i \in 1 .. Len(s) : \A j \in 1 .. Len(s) : s[i] = s[j] => i = j
LEMMA NoRepeatsFit ==
  ASSUME NEW T, IsFiniteSet(T), NEW s \in Seq(T), NoRepeats(s)
  PROVE  Len(s) <= Cardinality(T)
<1>1. Len(s) \in Nat /\ s \in [1 .. Len(s) -> T]
  BY LenProperties
<1>2. s \in Injection(1 .. Len(s), T)
  BY <1>1 DEF Injection, IsInjective, NoRepeats
<1>3. Cardinality(1 .. Len(s)) <= Cardinality(T) /\ Cardinality(1 .. Len(s)) = Len(s)
  BY <1>1, <1>2, FS_Injection, UpToSize
<1>4. QED
  BY <1>3

\* What stands at a place once place i is taken out.
Past(i, j) == IF j < i THEN j ELSE j + 1
IsWithout(t, s, i) ==
  /\ Len(t) = Len(s) - 1
  /\ \A j \in 1 .. Len(s) - 1 : Past(i, j) \in 1 .. Len(s) /\ Past(i, j) # i /\ t[j] = s[Past(i, j)]
  /\ \A k \in 1 .. Len(s) : k # i => \E j \in 1 .. Len(s) - 1 : Past(i, j) = k
LEMMA OneIsTakenOut ==
  ASSUME NEW T, NEW s \in Seq(T), NEW i \in 1 .. Len(s)
  PROVE  RemoveAt(s, i) \in Seq(T) /\ IsWithout(RemoveAt(s, i), s, i)
<1> DEFINE a == SubSeq(s, 1, i - 1)
           b == SubSeq(s, i + 1, Len(s))
<1>0. Len(s) \in Nat /\ i \in Nat /\ i >= 1 /\ i <= Len(s) /\ s \in [1 .. Len(s) -> T]
  BY LenProperties
<1>1. a \in Seq(T) /\ Len(a) = i - 1 /\ \A j \in 1 .. i - 1 : a[j] = s[j]
  BY <1>0
<1>2. b \in Seq(T) /\ Len(b) = Len(s) - i /\ \A j \in 1 .. Len(s) - i : b[j] = s[j + i]
  <2> DEFINE m == i + 1
             n == Len(s)
  <2>1. m \in 1 .. n + 1 /\ n \in m - 1 .. Len(s) /\ n - m + 1 = Len(s) - i /\ \A j \in 1 .. Len(s) - i : m + j - 1 = j + i
    BY <1>0
  <2> HIDE DEF m, n
  <2>2. /\ SubSeq(s, m, n) \in Seq(T) /\ Len(SubSeq(s, m, n)) = n - m + 1
        /\ \A j \in 1 .. n - m + 1 : SubSeq(s, m, n)[j] = s[m + j - 1]
    BY <2>1, SubSeqProperties
  <2>3. QED
    BY <2>1, <2>2 DEF m, n
<1> HIDE DEF a, b
<1>3. /\ a \o b \in Seq(T) /\ Len(a \o b) = Len(a) + Len(b)
      /\ \A j \in 1 .. Len(a) + Len(b) : (a \o b)[j] = IF j <= Len(a) THEN a[j] ELSE b[j - Len(a)]
  BY <1>1, <1>2, ConcatProperties
<1>4. RemoveAt(s, i) = a \o b
  BY DEF RemoveAt, a, b
<1>5. ASSUME NEW j \in 1 .. Len(s) - 1 PROVE Past(i, j) \in 1 .. Len(s) /\ Past(i, j) # i /\ (a \o b)[j] = s[Past(i, j)]
  <2>1. j \in 1 .. Len(a) + Len(b)
    BY <1>0, <1>1, <1>2
  <2>2. CASE j < i
    <3>1. j <= Len(a) /\ j \in 1 .. i - 1
      BY <1>0, <1>1, <2>2
    <3>2. QED
      BY <1>0, <1>1, <1>3, <2>1, <2>2, <3>1 DEF Past
  <2>3. CASE ~(j < i)
    <3>1. ~(j <= Len(a)) /\ j - Len(a) \in 1 .. Len(s) - i /\ (j - Len(a)) + i = j + 1
      BY <1>0, <1>1, <2>3
    <3>2. (a \o b)[j] = s[j + 1]
      BY <1>2, <1>3, <2>1, <3>1
    <3>3. QED
      BY <1>0, <2>3, <3>2 DEF Past
  <2>4. QED
    BY <2>2, <2>3
<1>6. ASSUME NEW k \in 1 .. Len(s), k # i PROVE \E j \in 1 .. Len(s) - 1 : Past(i, j) = k
  <2>1. CASE k < i
    BY <1>0, <2>1 DEF Past
  <2>2. CASE k > i
    <3>1. k - 1 \in 1 .. Len(s) - 1 /\ Past(i, k - 1) = k
      BY <1>0, <2>2 DEF Past
    <3>2. QED
      BY <3>1
  <2>3. QED
    BY <1>0, <1>6, <2>1, <2>2
<1>7. Len(a) + Len(b) = Len(s) - 1
  BY <1>0, <1>1, <1>2
<1>8. IsWithout(a \o b, s, i)
  BY <1>3, <1>5, <1>6, <1>7 DEF IsWithout
<1>9. QED
  BY <1>3, <1>4, <1>8

LEMMA PastIsMonotone ==
  ASSUME NEW i \in Nat, NEW j \in Nat, NEW k \in Nat
  PROVE  /\ Past(i, j) = Past(i, k) => j = k
         /\ j < k => Past(i, j) < Past(i, k)
         /\ Past(i, j) <= j + 1 /\ Past(i, j) >= j
BY DEF Past

\* The first place in a sequence for which a test holds, as a set of places has it.
LEMMA LeastIsMin ==
  ASSUME NEW S \in SUBSET Nat, S # {}
  PROVE  Min(S) \in S /\ \A n \in S : Min(S) <= n
<1>1. \E m \in S : \A n \in S : m <= n
  BY LeastNumber
<1>2. QED
  BY <1>1 DEF Min

LEMMA GreatestIsMax ==
  ASSUME NEW S \in SUBSET Nat, S # {}, NEW b \in Nat, \A n \in S : n <= b
  PROVE  Max(S) \in S /\ \A n \in S : n <= Max(S)
<1> DEFINE Bounds == {m \in Nat : \A n \in S : n <= m}
<1>1. Bounds \in SUBSET Nat /\ Bounds # {}
  OBVIOUS
<1>2. PICK m \in Bounds : \A k \in Bounds : m <= k
  BY <1>1, LeastNumber
<1>3. m \in S
  <2>1. SUFFICES ASSUME m \notin S PROVE FALSE
    OBVIOUS
  <2>2. \A n \in S : n < m
    BY <1>2, <2>1
  <2>2a. \E n \in S : n < m /\ n \in Nat
    BY <2>2
  <2>3. m - 1 \in Nat /\ \A n \in S : n <= m - 1
    BY <2>2, <2>2a
  <2>4. m - 1 \in Bounds
    BY <2>3
  <2>5. QED
    BY <1>2, <2>4
<1>4. \E x \in S : \A y \in S : x >= y
  BY <1>2, <1>3
<1>5. QED
  BY <1>4 DEF Max

-----------------------------------------------------------------------------
(* Sorting by rank: A[i] is the set of the places ahead of place i.           *)

Ordered(n, A) ==
  /\ \A i \in 1 .. n : i \notin A[i]
  /\ \A i \in 1 .. n : \A j \in 1 .. n : \A k \in 1 .. n : i \in A[j] /\ j \in A[k] => i \in A[k]
  /\ \A i \in 1 .. n : \A j \in 1 .. n : i # j => i \in A[j] \/ j \in A[i]
\* Q[k] is the place that comes k-th.
Arranges(n, A, Q) ==
  /\ \A k \in 1 .. n : \A i \in 1 .. n : Cardinality(A[i]) = k - 1 <=> i = Q[k]
  /\ \A i \in 1 .. n : \E k \in 1 .. n : Q[k] = i
  /\ \A k \in 1 .. n : \A l \in 1 .. n : Q[k] = Q[l] => k = l
  /\ \A k \in 1 .. n : \A l \in 1 .. n : k < l => Q[k] \in A[Q[l]]

LEMMA RanksArrange ==
  ASSUME NEW n \in Nat, NEW A \in [1 .. n -> SUBSET (1 .. n)], Ordered(n, A)
  PROVE  \E Q \in [1 .. n -> 1 .. n] : Arranges(n, A, Q)
<1> DEFINE D == 1 .. n
           P == [i \in D |-> Cardinality(A[i]) + 1]
           Q == [k \in D |-> CHOOSE i \in D : Cardinality(A[i]) = k - 1]
<1>1. IsFiniteSet(D) /\ Cardinality(D) = n
  BY UpToSize
<1>2. ASSUME NEW i \in D PROVE IsFiniteSet(A[i]) /\ Cardinality(A[i]) \in Nat /\ Cardinality(A[i]) < n
  <2>1. A[i] \in SUBSET (D \ {i})
    BY DEF Ordered
  <2>2. IsFiniteSet(D \ {i}) /\ Cardinality(D \ {i}) = n - 1
    BY <1>1, FS_RemoveElement
  <2> HIDE DEF D
  <2>3. IsFiniteSet(A[i]) /\ Cardinality(A[i]) <= n - 1
    BY <2>1, <2>2, FS_Subset
  <2>4. Cardinality(A[i]) \in Nat
    BY <2>3, FS_CardinalityType
  <2>5. QED
    BY <2>3, <2>4
<1>3. ASSUME NEW i \in D, NEW j \in D, i \in A[j] PROVE Cardinality(A[i]) < Cardinality(A[j])
  <2>1. A[i] \in SUBSET (A[j] \ {i})
    <3>1. \A k \in A[i] : k \in A[j]
      BY <1>3 DEF Ordered
    <3>2. QED
      BY <3>1 DEF Ordered
  <2>2. IsFiniteSet(A[j] \ {i}) /\ Cardinality(A[j] \ {i}) = Cardinality(A[j]) - 1
    BY <1>2, <1>3, FS_RemoveElement
  <2>3. Cardinality(A[i]) <= Cardinality(A[j]) - 1
    BY <2>1, <2>2, FS_Subset
  <2>4. Cardinality(A[i]) \in Nat /\ Cardinality(A[j]) \in Nat
    BY <1>2
  <2>5. QED
    BY <2>3, <2>4
<1>4. ASSUME NEW i \in D, NEW j \in D, Cardinality(A[i]) = Cardinality(A[j]) PROVE i = j
  <2>1. Cardinality(A[i]) \in Nat /\ Cardinality(A[j]) \in Nat
    BY <1>2
  <2>2. SUFFICES ASSUME i # j PROVE FALSE
    OBVIOUS
  <2>3. i \in A[j] \/ j \in A[i]
    BY <2>2 DEF Ordered
  <2>4. Cardinality(A[i]) < Cardinality(A[j]) \/ Cardinality(A[j]) < Cardinality(A[i])
    BY <1>3, <2>3
  <2>5. QED
    BY <1>4, <2>1, <2>4
<1>5. P \in [D -> D]
  BY <1>2
<1>6. P \in Injection(D, D)
  <2>1. \A i \in D : \A j \in D : P[i] = P[j] => i = j
    BY <1>2, <1>4
  <2> HIDE DEF P
  <2>2. QED
    BY <1>5, <2>1 DEF Injection, IsInjective
<1>7. \A k \in D : \E i \in D : P[i] = k
  <2> HIDE DEF P
  <2>1. P \in Surjection(D, D)
    BY <1>1, <1>6, FS_Injection
  <2>2. QED
    BY <2>1 DEF Surjection
<1>8. ASSUME NEW k \in D PROVE Q[k] \in D /\ Cardinality(A[Q[k]]) = k - 1
  <2>1. PICK i \in D : P[i] = k
    BY <1>7
  <2>2. Cardinality(A[i]) = k - 1
    BY <1>2, <2>1
  <2>3. QED
    BY <2>2
<1>9. Q \in [D -> D]
  BY <1>8
<1>10. ASSUME NEW k \in D, NEW i \in D PROVE Cardinality(A[i]) = k - 1 <=> i = Q[k]
  <2>1. Q[k] \in D /\ Cardinality(A[Q[k]]) = k - 1
    BY <1>8
  <2> HIDE DEF D, Q, P
  <2>2. QED
    BY <1>4, <2>1
<1> HIDE DEF Q, P
<1>11. ASSUME NEW i \in D PROVE \E k \in D : Q[k] = i
  <2>1. P[i] \in D /\ P[i] = Cardinality(A[i]) + 1
    BY <1>5 DEF P
  <2>2. Cardinality(A[Q[P[i]]]) = P[i] - 1 /\ Q[P[i]] \in D
    BY <1>8, <2>1
  <2>3. Cardinality(A[Q[P[i]]]) = Cardinality(A[i])
    BY <1>2, <2>1, <2>2
  <2>4. Q[P[i]] = i
    BY <1>4, <2>2, <2>3
  <2>5. QED
    BY <2>1, <2>4
<1>12. ASSUME NEW k \in D, NEW l \in D, Q[k] = Q[l] PROVE k = l
  <2>1. k - 1 = l - 1
    BY <1>8, <1>12
  <2>2. QED
    BY <2>1
<1>13. ASSUME NEW k \in D, NEW l \in D, k < l PROVE Q[k] \in A[Q[l]]
  <2>1. Q[k] \in D /\ Q[l] \in D /\ Cardinality(A[Q[k]]) = k - 1 /\ Cardinality(A[Q[l]]) = l - 1
    BY <1>8
  <2>2. SUFFICES ASSUME Q[k] \notin A[Q[l]] PROVE FALSE
    OBVIOUS
  <2>3. Q[k] = Q[l] \/ Q[l] \in A[Q[k]]
    BY <2>1, <2>2 DEF Ordered
  <2>4. k = l \/ Cardinality(A[Q[l]]) < Cardinality(A[Q[k]])
    BY <1>3, <1>12, <2>1, <2>3
  <2>5. k = l \/ l - 1 < k - 1
    BY <2>1, <2>4
  <2>6. QED
    BY <1>13, <2>5
<1>14. Arranges(n, A, Q)
  BY <1>10, <1>11, <1>12, <1>13 DEF Arranges
<1>15. QED
  BY <1>9, <1>14

-----------------------------------------------------------------------------
(* Folds of sequences.                                                        *)

\* The steps of a fold, as FoldLeft computes them for every set of places.
Folds0(V, base, s, it) ==
  it = [t \in SUBSET DOMAIN s |-> IF t = {} THEN base ELSE V[it[t \ {Max(t)}]][s[Max(t)]]]

LEMMA GreatestPlace ==
  ASSUME NEW T, NEW s \in Seq(T)
  PROVE  /\ IsFiniteSet(DOMAIN s) /\ Cardinality(DOMAIN s) = Len(s)
         /\ Chooses([t \in SUBSET DOMAIN s |-> Max(t)], DOMAIN s)
         /\ \A t \in SUBSET DOMAIN s : t # {} => Max(t) \in t
<1>1. DOMAIN s = 1 .. Len(s) /\ Len(s) \in Nat
  BY LenProperties
<1>2. ASSUME NEW t \in SUBSET DOMAIN s, t # {} PROVE Max(t) \in t
  <2>1. t \in SUBSET Nat /\ \A n \in t : n <= Len(s)
    BY <1>1
  <2>2. QED
    BY <1>1, <1>2, <2>1, GreatestIsMax
<1>3. QED
  BY <1>1, <1>2, UpToSize DEF Chooses

FoldBy(V, base, s) == FoldLeft(LAMBDA f, t : V[f][t], base, s)

\* A fold by a function stays in what the function stays in.
LEMMA FoldStays ==
  ASSUME NEW X, NEW T, NEW V \in [X -> [T -> X]], NEW base \in X, NEW s \in Seq(T)
  PROVE  FoldBy(V, base, s) \in X
<1> DEFINE c == [t \in SUBSET DOMAIN s |-> Max(t)]
           D == DOMAIN s
           G == [x \in D |-> [y \in X |-> V[y][s[x]]]]
           it == CHOOSE i : Folds0(V, base, s, i)
<1>1. /\ IsFiniteSet(D) /\ Cardinality(D) = Len(s)
      /\ \A t \in SUBSET D : t # {} => Max(t) \in t
  BY GreatestPlace
<1>1a. \A x \in D : s[x] \in T
  BY LenProperties
<1>1b. Chooses(c, D)
  BY GreatestPlace
<1>2. G \in [D -> [X -> X]]
  BY <1>1a
<1>3. PICK g \in [SUBSET D -> X] : RecursOn(g, D, base, c, G)
  <2> HIDE DEF c, G, D
  <2>1. QED
    BY <1>1, <1>1b, <1>2, RecursionOnSets
<1>4. Folds0(V, base, s, g)
  <2>1. ASSUME NEW t \in SUBSET D, t # {} PROVE G[c[t]][g[t \ {c[t]}]] = V[g[t \ {Max(t)}]][s[Max(t)]]
    BY <2>1, <1>1
  <2> HIDE DEF c, G
  <2>2. QED
    BY <1>3, <2>1 DEF Folds0, RecursOn
<1>5. Folds0(V, base, s, it)
  BY <1>4
<1>6. FoldBy(V, base, s) = it[D]
  BY DEF FoldBy, FoldLeft, MapThenFoldSet, Folds0
<1> HIDE DEF it
<1> DEFINE P == {t \in SUBSET D : it[t] \in X}
<1>7. {} \in P
  BY <1>5 DEF Folds0
<1>8. ASSUME NEW t \in SUBSET D, t # {}, \A x \in t : t \ {x} \in P PROVE t \in P
  <2>1. Max(t) \in t /\ s[Max(t)] \in T
    BY <1>1, <1>1a, <1>8
  <2>2. it[t \ {Max(t)}] \in X
    BY <1>8, <2>1
  <2>3. it[t] = V[it[t \ {Max(t)}]][s[Max(t)]]
    BY <1>5, <1>8 DEF Folds0
  <2>4. QED
    BY <2>1, <2>2, <2>3
<1> HIDE DEF P
<1>9. P \in SUBSET (SUBSET D)
  BY DEF P
<1>10. P = SUBSET D
  <2>1. IsFiniteSet(D)
    BY <1>1
  <2>2. \A t \in SUBSET D : t # {} /\ (\A x \in t : t \ {x} \in P) => t \in P
    BY <1>8
  <2> HIDE DEF D, c, G
  <2>3. QED
    BY <2>1, <2>2, <1>7, <1>9, SetsUpwards
<1>11. QED
  BY <1>6, <1>10 DEF P

LEMMA FitsIn ==
  ASSUME NEW T, NEW n \in Nat, NEW s
  PROVE  s \in BoundedSeq(T, n) <=> s \in Seq(T) /\ Len(s) <= n
<1>1. ASSUME s \in BoundedSeq(T, n) PROVE s \in Seq(T) /\ Len(s) <= n
  <2>1. PICK m \in 0 .. n : s \in [1 .. m -> T]
    BY <1>1 DEF BoundedSeq, SeqOf
  <2>2. QED
    BY <2>1, IsSequence
<1>2. ASSUME s \in Seq(T), Len(s) <= n PROVE s \in BoundedSeq(T, n)
  <2>1. Len(s) \in 0 .. n /\ s \in [1 .. Len(s) -> T]
    BY <1>2, LenProperties
  <2>2. QED
    BY <2>1 DEF BoundedSeq, SeqOf
<1>3. QED
  BY <1>1, <1>2

\* A sequence is sorted by the ranks of its places.
Sorts(list, r, A, Q) ==
  /\ Arranges(Len(list), A, Q)
  /\ \A k \in 1 .. Len(list) : r[k] = list[Q[k]]
Ranked(list, r, A) ==
  /\ DOMAIN r = DOMAIN list /\ r = [k \in DOMAIN r |-> r[k]]
  /\ \A k \in DOMAIN list : \A i \in DOMAIN list : (\A j \in DOMAIN list : Cardinality(A[j]) = k - 1 <=> j = i) => r[k] = list[i]

LEMMA RanksSort ==
  ASSUME NEW T, NEW list \in Seq(T), NEW A \in [1 .. Len(list) -> SUBSET (1 .. Len(list))], Ordered(Len(list), A),
         NEW r, Ranked(list, r, A)
  PROVE  /\ r \in Seq(T) /\ Len(r) = Len(list)
         /\ \E Q \in [1 .. Len(list) -> 1 .. Len(list)] : Sorts(list, r, A, Q)
<1> DEFINE n == Len(list)
<1>1. n \in Nat /\ DOMAIN list = 1 .. n /\ \A i \in 1 .. n : list[i] \in T
  BY LenProperties
<1>2. PICK Q \in [1 .. n -> 1 .. n] : Arranges(n, A, Q)
  BY <1>1, RanksArrange
<1>3. ASSUME NEW k \in 1 .. n PROVE r[k] = list[Q[k]]
  <2>1. \A j \in 1 .. n : Cardinality(A[j]) = k - 1 <=> j = Q[k]
    BY <1>2 DEF Arranges
  <2>2. Q[k] \in 1 .. n
    OBVIOUS
  <2> HIDE DEF n
  <2>3. QED
    BY <1>1, <2>1, <2>2 DEF Ranked
<1>4. r \in [1 .. n -> T]
  <2>1. r = [k \in 1 .. n |-> r[k]]
    BY <1>1 DEF Ranked
  <2>2. \A k \in 1 .. n : r[k] \in T
    BY <1>1, <1>3
  <2>3. QED
    BY <2>1, <2>2
<1>5. r \in Seq(T) /\ Len(r) = n
  BY <1>1, <1>4, IsSequence
<1>6. Sorts(list, r, A, Q)
  BY <1>2, <1>3 DEF Sorts
<1>7. QED
  BY <1>5, <1>6

\* A suffix of a sequence.
LEMMA TheRest ==
  ASSUME NEW T, NEW s \in Seq(T), NEW n \in 0 .. Len(s)
  PROVE  /\ SubSeq(s, n + 1, Len(s)) \in Seq(T) /\ Len(SubSeq(s, n + 1, Len(s))) = Len(s) - n
         /\ \A j \in 1 .. Len(s) - n : SubSeq(s, n + 1, Len(s))[j] = s[j + n]
<1>1. Len(s) \in Nat
  BY LenProperties
<1> DEFINE m == n + 1
           l == Len(s)
<1>2. m \in 1 .. l + 1 /\ l \in m - 1 .. Len(s) /\ l - m + 1 = Len(s) - n /\ \A j \in 1 .. Len(s) - n : m + j - 1 = j + n
  BY <1>1
<1> HIDE DEF m, l
<1>3. /\ SubSeq(s, m, l) \in Seq(T) /\ Len(SubSeq(s, m, l)) = l - m + 1
      /\ \A j \in 1 .. l - m + 1 : SubSeq(s, m, l)[j] = s[m + j - 1]
  BY <1>2, SubSeqProperties
<1>4. QED
  BY <1>2, <1>3 DEF m, l

\* What each gets when the first n are served is n in all.
LEMMA EachIsServed ==
  ASSUME NEW C, IsFiniteSet(C), NEW u \in [C -> Nat], NEW n \in Nat, NEW own \in [1 .. n -> C]
  PROVE  SumOf([c \in C |-> u[c] + Cardinality({i \in 1 .. n : own[i] = c})], C) = SumOf(u, C) + n
<1> DEFINE Got(k, c) == {i \in 1 .. k : own[i] = c}
           U(k) == [c \in C |-> u[c] + Cardinality(Got(k, c))]
           P == {k \in Nat : k <= n => SumOf(U(k), C) = SumOf(u, C) + k}
<1>0. ASSUME NEW k \in Nat, NEW c \in C PROVE IsFiniteSet(Got(k, c)) /\ Cardinality(Got(k, c)) \in Nat /\ U(k)[c] \in Nat
  <2>1. Got(k, c) \in SUBSET (1 .. k)
    OBVIOUS
  <2>2. IsFiniteSet(1 .. k)
    BY UpToSize
  <2> HIDE DEF Got
  <2>3. IsFiniteSet(Got(k, c)) /\ Cardinality(Got(k, c)) \in Nat
    BY <2>1, <2>2, FS_Subset, FS_CardinalityType
  <2>4. QED
    BY <2>3
<1>0a. SumOf(u, C) \in Nat
  BY SumUnfolds
<1>1. 0 \in P
  <2>1. \A c \in C : Got(0, c) = {}
    OBVIOUS
  <2>2. \A c \in C : U(0)[c] = u[c]
    BY <2>1, FS_EmptySet
  <2> DEFINE v == U(0)
  <2> HIDE DEF U
  <2>3. SumOf(v, C) = SumOf(u, C)
    BY <2>2, SumIsTheSame
  <2>4. QED
    BY <1>0a, <2>3
<1>2. ASSUME NEW k \in Nat, k \in P PROVE k + 1 \in P
  <2>1. SUFFICES ASSUME k + 1 <= n PROVE SumOf(U(k + 1), C) = SumOf(u, C) + (k + 1)
    OBVIOUS
  <2>2. SumOf(U(k), C) = SumOf(u, C) + k
    BY <1>2, <2>1
  <2> DEFINE y == own[k + 1]
             a == U(k)
             b == U(k + 1)
  <2>3. y \in C
    BY <2>1
  <2>4. Got(k + 1, y) = Got(k, y) \cup {k + 1} /\ k + 1 \notin Got(k, y)
    OBVIOUS
  <2>5. \A c \in C \ {y} : Got(k + 1, c) = Got(k, c)
    OBVIOUS
  <2>6. Cardinality(Got(k + 1, y)) = Cardinality(Got(k, y)) + 1
    <3>1. IsFiniteSet(Got(k, y))
      BY <1>0, <2>3
    <3> HIDE DEF Got, y
    <3>2. QED
      BY <2>4, <3>1, FS_AddElement
  <2>7. k + 1 \in Nat
    OBVIOUS
  <2>8. \A c \in C : a[c] \in Nat /\ b[c] \in Nat
    BY <1>0, <2>7
  <2>9. \A c \in C \ {y} : b[c] = a[c]
    <3> HIDE DEF Got
    <3>1. QED
      BY <2>5
  <2>10. b[y] = a[y] + 1
    <3>1. Cardinality(Got(k, y)) \in Nat /\ u[y] \in Nat
      BY <1>0, <2>3
    <3> HIDE DEF Got, y
    <3>2. QED
      BY <2>3, <2>6, <3>1
  <2> HIDE DEF a, b, y
  <2>11. SumOf(b, C) = SumOf(a, C) - a[y] + b[y]
    BY <2>3, <2>8, <2>9, SumOfOneChange
  <2>12. SumOf(a, C) = SumOf(u, C) + k
    BY <2>2 DEF a
  <2>13. a[y] \in Nat
    BY <2>3, <2>8
  <2>14. SumOf(b, C) = SumOf(u, C) + (k + 1)
    BY <1>0a, <2>10, <2>11, <2>12, <2>13
  <2>15. QED
    BY <2>14 DEF b
<1> HIDE DEF P
<1>3. P \in SUBSET Nat
  BY DEF P
<1>4. P = Nat
  BY <1>1, <1>2, <1>3, NatUpwards
<1>5. n \in P
  BY <1>4
<1>6. n <= n
  OBVIOUS
<1>7. QED
  BY <1>5, <1>6 DEF P

-----------------------------------------------------------------------------
(* The circuit breakers.                                                      *)

\* UpTo keeps elements, and so no more than there are.
UpToSteps(limit, s, it) ==
  it = [t \in SUBSET DOMAIN s |->
          IF t = {} THEN <<>>
          ELSE IF s[Max(t)] <= limit THEN Append(it[t \ {Max(t)}], s[Max(t)]) ELSE it[t \ {Max(t)}]]
LEMMA UpToKeeps ==
  ASSUME NEW T, NEW s \in Seq(T), NEW limit
  PROVE  UpTo(limit, s) \in Seq(T) /\ Len(UpTo(limit, s)) <= Len(s)
<1> DEFINE c == [t \in SUBSET DOMAIN s |-> Max(t)]
           D == DOMAIN s
           X == Seq(T)
           G == [x \in D |-> [y \in X |-> IF s[x] <= limit THEN Append(y, s[x]) ELSE y]]
           it == CHOOSE i : UpToSteps(limit, s, i)
<1>1. /\ IsFiniteSet(D) /\ Cardinality(D) = Len(s)
      /\ \A t \in SUBSET D : t # {} => Max(t) \in t
  BY GreatestPlace
<1>1a. \A x \in D : s[x] \in T
  BY LenProperties
<1>1b. Chooses(c, D)
  BY GreatestPlace
<1>2. G \in [D -> [X -> X]]
  <2>1. ASSUME NEW x \in D, NEW y \in X PROVE Append(y, s[x]) \in X
    BY <1>1a, AppendProperties
  <2> HIDE DEF X, D
  <2>2. QED
    BY <2>1
<1>2a. <<>> \in X
  OBVIOUS
<1>3. PICK g \in [SUBSET D -> X] : RecursOn(g, D, <<>>, c, G)
  <2> HIDE DEF c, G, X
  <2>1. IsFiniteSet(D) /\ Chooses(c, D)
    BY <1>1, <1>1b
  <2> HIDE DEF D
  <2>2. QED
    BY <2>1, <1>2, <1>2a, RecursionOnSets
<1>4. UpToSteps(limit, s, g)
  <2>1. ASSUME NEW t \in SUBSET D, t # {}
        PROVE  G[c[t]][g[t \ {c[t]}]] = IF s[Max(t)] <= limit THEN Append(g[t \ {Max(t)}], s[Max(t)]) ELSE g[t \ {Max(t)}]
    <3>1. c[t] = Max(t) /\ Max(t) \in D /\ t \ {Max(t)} \in SUBSET D
      BY <2>1, <1>1
    <3>2. g[t \ {Max(t)}] \in X
      BY <3>1
    <3> HIDE DEF c, X, D
    <3>3. QED
      BY <3>1, <3>2
  <2> HIDE DEF c, G, X
  <2>2. g = [t \in SUBSET D |-> IF t = {} THEN <<>> ELSE G[c[t]][g[t \ {c[t]}]]]
    BY <1>3 DEF RecursOn
  <2>3. QED
    BY <2>1, <2>2 DEF UpToSteps
<1>5. UpToSteps(limit, s, it)
  BY <1>4
<1>6. UpTo(limit, s) = it[D]
  BY DEF UpTo, FoldLeft, MapThenFoldSet, UpToSteps
<1> HIDE DEF it
<1> DEFINE P == {t \in SUBSET D : it[t] \in Seq(T) /\ Len(it[t]) <= Cardinality(t)}
<1>7. {} \in P
  <2>1. it[{}] = <<>>
    BY <1>5 DEF UpToSteps
  <2>2. Cardinality({}) = 0
    BY FS_EmptySet
  <2>3. <<>> \in Seq(T) /\ Len(<<>>) = 0
    OBVIOUS
  <2>4. it[{}] \in Seq(T) /\ Len(it[{}]) <= Cardinality({})
    BY <2>1, <2>2, <2>3
  <2>5. {} \in SUBSET D
    OBVIOUS
  <2> HIDE DEF D
  <2>6. QED
    BY <2>4, <2>5
<1>8. ASSUME NEW t \in SUBSET D, t # {}, \A x \in t : t \ {x} \in P PROVE t \in P
  <2> DEFINE m == Max(t)
             rest == it[t \ {m}]
  <2>1. m \in t /\ s[m] \in T /\ IsFiniteSet(t)
    BY <1>1, <1>1a, <1>8, FS_Subset
  <2>2. rest \in Seq(T) /\ Len(rest) <= Cardinality(t \ {m})
    BY <1>8, <2>1
  <2>3. it[t] = IF s[m] <= limit THEN Append(rest, s[m]) ELSE rest
    BY <1>5, <1>8 DEF UpToSteps
  <2>4. Cardinality(t \ {m}) = Cardinality(t) - 1 /\ Cardinality(t) \in Nat
    BY <2>1, FS_RemoveElement, FS_CardinalityType
  <2> HIDE DEF m, rest
  <2>5. s[m] <= limit => Append(rest, s[m]) \in Seq(T) /\ Len(Append(rest, s[m])) = Len(rest) + 1
    BY <2>1, <2>2, AppendProperties
  <2>6. Len(rest) \in Nat
    BY <2>2, LenProperties
  <2>7. it[t] \in Seq(T) /\ Len(it[t]) <= Cardinality(t)
    BY <2>2, <2>3, <2>4, <2>5, <2>6
  <2>8. QED
    BY <2>7
<1> HIDE DEF P
<1>9. P \in SUBSET (SUBSET D)
  BY DEF P
<1>10. P = SUBSET D
  <2>1. IsFiniteSet(D)
    BY <1>1
  <2> HIDE DEF D
  <2>2. QED
    BY <2>1, <1>7, <1>8, <1>9, SetsUpwards
<1>11. D \in P
  BY <1>10
<1>12. QED
  BY <1>1, <1>6, <1>11 DEF P

CircuitRecord == [state : {"closed", "open", "half_open"}, successes : 0 .. SuccessThreshold - 1,
                  failures : Seq(0 .. Window), since : 0 .. OpenTimeout]
Circuits == {c \in CircuitRecord : Len(c.failures) <= FailureThreshold}

LEMMA ResilienceBounds ==
  /\ MaxRetries \in Nat /\ MaxStrays \in Nat /\ FailureThreshold \in Nat /\ FailureThreshold >= 1
  /\ SuccessThreshold \in Nat /\ SuccessThreshold >= 1 /\ OpenTimeout \in Nat /\ OpenTimeout >= 1
  /\ Window \in Nat /\ Window >= 1
BY ResilienceAssumption

LEMMA FailuresFit ==
  ASSUME NEW T, NEW f \in Seq(T), NEW n \in Nat, n >= 1, Len(f) <= n, NEW x \in T
  PROVE  LET all == Append(f, x)
             kept == IF Len(all) > n THEN Tail(all) ELSE all
         IN kept \in Seq(T) /\ Len(kept) <= n
<1> DEFINE all == Append(f, x)
<1>1. all \in Seq(T) /\ Len(all) = Len(f) + 1 /\ Len(f) \in Nat
  BY AppendProperties, LenProperties
<1>2. all # <<>>
  <2> HIDE DEF all
  <2>1. Len(<<>>) = 0
    OBVIOUS
  <2>2. QED
    BY <1>1, <2>1
<1>3. Tail(all) \in Seq(T) /\ Len(Tail(all)) = Len(all) - 1
  <2> HIDE DEF all
  <2>1. QED
    BY <1>1, <1>2, HeadTailProperties
<1> HIDE DEF all
<1>4. QED
  BY <1>1, <1>3 DEF all

LEMMA CircuitsStay ==
  ASSUME NEW c \in Circuits
  PROVE  /\ Closed \in Circuits /\ CheckState(c) \in Circuits
         /\ OnSuccess(c) \in Circuits /\ OnFailure(c) \in Circuits
<1>0. c \in CircuitRecord /\ Len(c.failures) <= FailureThreshold
  BY DEF Circuits
<1> DEFINE r == Recent(c.failures)
           p == Pushed(c.failures)
           q == Recent(p)
<1>1. ASSUME NEW f \in Seq(0 .. Window), Len(f) <= FailureThreshold
      PROVE  Recent(f) \in Seq(0 .. Window) /\ Len(Recent(f)) <= FailureThreshold
  <2>1. Recent(f) \in Seq(0 .. Window) /\ Len(Recent(f)) <= Len(f)
    BY UpToKeeps DEF Recent
  <2>2. Len(Recent(f)) \in Nat /\ Len(f) \in Nat
    BY <2>1, LenProperties
  <2>3. QED
    BY <1>1, <2>1, <2>2, ResilienceBounds
<1>2. c.failures \in Seq(0 .. Window)
  BY <1>0 DEF CircuitRecord
<1>3. p \in Seq(0 .. Window) /\ Len(p) <= FailureThreshold
  <2>1. 0 \in 0 .. Window
    BY ResilienceBounds
  <2>2. QED
    BY <1>0, <1>2, <2>1, FailuresFit, ResilienceBounds DEF Pushed
<1>4. r \in Seq(0 .. Window) /\ Len(r) <= FailureThreshold
  <2> HIDE DEF p
  <2>1. QED
    BY <1>0, <1>1, <1>2
<1>5. q \in Seq(0 .. Window) /\ Len(q) <= FailureThreshold
  <2> HIDE DEF p
  <2>1. QED
    BY <1>1, <1>3
<1> HIDE DEF r, q, p
<1>6. ASSUME NEW f \in Seq(0 .. Window), Len(f) <= FailureThreshold
      PROVE  [c EXCEPT !.failures = f] \in Circuits
  BY <1>0, <1>6 DEF Circuits, CircuitRecord
<1>7. ASSUME NEW d \in Circuits, NEW state \in {"closed", "open", "half_open"}
      PROVE  TransitionTo(d, state) \in Circuits
  <2>1. d \in CircuitRecord /\ Len(d.failures) <= FailureThreshold /\ 0 \in 0 .. OpenTimeout
    BY ResilienceBounds DEF Circuits
  <2>2. TransitionTo(d, state) = [d EXCEPT !.state = state, !.since = 0]
    BY DEF TransitionTo
  <2>3. TransitionTo(d, state) \in CircuitRecord /\ TransitionTo(d, state).failures = d.failures
    BY <1>7, <2>1, <2>2 DEF CircuitRecord
  <2>4. QED
    BY <2>1, <2>3 DEF Circuits
<1>8. Closed \in Circuits
  BY ResilienceBounds DEF Circuits, CircuitRecord, Closed
<1>9. CheckState(c) \in Circuits
  BY <1>7 DEF CheckState
<1>10. OnSuccess(c) \in Circuits
  <2>1. CASE c.state = "half_open" /\ c.successes + 1 >= SuccessThreshold
    BY <2>1, <1>7, <1>8 DEF OnSuccess
  <2>2. CASE c.state = "half_open" /\ ~(c.successes + 1 >= SuccessThreshold)
    <3>1. c.successes + 1 \in 0 .. SuccessThreshold - 1
      BY <1>0, <2>2, ResilienceBounds DEF CircuitRecord
    <3>2. [c EXCEPT !.successes = c.successes + 1] \in Circuits
      BY <1>0, <3>1 DEF Circuits, CircuitRecord
    <3>3. QED
      BY <2>2, <3>2 DEF OnSuccess
  <2>3. CASE c.state # "half_open"
    <3>1. OnSuccess(c) = IF c.state = "closed" THEN [c EXCEPT !.failures = r] ELSE c
      BY <2>3 DEF OnSuccess, r
    <3>2. QED
      BY <3>1, <1>4, <1>6
  <2>4. QED
    BY <2>1, <2>2, <2>3
<1>11. OnFailure(c) \in Circuits
  <2> DEFINE failed == [c EXCEPT !.failures = p]
             recent == [failed EXCEPT !.failures = q]
  <2>1. failed \in Circuits /\ failed.failures = p
    <3>1. failed.failures = p
      BY <1>0 DEF CircuitRecord
    <3>2. QED
      BY <1>3, <1>6, <3>1
  <2>2. recent = [c EXCEPT !.failures = q]
    BY <1>0 DEF CircuitRecord
  <2>3. recent \in Circuits
    BY <2>2, <1>5, <1>6
  <2>4. recent = [failed EXCEPT !.failures = Recent(failed.failures)]
    BY <2>1 DEF q
  <2> DEFINE opened == TransitionTo(failed, "open")
  <2>5. opened \in Circuits
    <3> HIDE DEF failed
    <3>1. QED
      BY <2>1, <1>7
  <2>6. [opened EXCEPT !.successes = 0] \in Circuits
    <3> HIDE DEF opened
    <3>1. 0 \in 0 .. SuccessThreshold - 1
      BY ResilienceBounds
    <3>2. QED
      BY <2>5, <3>1 DEF Circuits, CircuitRecord
  <2>7. TransitionTo(recent, "open") \in Circuits
    <3> HIDE DEF recent
    <3>1. QED
      BY <2>3, <1>7
  <2>8. c.state \in {"closed", "open", "half_open"}
    BY <1>0 DEF CircuitRecord
  <2>9. OnFailure(c) =
         CASE c.state = "half_open" -> [opened EXCEPT !.successes = 0]
           [] c.state = "closed" -> IF Len(recent.failures) >= FailureThreshold THEN TransitionTo(recent, "open") ELSE recent
           [] c.state = "open" -> failed
    <3>1. [c EXCEPT !.failures = Pushed(c.failures)] = failed
      BY DEF p
    <3> HIDE DEF failed, recent, opened
    <3>2. QED
      BY <2>4, <3>1 DEF OnFailure, opened, TransitionTo
  <2> HIDE DEF failed, recent, opened
  <2>10. QED
    BY <2>1, <2>3, <2>6, <2>7, <2>8, <2>9
<1>12. QED
  BY <1>8, <1>9, <1>10, <1>11

CallRecord == [at : {"idle", "running", "backoff"}, attempts : 0 .. MaxRetries + 1]
ResilienceInv ==
  /\ circuit \in Circuits /\ calls \in [Caller -> CallRecord] /\ strays \in 0 .. MaxStrays /\ healthy \in BOOLEAN
  /\ \A c \in Caller : /\ calls[c].at = "idle" => calls[c].attempts = 0
                       /\ calls[c].at = "backoff" => calls[c].attempts <= MaxRetries

LEMMA ResilienceStarts == ResilienceInit => ResilienceInv
<1> SUFFICES ASSUME ResilienceInit PROVE ResilienceInv
  OBVIOUS
<1>1. Closed \in Circuits
  BY ResilienceBounds DEF Circuits, CircuitRecord, Closed
<1>2. [at |-> "idle", attempts |-> 0] \in CallRecord
  BY ResilienceBounds DEF CallRecord
<1>3. QED
  BY <1>1, <1>2, ResilienceBounds DEF ResilienceInit, ResilienceInv

\* One caller's record changes.
LEMMA CallerMoves ==
  ASSUME ResilienceInv, NEW c \in Caller, NEW r \in CallRecord,
         r.at = "idle" => r.attempts = 0, r.at = "backoff" => r.attempts <= MaxRetries,
         calls' = [calls EXCEPT ![c] = r], circuit' \in Circuits, strays' \in 0 .. MaxStrays, healthy' = healthy
  PROVE  ResilienceInv'
<1>1. calls' \in [Caller -> CallRecord]
  BY DEF ResilienceInv
<1>2. ASSUME NEW d \in Caller
      PROVE  /\ calls'[d].at = "idle" => calls'[d].attempts = 0
             /\ calls'[d].at = "backoff" => calls'[d].attempts <= MaxRetries
  <2>1. calls'[d] = IF d = c THEN r ELSE calls[d]
    BY DEF ResilienceInv
  <2>2. CASE d = c
    BY <2>1, <2>2
  <2>3. CASE d # c
    BY <2>1, <2>3 DEF ResilienceInv
  <2>4. QED
    BY <2>2, <2>3
<1>3. healthy' \in BOOLEAN
  BY DEF ResilienceInv
<1>4. QED
  BY <1>1, <1>2, <1>3 DEF ResilienceInv

LEMMA ResilienceKeeps == ResilienceInv /\ [ResilienceNext]_resilienceVars => ResilienceInv'
<1> SUFFICES ASSUME ResilienceInv, [ResilienceNext]_resilienceVars PROVE ResilienceInv'
  OBVIOUS
<1>0. /\ circuit \in Circuits /\ calls \in [Caller -> CallRecord] /\ strays \in 0 .. MaxStrays /\ healthy \in BOOLEAN
      /\ \A c \in Caller : /\ calls[c].at = "idle" => calls[c].attempts = 0
                           /\ calls[c].at = "backoff" => calls[c].attempts <= MaxRetries
  BY DEF ResilienceInv
<1>0a. ASSUME NEW ok \in BOOLEAN, Ends(ok) PROVE circuit' \in Circuits
  BY <1>0, <1>0a, CircuitsStay DEF Ends
<1>0b. [at |-> "idle", attempts |-> 0] \in CallRecord
  BY ResilienceBounds DEF CallRecord
<1>1. ASSUME NEW c \in Caller, CallBegins(c) \/ SleepOver(c) PROVE ResilienceInv'
  <2>1. /\ Attempt(c) /\ calls[c].attempts \in 0 .. MaxRetries
    BY <1>0, <1>1, ResilienceBounds DEF CallBegins, SleepOver, CallRecord
  <2>2. circuit' \in Circuits
    BY <1>0, <2>1, CircuitsStay DEF Attempt
  <2> DEFINE r == IF circuit'.state = "open" THEN [at |-> "idle", attempts |-> 0]
                  ELSE [at |-> "running", attempts |-> calls[c].attempts + 1]
  <2>3. r \in CallRecord /\ (r.at = "idle" => r.attempts = 0) /\ r.at # "backoff"
    BY <2>1, <1>0b, ResilienceBounds DEF CallRecord
  <2>4. calls' = [calls EXCEPT ![c] = r]
    BY <2>1 DEF Attempt
  <2>5. strays' = strays /\ healthy' = healthy
    BY <2>1 DEF Attempt
  <2> HIDE DEF r
  <2>6. QED
    BY <1>0, <2>2, <2>3, <2>4, <2>5, CallerMoves
<1>2. ASSUME NEW c \in Caller, NEW type, calls[c].at = "running", AfterFailure(c, type),
             circuit' \in Circuits, strays' \in 0 .. MaxStrays, healthy' = healthy
      PROVE  ResilienceInv'
  <2> DEFINE r == IF ~Retriable(type) \/ calls[c].attempts > MaxRetries THEN [at |-> "idle", attempts |-> 0]
                  ELSE [calls[c] EXCEPT !.at = "backoff"]
  <2>1. calls[c] \in CallRecord
    BY <1>0
  <2>2. r \in CallRecord /\ (r.at = "idle" => r.attempts = 0) /\ (r.at = "backoff" => r.attempts <= MaxRetries)
    <3>1. CASE ~Retriable(type) \/ calls[c].attempts > MaxRetries
      BY <3>1, <1>0b
    <3>2. CASE ~(~Retriable(type) \/ calls[c].attempts > MaxRetries)
      <4>1. r = [calls[c] EXCEPT !.at = "backoff"]
        BY <3>2
      <4> HIDE DEF r
      <4>2. r \in CallRecord /\ r.at = "backoff" /\ r.attempts = calls[c].attempts
        BY <4>1, <2>1 DEF CallRecord
      <4>3. QED
        BY <2>1, <3>2, <4>2, ResilienceBounds DEF CallRecord
    <3>3. QED
      BY <3>1, <3>2
  <2>3. calls' = [calls EXCEPT ![c] = r]
    BY <1>2 DEF AfterFailure
  <2> HIDE DEF r
  <2>4. QED
    BY <1>2, <2>2, <2>3, CallerMoves
<1>3. ASSUME NEW c \in Caller, Answered(c) PROVE ResilienceInv'
  <2>1. calls[c].at = "running" /\ strays' = strays /\ healthy' = healthy /\ strays' \in 0 .. MaxStrays
    BY <1>0, <1>3 DEF Answered
  <2>2. CASE Ends(TRUE) /\ calls' = [calls EXCEPT ![c] = [at |-> "idle", attempts |-> 0]]
    <3>1. circuit' \in Circuits
      BY <1>0a, <2>2
    <3> DEFINE r == [at |-> "idle", attempts |-> 0]
    <3>2. r \in CallRecord /\ r.attempts = 0 /\ r.at = "idle" /\ calls' = [calls EXCEPT ![c] = r]
      BY <2>2, <1>0b
    <3> HIDE DEF r
    <3>3. QED
      BY <2>1, <3>1, <3>2, CallerMoves
  <2>3. CASE Ends(FALSE) /\ \E m \in Messages : AfterFailure(c, Classify(m))
    <3>1. PICK m \in Messages : AfterFailure(c, Classify(m))
      BY <2>3
    <3>2. circuit' \in Circuits
      BY <1>0a, <2>3
    <3>3. QED
      BY <1>2, <2>1, <3>1, <3>2
  <2>4. QED
    BY <1>3, <2>2, <2>3 DEF Answered
<1>4. ASSUME NEW c \in Caller, TimesOut(c) PROVE ResilienceInv'
  <2>1. /\ calls[c].at = "running" /\ healthy' = healthy /\ circuit' = circuit
        /\ AfterFailure(c, Classify({"timeout"})) /\ strays' = strays + 1 /\ strays < MaxStrays
    BY <1>4 DEF TimesOut
  <2>2. strays' \in 0 .. MaxStrays
    BY <1>0, <2>1, ResilienceBounds
  <2>3. QED
    BY <1>0, <1>2, <2>1, <2>2
<1>5. ASSUME circuit' \in Circuits, calls' = calls, strays' \in 0 .. MaxStrays, healthy' \in BOOLEAN PROVE ResilienceInv'
  BY <1>0, <1>5 DEF ResilienceInv
<1>6. ASSUME StrayEnds PROVE ResilienceInv'
  <2>1. calls' = calls /\ healthy' = healthy /\ strays > 0 /\ strays' = strays - 1 /\ (Ends(TRUE) \/ Ends(FALSE))
    BY <1>6 DEF StrayEnds
  <2>2. strays' \in 0 .. MaxStrays
    BY <1>0, <2>1, ResilienceBounds
  <2>3. circuit' \in Circuits
    BY <1>0a, <2>1
  <2>4. QED
    BY <1>0, <1>5, <2>1, <2>2, <2>3
<1>7. ASSUME Reset PROVE ResilienceInv'
  <2>1. circuit' \in Circuits
    BY <1>0, <1>7, CircuitsStay DEF Reset
  <2>2. QED
    BY <1>0, <1>5, <1>7, <2>1 DEF Reset
<1>8. ASSUME ServiceChanges \/ UNCHANGED resilienceVars PROVE ResilienceInv'
  <2>1. circuit' = circuit /\ calls' = calls /\ strays' = strays /\ healthy' \in BOOLEAN
    BY <1>0, <1>8 DEF ServiceChanges, resilienceVars
  <2>2. QED
    BY <1>0, <1>5, <2>1
<1>9. ASSUME ResilienceTick PROVE ResilienceInv'
  <2>1. circuit \in CircuitRecord /\ Len(circuit.failures) <= FailureThreshold
    BY <1>0 DEF Circuits
  <2> DEFINE s == IF circuit.since < OpenTimeout THEN circuit.since + 1 ELSE circuit.since
             f == [i \in DOMAIN circuit.failures |-> Elapsed(circuit.failures[i])]
  <2>2. s \in 0 .. OpenTimeout
    BY <2>1, ResilienceBounds DEF CircuitRecord
  <2>3. f \in Seq(0 .. Window) /\ Len(f) = Len(circuit.failures)
    <3>1. /\ Len(circuit.failures) \in Nat /\ DOMAIN circuit.failures = 1 .. Len(circuit.failures)
          /\ \A i \in 1 .. Len(circuit.failures) : circuit.failures[i] \in 0 .. Window
      BY <2>1, LenProperties DEF CircuitRecord
    <3>2. \A a \in 0 .. Window : Elapsed(a) \in 0 .. Window
      BY ResilienceBounds DEF Elapsed
    <3>3. f \in [1 .. Len(circuit.failures) -> 0 .. Window]
      BY <3>1, <3>2
    <3> HIDE DEF f
    <3>4. QED
      BY <3>1, <3>3, IsSequence
  <2>4. circuit' = [circuit EXCEPT !.since = s, !.failures = f]
    BY <1>9 DEF ResilienceTick
  <2> HIDE DEF s, f
  <2>5. circuit' \in Circuits
    BY <2>1, <2>2, <2>3, <2>4 DEF Circuits, CircuitRecord
  <2>6. QED
    BY <1>0, <1>5, <1>9, <2>5 DEF ResilienceTick
<1>10. QED
  BY <1>1, <1>3, <1>4, <1>6, <1>7, <1>8, <1>9 DEF ResilienceNext

LEMMA ResilienceTypes == ResilienceInv => ResilienceTypeOK
<1> SUFFICES ASSUME ResilienceInv PROVE ResilienceTypeOK
  OBVIOUS
<1>1. circuit \in CircuitRecord /\ Len(circuit.failures) <= FailureThreshold
  BY DEF ResilienceInv, Circuits
<1>2. circuit.failures \in BoundedSeq(0 .. Window, FailureThreshold)
  BY <1>1, FitsIn, ResilienceBounds DEF CircuitRecord
<1>3. QED
  BY <1>1, <1>2 DEF ResilienceInv, ResilienceTypeOK, CircuitRecord, CallRecord

-----------------------------------------------------------------------------
(* The circuit breaker of one process.                                        *)

BreakerRecord == [state : {"closed", "open", "half-open"}, successes : 0 .. CloseAfter,
                  failures : Seq(0 .. FailureWindow + 1), since : 0 .. ResetTimeout]
Breakers == {b \in BreakerRecord : Len(b.failures) <= TripAfter}

LEMMA BreakerBounds ==
  /\ MaxThrough \in Nat /\ MaxForced \in Nat /\ TripAfter \in Nat /\ TripAfter >= 1 /\ CloseAfter \in Nat /\ CloseAfter >= 1
  /\ ResetTimeout \in Nat /\ FailureWindow \in Nat
BY BreakerAssumption

LEMMA BreakersStay ==
  ASSUME NEW b \in Breakers
  PROVE  Fresh0 \in Breakers /\ Probed(b) \in Breakers /\ Succeeded(b) \in Breakers /\ Failed(b) \in Breakers
<1>0. b \in BreakerRecord /\ Len(b.failures) <= TripAfter /\ b.failures \in Seq(0 .. FailureWindow + 1)
  BY DEF Breakers, BreakerRecord
<1>1. ASSUME NEW d \in Breakers, NEW state \in {"closed", "open", "half-open"}
      PROVE  Turned(d, state) \in Breakers
  <2>1. d \in BreakerRecord /\ Len(d.failures) <= TripAfter /\ 0 \in 0 .. ResetTimeout
    BY BreakerBounds DEF Breakers
  <2> DEFINE e == [d EXCEPT !.state = state, !.since = 0]
  <2>2. e \in BreakerRecord /\ e.failures = d.failures
    BY <1>1, <2>1 DEF BreakerRecord
  <2>3. e \in Breakers
    <3> HIDE DEF e
    <3>1. QED
      BY <2>1, <2>2 DEF Breakers
  <2>4. QED
    BY <1>1, <2>3 DEF Turned
<1>2. ASSUME NEW d \in Breakers, NEW f \in Seq(0 .. FailureWindow + 1), Len(f) <= TripAfter
      PROVE  [d EXCEPT !.failures = f] \in Breakers
  <2>1. d \in BreakerRecord
    BY DEF Breakers
  <2> DEFINE e == [d EXCEPT !.failures = f]
  <2>2. e \in BreakerRecord /\ e.failures = f
    BY <2>1 DEF BreakerRecord
  <2> HIDE DEF e
  <2>3. e \in Breakers
    BY <1>2, <2>2 DEF Breakers
  <2>4. QED
    BY <2>3 DEF e
<1>3. ASSUME NEW d \in Breakers, NEW n \in 0 .. CloseAfter
      PROVE  [d EXCEPT !.successes = n] \in Breakers
  <2>1. d \in BreakerRecord /\ Len(d.failures) <= TripAfter
    BY DEF Breakers
  <2> DEFINE e == [d EXCEPT !.successes = n]
  <2>2. e \in BreakerRecord /\ e.failures = d.failures
    BY <2>1 DEF BreakerRecord
  <2> HIDE DEF e
  <2>3. e \in Breakers
    BY <2>1, <2>2 DEF Breakers
  <2>4. QED
    BY <2>3 DEF e
<1>4. Fresh0 \in Breakers
  BY BreakerBounds DEF Fresh0, Breakers, BreakerRecord
<1>5. Probed(b) \in Breakers
  BY <1>1 DEF Probed
<1>6. Succeeded(b) \in Breakers
  <2> DEFINE n == IF b.successes < CloseAfter THEN b.successes + 1 ELSE b.successes
             succeeded == [b EXCEPT !.successes = n]
             closed == Turned(succeeded, "closed")
             emptied == [closed EXCEPT !.failures = <<>>]
  <2>1. n \in 0 .. CloseAfter
    BY <1>0, BreakerBounds DEF BreakerRecord
  <2>2. succeeded \in Breakers
    <3> HIDE DEF n
    <3>1. QED
      BY <1>3, <2>1
  <2>3. closed \in Breakers
    <3> HIDE DEF succeeded
    <3>1. QED
      BY <1>1, <2>2
  <2>4. emptied \in Breakers
    <3> HIDE DEF closed
    <3>1. <<>> \in Seq(0 .. FailureWindow + 1) /\ Len(<<>>) <= TripAfter
      BY BreakerBounds
    <3>2. QED
      BY <1>2, <2>3, <3>1
  <2>5. Succeeded(b) \in {succeeded, emptied}
    <3>1. succeeded = [b EXCEPT !.successes = IF b.successes < CloseAfter THEN b.successes + 1 ELSE b.successes]
      OBVIOUS
    <3> HIDE DEF succeeded
    <3>2. QED
      BY <3>1 DEF Succeeded
  <2> HIDE DEF succeeded, emptied
  <2>6. QED
    BY <2>2, <2>4, <2>5
<1>7. Failed(b) \in Breakers
  <2> DEFINE recent == UpTo(FailureWindow, b.failures)
             all == Append(recent, 0)
             kept == IF Len(all) > TripAfter THEN Tail(all) ELSE all
             failed == [b EXCEPT !.failures = kept]
             opened == Turned(failed, "open")
             emptied == [opened EXCEPT !.successes = 0]
  <2>1. recent \in Seq(0 .. FailureWindow + 1) /\ Len(recent) <= TripAfter
    <3>1. recent \in Seq(0 .. FailureWindow + 1) /\ Len(recent) <= Len(b.failures)
      BY <1>0, UpToKeeps
    <3> HIDE DEF recent
    <3>2. Len(recent) \in Nat /\ Len(b.failures) \in Nat
      BY <1>0, <3>1, LenProperties
    <3>3. QED
      BY <1>0, <3>1, <3>2, BreakerBounds
  <2>2. kept \in Seq(0 .. FailureWindow + 1) /\ Len(kept) <= TripAfter
    <3> HIDE DEF recent
    <3>1. 0 \in 0 .. FailureWindow + 1
      BY BreakerBounds
    <3>2. QED
      BY <2>1, <3>1, FailuresFit, BreakerBounds
  <2>3. failed \in Breakers
    <3> HIDE DEF kept
    <3>1. QED
      BY <1>2, <2>2
  <2>4. opened \in Breakers
    <3> HIDE DEF failed
    <3>1. QED
      BY <1>1, <2>3
  <2>5. emptied \in Breakers
    <3> HIDE DEF opened
    <3>1. 0 \in 0 .. CloseAfter
      BY BreakerBounds
    <3>2. QED
      BY <1>3, <2>4, <3>1
  <2>6. Failed(b) \in {failed, emptied}
    <3>1. failed = [b EXCEPT !.failures = LET l == Append(UpTo(FailureWindow, b.failures), 0)
                                           IN IF Len(l) > TripAfter THEN Tail(l) ELSE l]
      OBVIOUS
    <3> HIDE DEF failed
    <3>2. QED
      BY <3>1 DEF Failed
  <2> HIDE DEF failed, emptied
  <2>7. QED
    BY <2>3, <2>5, <2>6
<1>8. QED
  BY <1>4, <1>5, <1>6, <1>7

BreakerInv == breaker \in Breakers /\ through \in 0 .. MaxThrough /\ sound \in BOOLEAN /\ forced \in 0 .. MaxForced

LEMMA BreakerStarts == BreakerInit => BreakerInv
<1>1. Fresh0 \in Breakers
  BY BreakerBounds DEF Fresh0, Breakers, BreakerRecord
<1>2. QED
  BY <1>1, BreakerBounds DEF BreakerInit, BreakerInv

LEMMA BreakerKeeps == BreakerInv /\ [BreakerNext]_breakerVars => BreakerInv'
<1> SUFFICES ASSUME BreakerInv, [BreakerNext]_breakerVars PROVE BreakerInv'
  OBVIOUS
<1>0. breaker \in Breakers /\ through \in 0 .. MaxThrough /\ sound \in BOOLEAN /\ forced \in 0 .. MaxForced
  BY DEF BreakerInv
<1>1. Fresh0 \in Breakers /\ Probed(breaker) \in Breakers /\ Succeeded(breaker) \in Breakers /\ Failed(breaker) \in Breakers
  BY <1>0, BreakersStay
<1>2. CASE Execute
  <2>1. through < MaxThrough /\ breaker' = Probed(breaker) /\ through' \in {through, through + 1} /\ sound' = sound /\ forced' = forced
    BY <1>2 DEF Execute
  <2>2. through' \in 0 .. MaxThrough
    BY <1>0, <2>1, BreakerBounds
  <2>3. QED
    BY <1>0, <1>1, <2>1, <2>2 DEF BreakerInv
<1>3. CASE ExecuteEnds
  <2>1. through > 0 /\ breaker' \in {Succeeded(breaker), Failed(breaker)} /\ through' = through - 1 /\ sound' = sound /\ forced' = forced
    BY <1>3 DEF ExecuteEnds
  <2>2. through' \in 0 .. MaxThrough
    BY <1>0, <2>1, BreakerBounds
  <2>3. QED
    BY <1>0, <1>1, <2>1, <2>2 DEF BreakerInv
<1>4. CASE CurrentState
  BY <1>0, <1>1, <1>4 DEF CurrentState, BreakerInv
<1>5. CASE BreakerReset
  <2>1. forced' \in 0 .. MaxForced
    BY <1>0, <1>5, BreakerBounds DEF BreakerReset
  <2>2. QED
    BY <1>0, <1>1, <1>5, <2>1 DEF BreakerReset, BreakerInv
<1>6. CASE SoundChanges
  BY <1>0, <1>6 DEF SoundChanges, BreakerInv
<1>7. CASE BreakerTick
  <2>1. breaker \in BreakerRecord /\ Len(breaker.failures) <= TripAfter
    BY <1>0 DEF Breakers
  <2> DEFINE s == IF breaker.since < ResetTimeout THEN breaker.since + 1 ELSE breaker.since
             f == [i \in DOMAIN breaker.failures |-> IF breaker.failures[i] <= FailureWindow THEN breaker.failures[i] + 1 ELSE breaker.failures[i]]
  <2>2. s \in 0 .. ResetTimeout
    BY <2>1, BreakerBounds DEF BreakerRecord
  <2>3. f \in Seq(0 .. FailureWindow + 1) /\ Len(f) = Len(breaker.failures)
    <3>1. /\ Len(breaker.failures) \in Nat /\ DOMAIN breaker.failures = 1 .. Len(breaker.failures)
          /\ \A i \in 1 .. Len(breaker.failures) : breaker.failures[i] \in 0 .. FailureWindow + 1
      BY <2>1, LenProperties DEF BreakerRecord
    <3>2. \A a \in 0 .. FailureWindow + 1 : (IF a <= FailureWindow THEN a + 1 ELSE a) \in 0 .. FailureWindow + 1
      BY BreakerBounds
    <3>3. f \in [1 .. Len(breaker.failures) -> 0 .. FailureWindow + 1]
      BY <3>1, <3>2
    <3> HIDE DEF f
    <3>4. QED
      BY <3>1, <3>3, IsSequence
  <2>4. breaker' = [breaker EXCEPT !.since = s, !.failures = f]
    BY <1>7 DEF BreakerTick
  <2> HIDE DEF s, f
  <2>5. breaker' \in Breakers
    BY <2>1, <2>2, <2>3, <2>4 DEF Breakers, BreakerRecord
  <2>6. QED
    BY <1>0, <1>7, <2>5 DEF BreakerTick, BreakerInv
<1>8. ASSUME NEW state \in {"closed", "open", "half-open"}, ForceState(state) PROVE BreakerInv'
  <2>1. forced' \in 0 .. MaxForced
    BY <1>0, <1>8, BreakerBounds DEF ForceState
  <2>2. Turned(breaker, state) \in Breakers
    <3>1. breaker \in BreakerRecord /\ Len(breaker.failures) <= TripAfter /\ 0 \in 0 .. ResetTimeout
      BY <1>0, BreakerBounds DEF Breakers
    <3> DEFINE e == [breaker EXCEPT !.state = state, !.since = 0]
    <3>2. e \in BreakerRecord /\ e.failures = breaker.failures
      BY <3>1 DEF BreakerRecord
    <3>3. e \in Breakers
      <4> HIDE DEF e
      <4>1. QED
        BY <3>1, <3>2 DEF Breakers
    <3>4. QED
      BY <1>0, <3>3 DEF Turned
  <2>3. QED
    BY <1>0, <1>8, <2>1, <2>2 DEF ForceState, BreakerInv
<1>9. CASE UNCHANGED breakerVars
  BY <1>0, <1>9 DEF breakerVars, BreakerInv
<1>10. QED
  BY <1>2, <1>3, <1>4, <1>5, <1>6, <1>7, <1>8, <1>9 DEF BreakerNext

LEMMA BreakerTypes == BreakerInv => BreakerTypeOK
<1> SUFFICES ASSUME BreakerInv PROVE BreakerTypeOK
  OBVIOUS
<1>1. breaker \in BreakerRecord /\ Len(breaker.failures) <= TripAfter
  BY DEF BreakerInv, Breakers
<1>2. breaker.failures \in BoundedSeq(0 .. FailureWindow + 1, TripAfter)
  BY <1>1, FitsIn, BreakerBounds DEF BreakerRecord
<1>3. QED
  BY <1>1, <1>2 DEF BreakerInv, BreakerTypeOK, BreakerRecord

-----------------------------------------------------------------------------
(* The runners.                                                                *)

RunnerSpec == RunnerInit /\ [][RunnerNext]_runnerVars

Request == [what : {"init", "turn", "stop"}, by : User \cup {Stopper, Restarter}, to : 1 .. MaxWorkers]
RestartRecord == [auto : BOOLEAN, count : 0 .. MaxRestarts, timers : Nat]
Phases == {"no", "asked", "terminating", "waiting", "killing"}
WorkersTyped ==
  /\ class \in {"thread", "web", "child"} /\ born \in 0 .. MaxWorkers
  /\ alive \subseteq 1 .. born /\ port \in 0 .. born
CallsTyped ==
  /\ ready \in BOOLEAN /\ closing \in Phases /\ table \subseteq Request
  /\ user \in [User -> {"idle", "init", "turn"}]
\* Each restart that is due is for a worker that exited.
RestartsAreDue == restart \in RestartRecord /\ restart.timers + Cardinality(alive) <= born
RunnerInv == WorkersTyped /\ CallsTyped /\ RestartsAreDue

LEMMA RunnerStarts == RunnerInit => RunnerInv
<1> SUFFICES ASSUME RunnerInit PROVE RunnerInv
  OBVIOUS
<1>1. WorkersTyped
  BY RunnerAssumption DEF RunnerInit, WorkersTyped
<1>2. CallsTyped
  <2>1. ready \in BOOLEAN
    BY DEF RunnerInit
  <2>2. QED
    BY <2>1 DEF RunnerInit, CallsTyped, Phases
<1>3. RestartsAreDue
  <2>1. restart = [auto |-> TRUE, count |-> 0, timers |-> 0] /\ 0 \in 0 .. MaxRestarts
    BY RunnerAssumption DEF RunnerInit
  <2>2. restart \in RestartRecord /\ restart.timers = 0
    BY <2>1 DEF RestartRecord
  <2>3. Cardinality(alive) = 0 /\ born = 0
    BY FS_EmptySet DEF RunnerInit
  <2>4. QED
    BY <2>2, <2>3 DEF RestartsAreDue
<1>4. QED
  BY <1>1, <1>2, <1>3 DEF RunnerInv

LEMMA AliveAreFew ==
  ASSUME WorkersTyped
  PROVE  IsFiniteSet(alive) /\ Cardinality(alive) \in Nat /\ born \in Nat /\ born <= MaxWorkers /\ MaxWorkers \in Nat
<1>1. born \in Nat /\ born <= MaxWorkers /\ MaxWorkers \in Nat
  BY RunnerAssumption DEF WorkersTyped
<1>2. IsFiniteSet(alive)
  BY <1>1, UpToSize, FS_Subset DEF WorkersTyped
<1>3. QED
  BY <1>1, <1>2, FS_CardinalityType

LEMMA PostedIsTyped ==
  ASSUME WorkersTyped, CanSend, NEW what \in {"init", "turn", "stop"}, NEW by \in User \cup {Stopper, Restarter}
  PROVE  Posted(what, by) \subseteq Request
<1>1. port \in 1 .. MaxWorkers
  BY AliveAreFew DEF WorkersTyped, CanSend, ThreadCanSend, WebCanSend, ChildCanSend
<1>2. QED
  BY <1>1 DEF Posted, Request

LEMMA AwaitsIsTyped ==
  ASSUME CallsTyped, NEW by, NEW what \in {"idle", "init", "turn"}, Awaits(by, what)
  PROVE  user' \in [User -> {"idle", "init", "turn"}]
BY DEF CallsTyped, Awaits

LEMMA Creates ==
  ASSUME RunnerInv, NEW by \in User \cup {Stopper, Restarter}, Create(by)
  PROVE  WorkersTyped' /\ table' \subseteq Request /\ user' \in [User -> {"idle", "init", "turn"}]
         /\ closing' = closing /\ born' = born + 1 /\ Cardinality(alive') = Cardinality(alive) + 1
<1>0. WorkersTyped /\ CallsTyped
  BY DEF RunnerInv
<1>1. /\ born < MaxWorkers /\ born' = born + 1 /\ port' = born + 1 /\ alive' = alive \cup {born + 1}
      /\ table' = table \cup {[what |-> "init", by |-> by, to |-> born + 1]} /\ Awaits(by, "init")
      /\ UNCHANGED <<class, closing>>
  BY DEF Create
<1>2. born \in Nat /\ MaxWorkers \in Nat /\ IsFiniteSet(alive)
  BY <1>0, AliveAreFew
<1>3. born + 1 \in 1 .. MaxWorkers /\ born + 1 \in 0 .. MaxWorkers /\ born + 1 \notin 1 .. born /\ born + 1 \in 0 .. born + 1
  BY <1>1, <1>2
<1>4. \A n \in 1 .. born : n \in 1 .. born + 1
  BY <1>2
<1>5. alive' \subseteq 1 .. born + 1 /\ born + 1 \notin alive
  BY <1>0, <1>1, <1>2, <1>3, <1>4 DEF WorkersTyped
<1>6. Cardinality(alive \cup {born + 1}) = Cardinality(alive) + 1
  BY <1>2, <1>5, FS_AddElement
<1>7. WorkersTyped'
  BY <1>0, <1>1, <1>3, <1>5 DEF WorkersTyped
<1>8. [what |-> "init", by |-> by, to |-> born + 1] \in Request
  BY <1>3 DEF Request
<1>9. table' \subseteq Request
  BY <1>0, <1>1, <1>8 DEF CallsTyped
<1>10. user' \in [User -> {"idle", "init", "turn"}]
  BY <1>0, <1>1, AwaitsIsTyped
<1>11. QED
  BY <1>1, <1>6, <1>7, <1>9, <1>10

\* A worker that exits or is terminated.
LEMMA WorkerGone ==
  ASSUME RunnerInv, NEW w, alive' = alive \ {w}, UNCHANGED <<class, born>>, port' \in {port, 0}
  PROVE  WorkersTyped' /\ Cardinality(alive') = IF w \in alive THEN Cardinality(alive) - 1 ELSE Cardinality(alive)
<1>0. WorkersTyped
  BY DEF RunnerInv
<1>1. IsFiniteSet(alive) /\ born \in Nat
  BY <1>0, AliveAreFew
<1>2. Cardinality(alive \ {w}) = IF w \in alive THEN Cardinality(alive) - 1 ELSE Cardinality(alive)
  BY <1>1, FS_RemoveElement
<1>3. 0 \in 0 .. born
  BY <1>1
<1>4. QED
  BY <1>0, <1>2, <1>3 DEF WorkersTyped

LEMMA WorkersStay ==
  ASSUME RunnerInv, UNCHANGED <<class, born, alive>>, port' \in {port, 0}
  PROVE  WorkersTyped'
<1>0. WorkersTyped
  BY DEF RunnerInv
<1>1. 0 \in 0 .. born
  BY <1>0, AliveAreFew
<1>2. QED
  BY <1>0, <1>1 DEF WorkersTyped

LEMMA GoesOnKeeps ==
  ASSUME RunnerInv, NEW q \in table, NEW ok \in BOOLEAN, GoesOn(q, ok)
  PROVE  RunnerInv'
<1>0. WorkersTyped /\ CallsTyped /\ RestartsAreDue
  BY DEF RunnerInv
<1> DEFINE inits == ok /\ q.what = "init"
<1>1. /\ ready' = (ready \/ inits)
      /\ restart' = IF inits THEN [restart EXCEPT !.count = 0] ELSE restart
      /\ IF inits /\ q.by \in User /\ CanSend
         THEN table' = (table \ {q}) \cup Posted("turn", q.by) /\ Awaits(q.by, "turn")
         ELSE table' = table \ {q} /\ Awaits(q.by, "idle")
      /\ UNCHANGED <<class, born, alive, port, closing>>
  BY DEF GoesOn
<1> HIDE DEF inits
<1>2. WorkersTyped'
  BY <1>1, WorkersStay
<1>3. restart' \in RestartRecord /\ restart'.timers = restart.timers
  <2>1. restart \in RestartRecord /\ 0 \in 0 .. MaxRestarts
    BY <1>0, RunnerAssumption DEF RestartsAreDue
  <2>2. [restart EXCEPT !.count = 0] \in RestartRecord /\ [restart EXCEPT !.count = 0].timers = restart.timers
    BY <2>1 DEF RestartRecord
  <2>3. QED
    BY <1>1, <2>1, <2>2
<1>4. RestartsAreDue'
  BY <1>0, <1>1, <1>3 DEF RestartsAreDue
<1>5. table' \subseteq Request /\ user' \in [User -> {"idle", "init", "turn"}]
  <2>1. CASE inits /\ q.by \in User /\ CanSend
    <3>1. table' = (table \ {q}) \cup Posted("turn", q.by) /\ Awaits(q.by, "turn")
      BY <1>1, <2>1
    <3>2. Posted("turn", q.by) \subseteq Request
      BY <1>0, <2>1, PostedIsTyped
    <3>3. user' \in [User -> {"idle", "init", "turn"}]
      BY <1>0, <3>1, AwaitsIsTyped
    <3>4. QED
      BY <1>0, <3>1, <3>2, <3>3 DEF CallsTyped
  <2>2. CASE ~(inits /\ q.by \in User /\ CanSend)
    <3>1. table' = table \ {q} /\ Awaits(q.by, "idle")
      BY <1>1, <2>2
    <3>2. user' \in [User -> {"idle", "init", "turn"}]
      BY <1>0, <3>1, AwaitsIsTyped
    <3>3. QED
      BY <1>0, <3>1, <3>2 DEF CallsTyped
  <2>3. QED
    BY <2>1, <2>2
<1>6. ready' \in BOOLEAN
  <2>1. ready \in BOOLEAN /\ inits \in BOOLEAN
    BY <1>0 DEF CallsTyped, inits
  <2>2. QED
    BY <1>1, <2>1
<1>7. CallsTyped'
  BY <1>0, <1>1, <1>5, <1>6 DEF CallsTyped
<1>8. QED
  BY <1>2, <1>4, <1>7 DEF RunnerInv

LEMMA RunnerKeeps == RunnerInv /\ [RunnerNext]_runnerVars => RunnerInv'
<1> SUFFICES ASSUME RunnerInv, [RunnerNext]_runnerVars PROVE RunnerInv'
  OBVIOUS
<1>0. WorkersTyped /\ CallsTyped /\ RestartsAreDue /\ Cardinality(alive) \in Nat /\ born \in Nat
  BY AliveAreFew DEF RunnerInv
<1>0a. restart \in RestartRecord /\ restart.timers \in Nat
  BY <1>0 DEF RestartsAreDue, RestartRecord
<1>1. ASSUME NEW u \in User, CallUnready(u) PROVE RunnerInv'
  <2>1. Create(u) /\ UNCHANGED <<ready, restart>>
    BY <1>1 DEF CallUnready, ThreadInitialize, WebInitialize, ChildInitialize
  <2>2. /\ WorkersTyped' /\ table' \subseteq Request /\ user' \in [User -> {"idle", "init", "turn"}]
        /\ closing' = closing /\ born' = born + 1 /\ Cardinality(alive') = Cardinality(alive) + 1
    BY <2>1, Creates
  <2>3. CallsTyped'
    BY <1>0, <2>1, <2>2 DEF CallsTyped
  <2>4. RestartsAreDue'
    BY <1>0, <1>0a, <2>1, <2>2 DEF RestartsAreDue
  <2>5. QED
    BY <2>2, <2>3, <2>4 DEF RunnerInv
<1>2. ASSUME NEW u \in User, CallReady(u) PROVE RunnerInv'
  <2>1. /\ CanSend /\ table' = table \cup Posted("turn", u) /\ Awaits(u, "turn")
        /\ UNCHANGED <<class, born, alive, port, ready, closing, restart>>
    BY <1>2 DEF CallReady
  <2>2. Posted("turn", u) \subseteq Request /\ user' \in [User -> {"idle", "init", "turn"}]
    BY <1>0, <2>1, PostedIsTyped, AwaitsIsTyped
  <2>3. CallsTyped'
    BY <1>0, <2>1, <2>2 DEF CallsTyped
  <2>4. WorkersTyped'
    BY <2>1, WorkersStay
  <2>5. RestartsAreDue'
    BY <1>0, <2>1 DEF RestartsAreDue
  <2>6. QED
    BY <2>3, <2>4, <2>5 DEF RunnerInv
<1>3. ASSUME NEW q \in table, ThreadAnswers(q) \/ WebAnswers(q) \/ ChildAnswers(q) \/ TimesOutAt(q) PROVE RunnerInv'
  <2>1. PICK ok \in BOOLEAN : GoesOn(q, ok)
    BY <1>3 DEF ThreadAnswers, WebAnswers, ChildAnswers, TimesOutAt, Answers
  <2>2. QED
    BY <2>1, GoesOnKeeps
<1>4. ASSUME NEW q \in table, ThreadTerminates(q) PROVE RunnerInv'
  <2>1. /\ closing' = "terminating" /\ alive' = alive \ {port} /\ table' = table \ {q}
        /\ UNCHANGED <<class, born, port, ready, user, restart>>
    BY <1>4 DEF ThreadTerminates
  <2>2. WorkersTyped' /\ Cardinality(alive') = IF port \in alive THEN Cardinality(alive) - 1 ELSE Cardinality(alive)
    BY <2>1, WorkerGone
  <2>3. CallsTyped'
    BY <1>0, <2>1 DEF CallsTyped, Phases
  <2>4. RestartsAreDue'
    BY <1>0, <1>0a, <2>1, <2>2 DEF RestartsAreDue
  <2>5. QED
    BY <2>2, <2>3, <2>4 DEF RunnerInv
<1>5. ASSUME NEW q \in table, WebTerminates(q) PROVE RunnerInv'
  <2>1. /\ alive' = alive \ {port} /\ port' = 0 /\ ready' = FALSE /\ closing' = "no"
        /\ table' = {} /\ user' = [u \in User |-> "idle"] /\ UNCHANGED <<class, born, restart>>
    BY <1>5 DEF WebTerminates, Emptied, RejectPending
  <2>2. WorkersTyped' /\ Cardinality(alive') = IF port \in alive THEN Cardinality(alive) - 1 ELSE Cardinality(alive)
    BY <2>1, WorkerGone
  <2>3. ready' \in BOOLEAN
    BY <2>1
  <2>4. CallsTyped'
    BY <1>0, <2>1, <2>3 DEF CallsTyped, Phases
  <2>5. RestartsAreDue'
    BY <1>0, <1>0a, <2>1, <2>2 DEF RestartsAreDue
  <2>6. QED
    BY <2>2, <2>4, <2>5 DEF RunnerInv
<1>6. ASSUME NEW q \in table, ChildWaits(q) PROVE RunnerInv'
  <2>1. /\ closing' \in {"killing", "waiting"} /\ table' = table \ {q}
        /\ UNCHANGED <<class, born, alive, port, ready, user, restart>>
    BY <1>6 DEF ChildWaits
  <2>2. CallsTyped'
    BY <1>0, <2>1 DEF CallsTyped, Phases
  <2>3. WorkersTyped' /\ RestartsAreDue'
    BY <1>0, <2>1 DEF WorkersTyped, RestartsAreDue
  <2>4. QED
    BY <2>2, <2>3 DEF RunnerInv
<1>7. ASSUME NEW w, ThreadExits(w) PROVE RunnerInv'
  <2>1. alive' = alive \ {w} /\ UNCHANGED <<class, born, port, ready, closing, table, user, restart>>
    BY <1>7 DEF ThreadExits
  <2>2. WorkersTyped' /\ Cardinality(alive') = IF w \in alive THEN Cardinality(alive) - 1 ELSE Cardinality(alive)
    BY <2>1, WorkerGone
  <2>3. CallsTyped'
    BY <1>0, <2>1 DEF CallsTyped
  <2>4. RestartsAreDue'
    BY <1>0, <1>0a, <2>1, <2>2 DEF RestartsAreDue
  <2>5. QED
    BY <2>2, <2>3, <2>4 DEF RunnerInv
<1>8. ASSUME NEW w, ChildExits(w) PROVE RunnerInv'
  <2>1. /\ w \in alive /\ alive' = alive \ {w} /\ UNCHANGED <<class, born, port, ready, closing>>
        /\ IF closing # "no" THEN UNCHANGED <<table, user, restart>>
           ELSE /\ table' = {} /\ user' = [u \in User |-> "idle"]
                /\ restart' = IF restart.auto /\ restart.count < MaxRestarts
                              THEN [restart EXCEPT !.count = @ + 1, !.timers = @ + 1] ELSE restart
    BY <1>8 DEF ChildExits, RejectPending
  <2>2. WorkersTyped' /\ Cardinality(alive') = Cardinality(alive) - 1
    BY <2>1, WorkerGone
  <2>3. CallsTyped'
    BY <1>0, <2>1 DEF CallsTyped
  <2>4. restart' \in RestartRecord /\ restart'.timers \in {restart.timers, restart.timers + 1}
    <3> DEFINE n == restart.count + 1
               t == restart.timers + 1
    <3>1. restart' = restart \/ (restart.count < MaxRestarts /\ restart' = [restart EXCEPT !.count = n, !.timers = t])
      BY <2>1
    <3>2. restart.count < MaxRestarts => n \in 0 .. MaxRestarts
      BY <1>0a, RunnerAssumption DEF RestartRecord
    <3>3. t \in Nat
      BY <1>0a
    <3> HIDE DEF n
    <3>4. QED
      BY <1>0a, <3>1, <3>2, <3>3 DEF RestartRecord
  <2>5. RestartsAreDue'
    BY <1>0, <1>0a, <2>1, <2>2, <2>4 DEF RestartsAreDue
  <2>6. QED
    BY <2>2, <2>3, <2>5 DEF RunnerInv
<1>9. CASE RestartFires
  <2>1. restart.timers > 0 /\ restart' = [restart EXCEPT !.timers = restart.timers - 1] /\ ready' = FALSE /\ Create(Restarter)
    BY <1>9 DEF RestartFires
  <2>2. /\ WorkersTyped' /\ table' \subseteq Request /\ user' \in [User -> {"idle", "init", "turn"}]
        /\ closing' = closing /\ born' = born + 1 /\ Cardinality(alive') = Cardinality(alive) + 1
    BY <2>1, Creates
  <2>3. ready' \in BOOLEAN
    BY <2>1
  <2>4. CallsTyped'
    BY <1>0, <2>2, <2>3 DEF CallsTyped
  <2>5. restart' \in RestartRecord /\ restart'.timers = restart.timers - 1
    <3>1. restart.timers - 1 \in Nat
      BY <1>0a, <2>1
    <3>2. QED
      BY <1>0a, <2>1, <3>1 DEF RestartRecord
  <2>6. RestartsAreDue'
    BY <1>0, <1>0a, <2>2, <2>5 DEF RestartsAreDue
  <2>7. QED
    BY <2>2, <2>4, <2>6 DEF RunnerInv
<1>10. CASE RunnerShutdown
  <2>1. /\ IF CanSend THEN closing' = "asked" /\ table' = table \cup Posted("stop", Stopper)
           ELSE closing' = "killing" /\ UNCHANGED table
        /\ restart' = [restart EXCEPT !.auto = FALSE]
        /\ UNCHANGED <<class, born, alive, port, ready, user>>
    BY <1>10 DEF RunnerShutdown
  <2>2. CanSend => Posted("stop", Stopper) \subseteq Request
    BY <1>0, PostedIsTyped
  <2>3. CallsTyped'
    BY <1>0, <2>1, <2>2 DEF CallsTyped, Phases
  <2>4. restart' \in RestartRecord /\ restart'.timers = restart.timers
    BY <1>0a, <2>1 DEF RestartRecord
  <2>5. RestartsAreDue'
    BY <1>0, <2>1, <2>4 DEF RestartsAreDue
  <2>6. WorkersTyped'
    BY <2>1, WorkersStay
  <2>7. QED
    BY <2>3, <2>5, <2>6 DEF RunnerInv
<1>11. CASE RunnerStopped
  <2>1. port' = 0 /\ ready' = FALSE /\ closing' = "no" /\ UNCHANGED <<class, born, alive, table, user, restart>>
    BY <1>11 DEF RunnerStopped, Emptied
  <2>2. ready' \in BOOLEAN
    BY <2>1
  <2>3. CallsTyped'
    BY <1>0, <2>1, <2>2 DEF CallsTyped, Phases
  <2>4. WorkersTyped'
    BY <2>1, WorkersStay
  <2>5. RestartsAreDue'
    BY <1>0, <2>1 DEF RestartsAreDue
  <2>6. QED
    BY <2>3, <2>4, <2>5 DEF RunnerInv
<1>12. CASE UNCHANGED runnerVars
  BY <1>0, <1>12 DEF runnerVars, RunnerInv, WorkersTyped, CallsTyped, RestartsAreDue
<1>13. QED
  BY <1>1, <1>2, <1>3, <1>4, <1>5, <1>6, <1>7, <1>8, <1>9, <1>10, <1>11, <1>12 DEF RunnerNext

LEMMA RunnerTypes == RunnerInv => RunnerTypeOK
<1> SUFFICES ASSUME RunnerInv PROVE RunnerTypeOK
  OBVIOUS
<1>1. WorkersTyped /\ CallsTyped /\ RestartsAreDue /\ Cardinality(alive) \in Nat /\ born \in Nat /\ MaxWorkers \in Nat /\ born <= MaxWorkers
  BY AliveAreFew DEF RunnerInv
<1>2. restart \in RestartRecord /\ restart.timers \in Nat
  BY <1>1 DEF RestartsAreDue, RestartRecord
<1>3. restart.timers \in 0 .. MaxWorkers
  BY <1>1, <1>2 DEF RestartsAreDue
<1>4. restart \in [auto : BOOLEAN, count : 0 .. MaxRestarts, timers : 0 .. MaxWorkers]
  BY <1>2, <1>3 DEF RestartRecord
<1>5. QED
  BY <1>1, <1>4 DEF WorkersTyped, CallsTyped, RunnerTypeOK, Request, Phases

-----------------------------------------------------------------------------
(* ThreadingManager.                                                           *)

ManagerSpec == ManagerInit /\ [][ManagerNext]_managerVars

RunnerInfo == [id : RunnerId, status : {"idle", "busy", "shutdown"}, workload : 0 .. 1]
ManagerTyped ==
  /\ infos \in Seq(RunnerInfo) /\ making \subseteq made /\ made \subseteq RunnerId
  /\ lent \in [Borrower -> RunnerId \cup {NoRunner}]
  /\ stopping \subseteq Pooled /\ wanted \subseteq RunnerId \cup {NoRunner} /\ revived \subseteq RunnerId
\* A runner is in the list once, when it is ready, and lent only from there.
ListedOnce ==
  /\ \A i \in 1 .. Len(infos) : infos[i].id \in made \ making
  /\ \A i \in 1 .. Len(infos) : \A j \in 1 .. Len(infos) : infos[i].id = infos[j].id => i = j
  /\ \A b \in Borrower : lent[b] # NoRunner => lent[b] \in made \ making
\* The workload of a runner tells whether it is lent; a runner that is shut down is not idle.
Fine(info, lt, st, rv) ==
  /\ \/ info.workload = 0 /\ \A b \in Borrower : lt[b] # info.id
     \/ info.workload = 1 /\ \E b \in Borrower : lt[b] = info.id /\ \A c \in Borrower : lt[c] = info.id => c = b
  /\ info.status = "idle" => info.workload = 0
  /\ info.id \in st /\ info.id \notin rv => info.status = "shutdown"
BooksAreKept == \A i \in 1 .. Len(infos) : Fine(infos[i], lent, stopping, revived)

ManagerInv == ManagerTyped /\ ListedOnce /\ BooksAreKept

LEMMA ManagerStarts == ManagerInit => ManagerInv
<1> SUFFICES ASSUME ManagerInit PROVE ManagerInv
  OBVIOUS
<1>1. infos \in Seq(RunnerInfo) /\ 1 .. Len(infos) = {} /\ Pooled = {}
  BY DEF ManagerInit, Pooled
<1>2. ManagerTyped
  BY <1>1 DEF ManagerInit, ManagerTyped, NotAll
<1>3. ListedOnce /\ BooksAreKept
  BY <1>1 DEF ManagerInit, ListedOnce, BooksAreKept
<1>4. QED
  BY <1>2, <1>3 DEF ManagerInv

LEMMA ListFacts ==
  ASSUME ManagerTyped
  PROVE  /\ Len(infos) \in Nat /\ DOMAIN infos = 1 .. Len(infos) /\ infos \in [1 .. Len(infos) -> RunnerInfo]
         /\ Pooled = {infos[i].id : i \in 1 .. Len(infos)} /\ Pooled \subseteq RunnerId
<1>1. Len(infos) \in Nat /\ DOMAIN infos = 1 .. Len(infos) /\ infos \in [1 .. Len(infos) -> RunnerInfo]
  BY LenProperties DEF ManagerTyped
<1>2. QED
  BY <1>1 DEF Pooled, RunnerInfo

\* The rest of the state is typed, and who is lent is not disturbed.
RestTyped ==
  /\ making' \subseteq made' /\ made' \subseteq RunnerId /\ lent' \in [Borrower -> RunnerId \cup {NoRunner}]
  /\ wanted' \subseteq RunnerId \cup {NoRunner} /\ revived' \subseteq RunnerId

\* One entry of the list is written, and keeps its id.
LEMMA EntryWritten ==
  ASSUME ManagerInv, NEW i \in 1 .. Len(infos), NEW new \in RunnerInfo, new.id = infos[i].id,
         infos' = [infos EXCEPT ![i] = new], UNCHANGED <<making, made, stopping>>, RestTyped,
         \A b \in Borrower : lent'[b] # NoRunner => lent'[b] \in made \ making,
         Fine(new, lent', stopping', revived'),
         \A j \in 1 .. Len(infos) : j # i => Fine(infos[j], lent', stopping', revived')
  PROVE  ManagerInv'
<1>1. ManagerTyped /\ ListedOnce
  BY DEF ManagerInv
<1>2. Len(infos) \in Nat /\ infos \in [1 .. Len(infos) -> RunnerInfo] /\ DOMAIN infos = 1 .. Len(infos)
  BY <1>1, ListFacts
<1>3. infos' \in [1 .. Len(infos) -> RunnerInfo] /\ infos'[i] = new /\ \A j \in 1 .. Len(infos) : j # i => infos'[j] = infos[j]
  BY <1>2
<1>4. infos' \in Seq(RunnerInfo) /\ Len(infos') = Len(infos) /\ DOMAIN infos' = 1 .. Len(infos)
  BY <1>2, <1>3, IsSequence
<1>5. \A j \in 1 .. Len(infos) : infos'[j].id = infos[j].id
  BY <1>3
<1>6. Pooled' = Pooled
  BY <1>2, <1>4, <1>5 DEF Pooled
<1>7. ManagerTyped'
  BY <1>1, <1>4, <1>6 DEF ManagerTyped, RestTyped
<1>8. ListedOnce'
  BY <1>1, <1>4, <1>5 DEF ListedOnce
<1>9. BooksAreKept'
  BY <1>3, <1>4 DEF BooksAreKept
<1>10. QED
  BY <1>7, <1>8, <1>9 DEF ManagerInv

\* shutdownRunner for some of the runners in the list.
LEMMA ShutKeeps ==
  ASSUME ManagerInv, NEW rs, rs \subseteq Pooled, Shut(rs), UNCHANGED <<making, made, lent>>,
         wanted' \subseteq RunnerId \cup {NoRunner}
  PROVE  ManagerInv'
<1>1. ManagerTyped /\ ListedOnce /\ BooksAreKept
  BY DEF ManagerInv
<1>2. Len(infos) \in Nat /\ infos \in [1 .. Len(infos) -> RunnerInfo] /\ DOMAIN infos = 1 .. Len(infos)
  BY <1>1, ListFacts
<1>3. /\ infos' = [i \in 1 .. Len(infos) |-> IF infos[i].id \in rs THEN ShutsDown(infos[i]) ELSE infos[i]]
      /\ stopping' = stopping \cup rs /\ revived' = revived \ rs
  BY <1>2 DEF Shut
<1>4. ASSUME NEW i \in 1 .. Len(infos)
      PROVE  infos'[i] \in RunnerInfo /\ infos'[i].id = infos[i].id /\ Fine(infos'[i], lent, stopping', revived')
  <2>1. infos[i] \in RunnerInfo /\ Fine(infos[i], lent, stopping, revived)
    BY <1>1, <1>2 DEF BooksAreKept
  <2>2. CASE infos[i].id \in rs
    <3>1. infos'[i] = [infos[i] EXCEPT !.status = "shutdown"]
      BY <1>3, <2>2 DEF ShutsDown
    <3>2. /\ infos'[i] \in RunnerInfo /\ infos'[i].id = infos[i].id /\ infos'[i].workload = infos[i].workload
          /\ infos'[i].status = "shutdown"
      BY <2>1, <3>1 DEF RunnerInfo
    <3>3. QED
      BY <2>1, <3>2 DEF Fine
  <2>3. CASE infos[i].id \notin rs
    <3>1. infos'[i] = infos[i]
      BY <1>3, <2>3
    <3>2. QED
      BY <1>3, <2>1, <2>3, <3>1 DEF Fine
  <2>4. QED
    BY <2>2, <2>3
<1>5. infos' \in [1 .. Len(infos) -> RunnerInfo]
  BY <1>3, <1>4
<1>6. infos' \in Seq(RunnerInfo) /\ Len(infos') = Len(infos) /\ DOMAIN infos' = 1 .. Len(infos)
  BY <1>2, <1>5, IsSequence
<1>7. Pooled' = Pooled
  BY <1>2, <1>4, <1>6 DEF Pooled
<1>8. ManagerTyped'
  BY <1>1, <1>3, <1>6, <1>7 DEF ManagerTyped
<1>9. ListedOnce'
  BY <1>1, <1>4, <1>6 DEF ListedOnce
<1>10. BooksAreKept'
  BY <1>4, <1>6 DEF BooksAreKept
<1>11. QED
  BY <1>8, <1>9, <1>10 DEF ManagerInv

LEMMA ManagerKeeps == ManagerInv /\ [ManagerNext]_managerVars => ManagerInv'
<1> SUFFICES ASSUME ManagerInv, [ManagerNext]_managerVars PROVE ManagerInv'
  OBVIOUS
<1>0. ManagerTyped /\ ListedOnce /\ BooksAreKept /\ NoRunner \notin RunnerId
  BY ManagerAssumption DEF ManagerInv
<1>0a. /\ Len(infos) \in Nat /\ DOMAIN infos = 1 .. Len(infos) /\ infos \in [1 .. Len(infos) -> RunnerInfo]
       /\ Pooled = {infos[i].id : i \in 1 .. Len(infos)} /\ Pooled \subseteq RunnerId
  BY <1>0, ListFacts
<1>1. CASE ShutdownAll
  <2>1. Shut(Pooled) /\ UNCHANGED <<making, made, lent>> /\ wanted' = Pooled
    BY <1>1 DEF ShutdownAll
  <2>2. wanted' \subseteq RunnerId \cup {NoRunner}
    BY <1>0a, <2>1
  <2>3. QED
    BY <2>1, <2>2, ShutKeeps
<1>2. ASSUME AllDown \/ UNCHANGED managerVars PROVE ManagerInv'
  <2>1. wanted' \subseteq RunnerId \cup {NoRunner} /\ UNCHANGED <<infos, making, made, lent, stopping, revived>>
    BY <1>0, <1>2 DEF AllDown, NotAll, managerVars, ManagerTyped
  <2>2. ManagerTyped'
    BY <1>0, <2>1 DEF ManagerTyped, Pooled
  <2>3. ListedOnce' /\ BooksAreKept'
    BY <1>0, <2>1 DEF ListedOnce, BooksAreKept
  <2>4. QED
    BY <2>2, <2>3 DEF ManagerInv
<1>3. ASSUME NEW r \in RunnerId, CreateRunner(r) PROVE ManagerInv'
  <2>1. /\ r \notin made /\ made' = made \cup {r} /\ making' = making \cup {r}
        /\ UNCHANGED <<infos, lent, stopping, wanted, revived>>
    BY <1>3 DEF CreateRunner
  <2>2. ManagerTyped'
    BY <1>0, <2>1 DEF ManagerTyped, Pooled
  <2>3. made \ making \subseteq made' \ making'
    BY <2>1
  <2>4. ListedOnce'
    BY <1>0, <2>1, <2>3 DEF ListedOnce
  <2>5. BooksAreKept'
    BY <1>0, <2>1 DEF BooksAreKept
  <2>6. QED
    BY <2>2, <2>4, <2>5 DEF ManagerInv
<1>4. ASSUME NEW r \in RunnerId, RunnerFailed(r) PROVE ManagerInv'
  <2>1. making' = making \ {r} /\ UNCHANGED <<infos, made, lent, stopping, wanted, revived>>
    BY <1>4 DEF RunnerFailed
  <2>2. ManagerTyped'
    BY <1>0, <2>1 DEF ManagerTyped, Pooled
  <2>3. made \ making \subseteq made' \ making'
    BY <2>1
  <2>4. ListedOnce'
    BY <1>0, <2>1, <2>3 DEF ListedOnce
  <2>5. BooksAreKept'
    BY <1>0, <2>1 DEF BooksAreKept
  <2>6. QED
    BY <2>2, <2>4, <2>5 DEF ManagerInv
<1>5. ASSUME NEW r \in RunnerId, RunnerReady(r) PROVE ManagerInv'
  <2> DEFINE new == [id |-> r, status |-> "idle", workload |-> 0]
             n == Len(infos) + 1
  <2>1. r \in making /\ making' = making \ {r} /\ infos' = Append(infos, new) /\ UNCHANGED <<made, lent, stopping, wanted, revived>>
    BY <1>5 DEF RunnerReady
  <2>2. new \in RunnerInfo /\ new.id = r /\ new.status = "idle" /\ new.workload = 0
    BY DEF RunnerInfo
  <2> HIDE DEF new
  <2>3. /\ infos' \in Seq(RunnerInfo) /\ Len(infos') = n /\ infos'[n] = new /\ \A i \in 1 .. Len(infos) : infos'[i] = infos[i]
        /\ DOMAIN infos' = 1 .. n /\ n \in Nat
    BY <1>0, <1>0a, <2>1, <2>2, AppendProperties DEF ManagerTyped
  <2>4. \A i \in 1 .. n : i = n \/ i \in 1 .. Len(infos)
    BY <1>0a
  <2>5. n \in 1 .. n /\ \A i \in 1 .. Len(infos) : i \in 1 .. n /\ i # n
    BY <1>0a
  <2> HIDE DEF n
  <2>6. Pooled \subseteq Pooled'
    BY <1>0a, <2>3, <2>5 DEF Pooled
  <2>7. ManagerTyped'
    BY <1>0, <2>1, <2>3, <2>6 DEF ManagerTyped
  <2>8. \A i \in 1 .. Len(infos) : infos[i].id # r
    BY <1>0, <2>1 DEF ListedOnce
  <2>9. \A b \in Borrower : lent[b] # r
    BY <1>0, <2>1 DEF ListedOnce
  <2>10. ListedOnce'
    <3>1. \A i \in 1 .. Len(infos') : infos'[i].id \in made' \ making'
      BY <1>0, <2>1, <2>2, <2>3, <2>4 DEF ListedOnce, ManagerTyped
    <3>2. \A i \in 1 .. Len(infos') : \A j \in 1 .. Len(infos') : infos'[i].id = infos'[j].id => i = j
      BY <1>0, <2>2, <2>3, <2>4, <2>8 DEF ListedOnce
    <3>3. \A b \in Borrower : lent'[b] # NoRunner => lent'[b] \in made' \ making'
      BY <1>0, <2>1 DEF ListedOnce
    <3>4. QED
      BY <3>1, <3>2, <3>3 DEF ListedOnce
  <2>11. r \notin stopping
    BY <1>0, <1>0a, <2>8 DEF ManagerTyped
  <2>12. Fine(new, lent, stopping, revived)
    BY <2>2, <2>9, <2>11 DEF Fine
  <2>13. BooksAreKept'
    BY <1>0, <2>1, <2>3, <2>4, <2>12 DEF BooksAreKept
  <2>14. QED
    BY <2>7, <2>10, <2>13 DEF ManagerInv
<1>6. ASSUME NEW r \in RunnerId, ShutdownRunner(r) PROVE ManagerInv'
  <2> DEFINE rs == {r}
  <2>1. rs \subseteq Pooled /\ Shut(rs) /\ UNCHANGED <<making, made, lent>> /\ wanted' \subseteq RunnerId \cup {NoRunner}
    BY <1>0, <1>6 DEF ShutdownRunner, ManagerTyped
  <2> HIDE DEF rs
  <2>2. QED
    BY <2>1, ShutKeeps
<1>7. ASSUME NEW r \in RunnerId, RunnerDown(r) PROVE ManagerInv'
  <2> DEFINE k == At(r)
             n == Len(infos) - 1
  <2>1. /\ r \in stopping /\ stopping' = stopping \ {r} /\ infos' = RemoveAt(infos, k) /\ revived' = revived \ {r}
        /\ UNCHANGED <<making, made, lent>> /\ wanted' \subseteq RunnerId \cup {NoRunner}
    BY <1>0, <1>7 DEF RunnerDown, Without, ManagerTyped, NotAll
  <2>2. k \in 1 .. Len(infos) /\ infos[k].id = r
    <3>1. \E i \in 1 .. Len(infos) : infos[i].id = r
      BY <1>0, <1>0a, <2>1 DEF ManagerTyped
    <3>2. QED
      BY <1>0a, <3>1 DEF At
  <2> HIDE DEF k
  <2>3. infos' \in Seq(RunnerInfo) /\ IsWithout(infos', infos, k)
    BY <1>0, <2>1, <2>2, OneIsTakenOut DEF ManagerTyped
  <2>4. Len(infos') = n /\ n \in Nat /\ DOMAIN infos' = 1 .. n
    BY <1>0a, <2>2, <2>3 DEF IsWithout
  <2>5. \A j \in 1 .. n : Past(k, j) \in 1 .. Len(infos) /\ Past(k, j) # k /\ infos'[j] = infos[Past(k, j)]
    BY <2>3 DEF IsWithout
  <2>6. \A i \in 1 .. Len(infos) : i # k => \E j \in 1 .. n : Past(k, j) = i
    BY <2>3 DEF IsWithout
  <2>7. \A i \in 1 .. n : \A j \in 1 .. n : Past(k, i) = Past(k, j) => i = j
    BY <1>0a, <2>2, <2>4, PastIsMonotone
  <2> HIDE DEF n
  <2>8. \A i \in 1 .. Len(infos) : i # k => infos[i].id # r
    BY <1>0, <2>2 DEF ListedOnce
  <2>9. stopping' \subseteq Pooled'
    <3>1. ASSUME NEW s \in stopping' PROVE s \in Pooled'
      <4>1. PICK i \in 1 .. Len(infos) : infos[i].id = s
        BY <1>0, <1>0a, <2>1 DEF ManagerTyped
      <4>2. i # k
        BY <2>1, <2>2, <4>1
      <4>3. PICK j \in 1 .. n : Past(k, j) = i
        BY <2>6, <4>2
      <4>4. infos'[j].id = s
        BY <2>5, <4>1, <4>3
      <4>5. QED
        BY <2>4, <4>4 DEF Pooled
    <3>2. QED
      BY <3>1
  <2>10. ManagerTyped'
    BY <1>0, <2>1, <2>3, <2>9 DEF ManagerTyped
  <2>11. ListedOnce'
    <3>1. \A i \in 1 .. Len(infos') : infos'[i].id \in made' \ making'
      BY <1>0, <2>1, <2>4, <2>5 DEF ListedOnce
    <3>2. \A i \in 1 .. Len(infos') : \A j \in 1 .. Len(infos') : infos'[i].id = infos'[j].id => i = j
      BY <1>0, <2>4, <2>5, <2>7 DEF ListedOnce
    <3>3. \A b \in Borrower : lent'[b] # NoRunner => lent'[b] \in made' \ making'
      BY <1>0, <2>1 DEF ListedOnce
    <3>4. QED
      BY <3>1, <3>2, <3>3 DEF ListedOnce
  <2>12. BooksAreKept'
    <3>1. ASSUME NEW j \in 1 .. n PROVE Fine(infos'[j], lent', stopping', revived')
      <4>1. infos'[j].id # r /\ Fine(infos'[j], lent, stopping, revived)
        BY <1>0, <2>5, <2>8 DEF BooksAreKept
      <4>2. QED
        BY <2>1, <4>1 DEF Fine
    <3>2. QED
      BY <2>4, <3>1 DEF BooksAreKept
  <2>13. QED
    BY <2>10, <2>11, <2>12 DEF ManagerInv
<1>8. ASSUME NEW r \in RunnerId, RunnerStaysUp(r) PROVE ManagerInv'
  <2>1. /\ stopping' = stopping \ {r} /\ UNCHANGED <<infos, making, made, lent, revived>>
        /\ wanted' \subseteq RunnerId \cup {NoRunner}
    BY <1>0, <1>8 DEF RunnerStaysUp, NotAll, ManagerTyped
  <2>2. ManagerTyped'
    BY <1>0, <2>1 DEF ManagerTyped, Pooled
  <2>3. ListedOnce'
    BY <1>0, <2>1 DEF ListedOnce
  <2>4. BooksAreKept'
    BY <1>0, <2>1 DEF BooksAreKept, Fine
  <2>5. QED
    BY <2>2, <2>3, <2>4 DEF ManagerInv
<1>9. ASSUME NEW b \in Borrower, GetRunner(b) PROVE ManagerInv'
  <2> DEFINE k == FirstIdle
             old == infos[k]
             new == [old EXCEPT !.status = "busy", !.workload = 1]
  <2>1. /\ lent[b] = NoRunner /\ k # 0 /\ lent' = [lent EXCEPT ![b] = infos[k].id]
        /\ infos' = [infos EXCEPT ![k].status = "busy", ![k].workload = @ + 1]
        /\ UNCHANGED <<making, made, stopping, wanted, revived>>
    BY <1>9 DEF GetRunner
  <2>2. k \in 1 .. Len(infos) /\ infos[k].status = "idle"
    <3> DEFINE I == {i \in 1 .. Len(infos) : infos[i].status = "idle"}
    <3>1. k = IF I # {} THEN Min(I) ELSE 0
      BY DEF FirstIdle, SelectInSeq
    <3>2. I \in SUBSET Nat
      BY <1>0a
    <3>3. I # {} /\ k = Min(I)
      BY <2>1, <3>1
    <3>4. Min(I) \in I
      <4> HIDE DEF I
      <4> QED
        BY <3>2, <3>3, LeastIsMin
    <3>5. QED
      BY <3>3, <3>4
  <2> HIDE DEF k
  <2>3. old \in RunnerInfo /\ old.workload = 0 /\ (\A c \in Borrower : lent[c] # old.id) /\ (old.id \in stopping => old.id \in revived)
    BY <1>0, <1>0a, <2>2 DEF BooksAreKept, Fine, RunnerInfo
  <2>4. new \in RunnerInfo /\ new.id = old.id /\ new.workload = 1 /\ new.status = "busy"
    <3>1. old \in RunnerInfo /\ 1 \in 0 .. 1
      BY <2>3
    <3> HIDE DEF old
    <3>2. QED
      BY <3>1 DEF RunnerInfo
  <2>5. infos' = [infos EXCEPT ![k] = new]
    <3>1. infos' = [infos EXCEPT ![k] = [old EXCEPT !.status = "busy", !.workload = old.workload + 1]]
      BY <1>0a, <2>1, <2>2
    <3>2. old.workload + 1 = 1
      BY <2>3
    <3>3. QED
      BY <3>1, <3>2
  <2>6. old.id \in RunnerId /\ old.id \in made \ making
    BY <1>0, <2>2, <2>3 DEF RunnerInfo, ListedOnce
  <2> HIDE DEF old, new
  <2>7. lent' = [lent EXCEPT ![b] = old.id]
    BY <2>1 DEF old
  <2>8. lent' \in [Borrower -> RunnerId \cup {NoRunner}] /\ lent'[b] = old.id /\ \A c \in Borrower : c # b => lent'[c] = lent[c]
    BY <1>0, <2>6, <2>7 DEF ManagerTyped
  <2>9. RestTyped
    BY <1>0, <2>1, <2>8 DEF RestTyped, ManagerTyped
  <2>10. \A c \in Borrower : lent'[c] # NoRunner => lent'[c] \in made \ making
    BY <1>0, <2>6, <2>8 DEF ListedOnce
  <2>11. Fine(new, lent', stopping', revived')
    <3>1. \A c \in Borrower : lent'[c] = new.id => c = b
      BY <2>3, <2>4, <2>8
    <3>2. QED
      BY <2>1, <2>3, <2>4, <2>8, <3>1 DEF Fine
  <2>12. ASSUME NEW j \in 1 .. Len(infos), j # k PROVE Fine(infos[j], lent', stopping', revived')
    <3>1. Fine(infos[j], lent, stopping, revived) /\ infos[j].id # old.id /\ infos[j].id # NoRunner
      BY <1>0, <1>0a, <2>2, <2>12 DEF BooksAreKept, ListedOnce, old, RunnerInfo
    <3>2. \A c \in Borrower : lent'[c] = infos[j].id <=> lent[c] = infos[j].id
      BY <2>1, <2>8, <3>1
    <3>3. QED
      BY <2>1, <3>1, <3>2 DEF Fine
  <2>13. UNCHANGED <<making, made, stopping>> /\ new.id = infos[k].id
    BY <2>1, <2>4 DEF old
  <2>14. QED
    BY <2>2, <2>4, <2>5, <2>9, <2>10, <2>11, <2>12, <2>13, EntryWritten
<1>10. ASSUME NEW b \in Borrower, ReleaseRunner(b) PROVE ManagerInv'
  <2> DEFINE r == lent[b]
             k == At(r)
             load == IF infos[k].workload = 0 THEN 0 ELSE infos[k].workload - 1
             old == infos[k]
             new == [old EXCEPT !.workload = 0, !.status = "idle"]
  <2>1. /\ r # NoRunner /\ lent' = [lent EXCEPT ![b] = NoRunner]
        /\ IF r \in Pooled
           THEN /\ infos' = [infos EXCEPT ![k].workload = load, ![k].status = IF load = 0 THEN "idle" ELSE "busy"]
                /\ revived' = IF infos[k].status = "shutdown" THEN revived \cup {r} ELSE revived
           ELSE UNCHANGED <<infos, revived>>
        /\ UNCHANGED <<making, made, stopping, wanted>>
    BY <1>10 DEF ReleaseRunner
  <2>2. r \in RunnerId
    BY <1>0, <2>1 DEF ManagerTyped
  <2>3. /\ lent' \in [Borrower -> RunnerId \cup {NoRunner}]
        /\ lent'[b] = NoRunner /\ \A c \in Borrower : c # b => lent'[c] = lent[c]
    BY <1>0, <2>1 DEF ManagerTyped
  <2>4. \A c \in Borrower : lent'[c] # NoRunner => lent'[c] \in made \ making
    BY <1>0, <2>3 DEF ListedOnce
  <2>5. ASSUME NEW j \in 1 .. Len(infos), infos[j].id # r
        PROVE  \A c \in Borrower : lent'[c] = infos[j].id <=> lent[c] = infos[j].id
    <3>1. infos[j].id # NoRunner
      BY <1>0, <1>0a DEF RunnerInfo
    <3>2. QED
      BY <2>3, <2>5, <3>1
  <2>6. CASE r \notin Pooled
    <3>1. UNCHANGED <<infos, revived>>
      BY <2>1, <2>6
    <3>2. ManagerTyped'
      BY <1>0, <2>1, <2>3, <3>1 DEF ManagerTyped, Pooled
    <3>3. ListedOnce'
      BY <1>0, <2>1, <2>4, <3>1 DEF ListedOnce
    <3>4. ASSUME NEW j \in 1 .. Len(infos) PROVE Fine(infos[j], lent', stopping', revived')
      <4>1. infos[j].id # r
        BY <1>0a, <2>6
      <4>2. QED
        BY <1>0, <2>1, <2>5, <3>1, <4>1 DEF BooksAreKept, Fine
    <3>5. BooksAreKept'
      BY <3>1, <3>4 DEF BooksAreKept
    <3>6. QED
      BY <3>2, <3>3, <3>5 DEF ManagerInv
  <2>7. CASE r \in Pooled
    <3>1. k \in 1 .. Len(infos) /\ infos[k].id = r
      <4>1. \E i \in 1 .. Len(infos) : infos[i].id = r
        BY <1>0a, <2>7
      <4>2. QED
        BY <1>0a, <4>1 DEF At
    <3>2. Fine(infos[k], lent, stopping, revived) /\ infos[k] \in RunnerInfo
      BY <1>0, <1>0a, <3>1 DEF BooksAreKept
    <3> HIDE DEF k
    <3>3. infos[k].workload = 1 /\ \A c \in Borrower : lent[c] = r => c = b
      BY <3>1, <3>2 DEF Fine
    <3>4. load = 0
      BY <3>3
    <3> HIDE DEF load
    <3>5. infos' = [infos EXCEPT ![k] = new]
      <4>1. infos' = [infos EXCEPT ![k].workload = 0, ![k].status = "idle"]
        BY <2>1, <2>7, <3>4
      <4>2. QED
        BY <1>0a, <3>1, <4>1
    <3>6. revived' = IF infos[k].status = "shutdown" THEN revived \cup {r} ELSE revived
      BY <2>1, <2>7
    <3>7. new \in RunnerInfo /\ new.id = r /\ new.workload = 0 /\ new.status = "idle"
      <4>1. old \in RunnerInfo /\ 0 \in 0 .. 1 /\ old.id = r
        BY <3>1, <3>2
      <4> HIDE DEF old, r
      <4>2. QED
        BY <4>1 DEF RunnerInfo
    <3> HIDE DEF r, new, old
    <3>8. RestTyped
      BY <1>0, <2>1, <2>2, <2>3, <3>6 DEF RestTyped, ManagerTyped
    <3>9. Fine(new, lent', stopping', revived')
      <4>1. \A c \in Borrower : lent'[c] # r
        BY <1>0, <2>2, <2>3, <3>3
      <4>2. r \in stopping => r \in revived'
        BY <3>1, <3>2, <3>6 DEF Fine
      <4>3. QED
        BY <2>1, <3>7, <4>1, <4>2 DEF Fine
    <3>10. ASSUME NEW j \in 1 .. Len(infos), j # k PROVE Fine(infos[j], lent', stopping', revived')
      <4>1. infos[j].id # r
        BY <1>0, <3>1, <3>10 DEF ListedOnce
      <4>2. infos[j].id \notin revived => infos[j].id \notin revived'
        BY <3>6, <4>1
      <4>3. \A c \in Borrower : lent'[c] = infos[j].id <=> lent[c] = infos[j].id
        BY <2>5, <4>1 DEF r
      <4>4. Fine(infos[j], lent, stopping, revived)
        BY <1>0 DEF BooksAreKept
      <4>5. infos[j].id \in revived => infos[j].id \in revived'
        BY <3>6
      <4>6. QED
        BY <2>1, <4>3, <4>4, <4>5, <4>2 DEF Fine
    <3>11. UNCHANGED <<making, made, stopping>> /\ new.id = infos[k].id
      BY <2>1, <3>1, <3>7
    <3>12. QED
      BY <2>4, <3>1, <3>5, <3>7, <3>8, <3>9, <3>10, <3>11, EntryWritten
  <2>8. QED
    BY <2>6, <2>7
<1>11. QED
  BY <1>1, <1>2, <1>3, <1>4, <1>5, <1>6, <1>7, <1>8, <1>9, <1>10 DEF ManagerNext

LEMMA ManagerTypes == ManagerInv => ManagerTypeOK
<1> SUFFICES ASSUME ManagerInv PROVE ManagerTypeOK
  OBVIOUS
<1>1. ManagerTyped /\ ListedOnce
  BY DEF ManagerInv
<1>2. Len(infos) \in Nat /\ DOMAIN infos = 1 .. Len(infos) /\ infos \in [1 .. Len(infos) -> RunnerInfo]
  BY <1>1, ListFacts
<1> DEFINE ids == [i \in 1 .. Len(infos) |-> infos[i].id]
<1>3. ids \in Seq(RunnerId) /\ Len(ids) = Len(infos)
  BY <1>2, IsSequence DEF RunnerInfo
<1>4. NoRepeats(ids)
  BY <1>1, <1>3 DEF NoRepeats, ListedOnce
<1> HIDE DEF ids
<1>5. Len(infos) <= Cardinality(RunnerId) /\ Cardinality(RunnerId) \in Nat
  BY <1>3, <1>4, NoRepeatsFit, ManagerAssumption, FS_CardinalityType
<1>6. infos \in BoundedSeq(RunnerInfo, Cardinality(RunnerId))
  BY <1>2, <1>5 DEF BoundedSeq, SeqOf
<1>7. QED
  BY <1>1, <1>6 DEF ManagerTyped, ManagerTypeOK, RunnerInfo

LEMMA LentOnce == ManagerInv => RunnersAreLentOnce
<1> SUFFICES ASSUME ManagerInv, NEW i \in DOMAIN infos
             PROVE  /\ infos[i].workload = Cardinality(Holders(infos[i].id)) /\ infos[i].workload <= 1
                    /\ infos[i].id \in stopping /\ infos[i].id \notin revived => infos[i].status = "shutdown"
  BY DEF RunnersAreLentOnce
<1>1. i \in 1 .. Len(infos)
  BY ListFacts DEF ManagerInv
<1>2. Fine(infos[i], lent, stopping, revived)
  BY <1>1 DEF ManagerInv, BooksAreKept
<1>3. CASE infos[i].workload = 0 /\ \A b \in Borrower : lent[b] # infos[i].id
  <2>1. Holders(infos[i].id) = {}
    BY <1>3 DEF Holders
  <2>2. Cardinality(Holders(infos[i].id)) = 0
    BY <2>1, FS_EmptySet
  <2>3. QED
    BY <1>2, <1>3, <2>2 DEF Fine
<1>4. CASE infos[i].workload = 1 /\ \E b \in Borrower : lent[b] = infos[i].id /\ \A c \in Borrower : lent[c] = infos[i].id => c = b
  <2>1. PICK b \in Borrower : lent[b] = infos[i].id /\ \A c \in Borrower : lent[c] = infos[i].id => c = b
    BY <1>4
  <2>2. Holders(infos[i].id) = {b}
    BY <2>1 DEF Holders
  <2>3. Cardinality(Holders(infos[i].id)) = 1
    BY <2>2, FS_Singleton
  <2>4. QED
    BY <1>2, <1>4, <2>3 DEF Fine
<1>5. QED
  BY <1>2, <1>3, <1>4 DEF Fine

(* A runner is lent to one user at a time, and while it is shut down to nobody *)
(* new, unless its user released it meanwhile; for any runners and users       *)
(* (ThreadingManager).                                                         *)
THEOREM LentToOneAtATime == ManagerSpec => []RunnersAreLentOnce
BY LentOnce, ManagerStarts, ManagerKeeps, PTL DEF ManagerSpec

-----------------------------------------------------------------------------
(* The parallel executor.                                                     *)

Visitors == [Found -> [Task -> Found]]
AfterNeeds(v, found, task) ==
  LET deep == FoldBy(v, [found EXCEPT !.visited = @ \cup {task}], Needs[task]) IN
  [deep EXCEPT !.sorted = Append(@, task)]
VisitStep(tasks, v) ==
  [found \in Found |-> [task \in Task |->
     IF task \notin tasks \ found.visited THEN found ELSE AfterNeeds(v, found, task)]]
Stays0 == [found \in Found |-> [task \in Task |-> found]]

LEMMA VisitStepStays ==
  ASSUME NEW tasks, NEW v \in Visitors
  PROVE  VisitStep(tasks, v) \in Visitors
<1>1. ASSUME NEW found \in Found, NEW task \in Task PROVE AfterNeeds(v, found, task) \in Found
  <2> DEFINE base == [found EXCEPT !.visited = @ \cup {task}]
             deep == FoldBy(v, base, Needs[task])
  <2>1. base \in Found
    BY DEF Found
  <2>2. Needs[task] \in Seq(Task)
    BY ExecutorAssumption
  <2>3. deep \in Found
    <3> HIDE DEF base
    <3>1. QED
      BY <2>1, <2>2, FoldStays DEF Visitors
  <2> HIDE DEF deep
  <2>4. [deep EXCEPT !.sorted = Append(@, task)] \in Found
    <3>1. Append(deep.sorted, task) \in Seq(Task)
      BY <2>3, AppendProperties DEF Found
    <3>2. QED
      BY <2>3, <3>1 DEF Found
  <2>5. QED
    BY <2>4 DEF deep, AfterNeeds
<1>2. QED
  BY <1>1 DEF VisitStep, Visitors

\* The levels of the recursion.
Levels(tasks, it) ==
  it = [n \in Nat |->
        [found \in Found |-> [task \in Task |->
          IF n = 0 \/ task \notin tasks \ found.visited THEN found ELSE AfterNeeds(it[n - 1], found, task)]]]

LEMMA VisitStays ==
  ASSUME NEW tasks, IsFiniteSet(tasks)
  PROVE  Visit(tasks) \in Visitors
<1> DEFINE it == CHOOSE i : Levels(tasks, i)
           G == [n \in Nat |-> [v \in Visitors |-> VisitStep(tasks, v)]]
<1>1. G \in [Nat -> [Visitors -> Visitors]]
  BY VisitStepStays
<1>2. Stays0 \in Visitors
  BY DEF Stays0, Visitors
<1>3. PICK g \in [Nat -> Visitors] : Recurs(g, Stays0, G)
  <2> HIDE DEF G
  <2>1. QED
    BY <1>1, <1>2, RecursionOnNat
<1>4. Levels(tasks, g)
  <2> DEFINE L(n) == [found \in Found |-> [task \in Task |->
          IF n = 0 \/ task \notin tasks \ found.visited THEN found ELSE AfterNeeds(g[n - 1], found, task)]]
  <2>1. g[0] = L(0)
    <3>1. g[0] = Stays0
      BY <1>3 DEF Recurs
    <3>2. QED
      BY <3>1 DEF Stays0
  <2>2. ASSUME NEW n \in Nat, n # 0 PROVE g[n] = L(n)
    <3>1. n - 1 \in Nat /\ (n - 1) + 1 = n
      BY <2>2
    <3>2. g[n] = VisitStep(tasks, g[n - 1])
      <4>1. g[(n - 1) + 1] = G[n - 1][g[n - 1]] /\ g[n - 1] \in Visitors
        BY <1>3, <3>1 DEF Recurs
      <4>2. QED
        BY <3>1, <4>1
    <3>3. QED
      BY <2>2, <3>2 DEF VisitStep
  <2>3. \A n \in Nat : g[n] = L(n)
    BY <2>1, <2>2
  <2>4. g = [n \in Nat |-> g[n]]
    OBVIOUS
  <2>5. g = [n \in Nat |-> L(n)]
    <3> HIDE DEF L
    <3>1. QED
      BY <2>3, <2>4
  <2>6. QED
    BY <2>5 DEF Levels
<1>5. Levels(tasks, it)
  BY <1>4
<1>6. Visit(tasks) = it[Cardinality(tasks)]
  BY DEF Visit, Levels, AfterNeeds, FoldBy, FoldLeft, MapThenFoldSet
<1> HIDE DEF it
<1>7. it[0] \in Visitors
  <2>1. it[0] = Stays0
    BY <1>5 DEF Levels, Stays0
  <2>2. QED
    BY <1>2, <2>1
<1>8. ASSUME NEW n \in Nat, it[n] \in Visitors PROVE it[n + 1] \in Visitors
  <2>1. (n + 1) - 1 = n /\ n + 1 \in Nat /\ n + 1 # 0
    OBVIOUS
  <2>2. it[n + 1] = VisitStep(tasks, it[n])
    <3> DEFINE m == n + 1
    <3>1. m \in Nat /\ m # 0 /\ m - 1 = n
      OBVIOUS
    <3> HIDE DEF m
    <3>2. it[m] = [found \in Found |-> [task \in Task |->
            IF m = 0 \/ task \notin tasks \ found.visited THEN found ELSE AfterNeeds(it[m - 1], found, task)]]
      BY <1>5, <3>1 DEF Levels
    <3>3. it[m] = VisitStep(tasks, it[n])
      BY <3>1, <3>2 DEF VisitStep
    <3>4. QED
      BY <3>3 DEF m
  <2>3. QED
    BY <1>8, <2>2, VisitStepStays
<1> DEFINE S == {n \in Nat : it[n] \in Visitors}
<1>9. S = Nat
  <2>1. 0 \in S
    BY <1>7
  <2>2. \A n \in Nat : n \in S => n + 1 \in S
    BY <1>8
  <2>3. S \in SUBSET Nat
    OBVIOUS
  <2> HIDE DEF S
  <2>4. QED
    BY <2>1, <2>2, <2>3, NatUpwards
<1>10. Cardinality(tasks) \in Nat
  BY FS_CardinalityType
<1>11. QED
  BY <1>6, <1>9, <1>10

LEMMA ResolvedAreTasks ==
  ASSUME NEW tasks \in Seq(Task)
  PROVE  ResolveDependencies(tasks) \in Seq(Task)
<1>1. IsFiniteSet(ToSet(tasks))
  <2>1. IsFiniteSet(DOMAIN tasks)
    BY GreatestPlace
  <2>2. tasks \in Surjection(DOMAIN tasks, ToSet(tasks))
    BY DEF Surjection, ToSet
  <2>3. QED
    BY <2>1, <2>2, FS_Surjection
<1> DEFINE V == Visit(ToSet(tasks))
           base == [visited |-> {}, sorted |-> <<>>]
<1>2. V \in Visitors
  BY <1>1, VisitStays
<1>3. base \in Found
  BY DEF Found
<1>4. FoldBy(V, base, tasks) \in Found
  <2> HIDE DEF V, base
  <2>1. QED
    BY <1>2, <1>3, FoldStays DEF Visitors
<1>5. FoldBy(V, base, tasks).sorted \in Seq(Task)
  BY <1>4 DEF Found
<1>6. QED
  BY <1>5 DEF ResolveDependencies, FoldBy, FoldLeft, MapThenFoldSet

TurnRecord == [at : InSync \cup Awaiting \cup {"none", "done"}, todo : Seq(Task), executing : SUBSET Task, raced : SUBSET Task]
ExecutorInv ==
  /\ turns \in [Batcher -> TurnRecord] /\ known \subseteq Task /\ running \in Int /\ running <= MaxConcurrency
  /\ {calledOff, overdue, detects} \subseteq BOOLEAN /\ resets \in 0 .. MaxResets /\ crossed \subseteq Batcher
  /\ \A c \in Batcher : turns[c].at \in {"needs", "slot", "race"} => turns[c].todo # <<>>

LEMMA ExecutorStarts == ExecutorInit => ExecutorInv
<1> SUFFICES ASSUME ExecutorInit PROVE ExecutorInv
  OBVIOUS
<1>1. [at |-> "none", todo |-> <<>>, executing |-> {}, raced |-> {}] \in TurnRecord
  BY DEF TurnRecord
<1>2. 0 <= MaxConcurrency /\ 0 \in 0 .. MaxResets /\ FALSE \in BOOLEAN
  BY ExecutorAssumption
<1>3. turns \in [Batcher -> TurnRecord] /\ \A c \in Batcher : turns[c].at \in {"needs", "slot", "race"} => turns[c].todo # <<>>
  BY <1>1 DEF ExecutorInit
<1>4. {calledOff, overdue, detects} \subseteq BOOLEAN
  BY <1>2 DEF ExecutorInit
<1>5. known \subseteq Task /\ running \in Int /\ running <= MaxConcurrency /\ resets \in 0 .. MaxResets /\ crossed \subseteq Batcher
  BY <1>2 DEF ExecutorInit
<1>6. QED
  BY <1>3, <1>4, <1>5 DEF ExecutorInv

\* One caller's record changes.
TurnGoes(c, r) ==
  /\ r \in TurnRecord /\ (r.at \in {"needs", "slot", "race"} => r.todo # <<>>)
  /\ turns' = [turns EXCEPT ![c] = r]
OthersStay ==
  /\ known' \subseteq Task /\ running' \in Int /\ running' <= MaxConcurrency
  /\ {calledOff', overdue', detects'} \subseteq BOOLEAN /\ resets' \in 0 .. MaxResets /\ crossed' \subseteq Batcher
LEMMA TurnMoves ==
  ASSUME ExecutorInv, NEW c \in Batcher, NEW r, TurnGoes(c, r), OthersStay
  PROVE  ExecutorInv'
<1>1. turns' \in [Batcher -> TurnRecord]
  BY DEF ExecutorInv, TurnGoes
<1>2. ASSUME NEW d \in Batcher PROVE turns'[d].at \in {"needs", "slot", "race"} => turns'[d].todo # <<>>
  <2>1. turns'[d] = IF d = c THEN r ELSE turns[d]
    BY DEF ExecutorInv, TurnGoes
  <2>2. CASE d = c
    BY <2>1, <2>2 DEF TurnGoes
  <2>3. CASE d # c
    BY <2>1, <2>3 DEF ExecutorInv
  <2>4. QED
    BY <2>2, <2>3
<1>3. QED
  BY <1>1, <1>2 DEF ExecutorInv, OthersStay

LEMMA ExecutorKeeps == ExecutorInv /\ [ExecutorNext]_executorVars => ExecutorInv'
<1> SUFFICES ASSUME ExecutorInv, [ExecutorNext]_executorVars PROVE ExecutorInv'
  OBVIOUS
<1>0. /\ turns \in [Batcher -> TurnRecord] /\ known \subseteq Task /\ running \in Int /\ running <= MaxConcurrency
      /\ {calledOff, overdue, detects} \subseteq BOOLEAN /\ resets \in 0 .. MaxResets /\ crossed \subseteq Batcher
      /\ \A c \in Batcher : turns[c].at \in {"needs", "slot", "race"} => turns[c].todo # <<>>
      /\ MaxConcurrency \in Nat /\ MaxConcurrency >= 1 /\ MaxResets \in Nat
  BY ExecutorAssumption DEF ExecutorInv
<1>0a. ASSUME NEW c \in Batcher, NEW at \in InSync \cup Awaiting \cup {"none", "done"},
              at \in {"needs", "slot", "race"} => turns[c].todo # <<>>, Moves(c, at), OthersStay
       PROVE  ExecutorInv'
  <2> DEFINE r == [turns[c] EXCEPT !.at = at]
  <2>1. r \in TurnRecord /\ r.at = at /\ r.todo = turns[c].todo
    <3>1. turns[c] \in TurnRecord
      BY <1>0
    <3>2. QED
      BY <3>1, <1>0a DEF TurnRecord
  <2>2. turns' = [turns EXCEPT ![c] = r]
    BY <1>0a DEF Moves
  <2> HIDE DEF r
  <2>3. TurnGoes(c, r)
    BY <1>0a, <2>1, <2>2 DEF TurnGoes
  <2>4. QED
    BY <1>0a, <2>3, TurnMoves
<1>0b. ASSUME NEW c \in Batcher, Skips(c), turns[c].todo # <<>>, OthersStay PROVE ExecutorInv'
  <2> DEFINE r == [turns[c] EXCEPT !.at = "loop", !.todo = Tail(@)]
  <2>1. turns[c] \in TurnRecord
    BY <1>0
  <2>1a. Tail(turns[c].todo) \in Seq(Task)
    BY <1>0b, <2>1, HeadTailProperties DEF TurnRecord
  <2>2. r \in TurnRecord /\ r.at = "loop"
    BY <2>1, <2>1a DEF TurnRecord, InSync
  <2>3. turns' = [turns EXCEPT ![c] = r]
    <3>1. turns' = [turns EXCEPT ![c] = [[turns[c] EXCEPT !.at = "loop"] EXCEPT !.todo = Tail(turns[c].todo)]]
      BY <1>0, <1>0b, <2>1 DEF Skips, TurnRecord
    <3>2. QED
      BY <2>1, <3>1 DEF TurnRecord
  <2> HIDE DEF r
  <2>4. TurnGoes(c, r)
    BY <2>2, <2>3 DEF TurnGoes
  <2>5. QED
    BY <1>0b, <2>4, TurnMoves
<1>0c. ASSUME UNCHANGED <<known, running, calledOff, overdue, detects, resets, crossed>> PROVE OthersStay
  BY <1>0, <1>0c DEF OthersStay
<1>1. ASSUME NEW c \in Batcher, NextTask(c) PROVE ExecutorInv'
  <2>1. OthersStay
    BY <1>0c, <1>1 DEF NextTask
  <2>2. CASE Moves(c, "all")
    BY <1>0a, <2>1, <2>2 DEF Awaiting
  <2>3. CASE turns[c].todo # <<>> /\ Skips(c)
    BY <1>0b, <2>1, <2>3
  <2>4. CASE turns[c].todo # <<>> /\ (Moves(c, "needs") \/ Moves(c, "slot"))
    BY <1>0a, <2>1, <2>4 DEF Awaiting, InSync
  <2>5. QED
    BY <1>1, <2>2, <2>3, <2>4 DEF NextTask
<1>2. ASSUME NEW c \in Batcher, NeedsAwaited(c) PROVE ExecutorInv'
  <2>1. OthersStay /\ turns[c].at = "needs" /\ turns[c].todo # <<>> /\ (Skips(c) \/ Moves(c, "slot"))
    BY <1>0, <1>0c, <1>2 DEF NeedsAwaited
  <2>2. QED
    BY <1>0a, <1>0b, <2>1 DEF InSync
<1>3. ASSUME NEW c \in Batcher, TakeSlot(c) PROVE ExecutorInv'
  <2>1. turns[c].at = "slot" /\ turns[c].todo # <<>> /\ turns[c] \in TurnRecord
    BY <1>0, <1>3 DEF TakeSlot
  <2>2. CASE running < MaxConcurrency
    <3> DEFINE r == [at |-> "loop", todo |-> Tail(turns[c].todo),
                     executing |-> turns[c].executing \cup {Head(turns[c].todo)}, raced |-> {}]
    <3>1. Tail(turns[c].todo) \in Seq(Task) /\ Head(turns[c].todo) \in Task
      BY <2>1, HeadTailProperties DEF TurnRecord
    <3>2. r \in TurnRecord /\ r.at = "loop"
      BY <2>1, <3>1 DEF TurnRecord, InSync
    <3>3. turns' = [turns EXCEPT ![c] = r] /\ running' = running + 1
      BY <1>3, <2>2 DEF TakeSlot
    <3> HIDE DEF r
    <3>4. TurnGoes(c, r)
      BY <3>2, <3>3 DEF TurnGoes
    <3>5. running' \in Int /\ running' <= MaxConcurrency
      BY <1>0, <2>2, <3>3
    <3>6. UNCHANGED <<known, calledOff, overdue, detects, resets, crossed>>
      BY <1>3 DEF TakeSlot
    <3>7. OthersStay
      BY <1>0, <3>5, <3>6 DEF OthersStay
    <3>8. QED
      BY <3>4, <3>7, TurnMoves
  <2>3. CASE ~(running < MaxConcurrency)
    <3> DEFINE at == IF turns[c].executing = {} THEN "stuck" ELSE "race"
               r == [turns[c] EXCEPT !.at = at, !.raced = turns[c].executing]
    <3>1. r \in TurnRecord /\ r.todo = turns[c].todo
      BY <2>1 DEF TurnRecord, Awaiting
    <3>2. turns' = [turns EXCEPT ![c] = r]
      <4>1. turns' = [turns EXCEPT ![c].at = at, ![c].raced = turns[c].executing]
        BY <1>3, <2>3 DEF TakeSlot
      <4>1a. at \in {"stuck", "race"}
        OBVIOUS
      <4> HIDE DEF at
      <4>2. turns' = [turns EXCEPT ![c] = [[turns[c] EXCEPT !.at = at] EXCEPT !.raced = turns[c].executing]]
        BY <1>0, <2>1, <4>1 DEF TurnRecord
      <4>3. QED
        BY <2>1, <4>2 DEF TurnRecord
    <3> HIDE DEF r
    <3>3. TurnGoes(c, r)
      BY <2>1, <3>1, <3>2 DEF TurnGoes
    <3>4. OthersStay
      BY <1>0c, <1>3, <2>3 DEF TakeSlot
    <3>5. QED
      BY <3>3, <3>4, TurnMoves
  <2>4. QED
    BY <2>2, <2>3
<1>4. ASSUME NEW c \in Batcher, RaceWon(c) \/ AllSettled(c) PROVE ExecutorInv'
  <2>1. OthersStay
    BY <1>0c, <1>4 DEF RaceWon, AllSettled
  <2>2. CASE RaceWon(c)
    BY <1>0, <1>0a, <2>1, <2>2 DEF RaceWon, InSync
  <2>3. CASE AllSettled(c)
    BY <1>0a, <2>1, <2>3 DEF AllSettled
  <2>4. QED
    BY <1>4, <2>2, <2>3
<1>5. ASSUME NEW c \in Batcher, NEW t \in Task, TaskEnds(c, t) PROVE ExecutorInv'
  <2> DEFINE r == [turns[c] EXCEPT !.executing = @ \ {t}]
  <2>1. turns[c] \in TurnRecord
    BY <1>0
  <2>2. r \in TurnRecord /\ r.at = turns[c].at /\ r.todo = turns[c].todo
    BY <2>1 DEF TurnRecord
  <2>3. turns' = [turns EXCEPT ![c] = r]
    BY <1>5 DEF TaskEnds
  <2> HIDE DEF r
  <2>4. TurnGoes(c, r)
    BY <1>0, <2>2, <2>3 DEF TurnGoes
  <2>5. running' = running - 1 /\ known' = known \cup {t} /\ UNCHANGED <<calledOff, overdue, detects, resets, crossed>>
    BY <1>5 DEF TaskEnds, Released
  <2>6. OthersStay
    <3>1. running' \in Int /\ running' <= MaxConcurrency
      BY <1>0, <2>5
    <3>2. QED
      BY <1>0, <2>5, <3>1 DEF OthersStay
  <2>7. QED
    BY <2>4, <2>6, TurnMoves
<1>6. ASSUME NEW c \in Batcher, NEW tasks \in Lists, ExecuteAll(c, tasks) PROVE ExecutorInv'
  <2> DEFINE todo == ResolveDependencies(tasks)
             r == [turns[c] EXCEPT !.at = "loop", !.todo = todo]
  <2>1. turns[c] \in TurnRecord
    BY <1>0
  <2>2. todo \in Seq(Task)
    <3>1. tasks \in Seq(Task)
      BY ExecutorAssumption
    <3>2. QED
      BY <3>1, ResolvedAreTasks
  <2>3. turns' = [turns EXCEPT ![c].at = "loop", ![c].todo = todo]
    BY <1>6 DEF ExecuteAll
  <2> HIDE DEF todo
  <2>4. r \in TurnRecord /\ r.at = "loop"
    BY <2>1, <2>2 DEF TurnRecord, InSync
  <2>5. turns' = [turns EXCEPT ![c] = r]
    <3>1. turns' = [turns EXCEPT ![c] = [[turns[c] EXCEPT !.at = "loop"] EXCEPT !.todo = todo]]
      BY <1>0, <2>1, <2>3 DEF TurnRecord
    <3>2. QED
      BY <2>1, <3>1 DEF TurnRecord
  <2> HIDE DEF r
  <2>6. TurnGoes(c, r)
    BY <2>4, <2>5 DEF TurnGoes
  <2>7. calledOff' = FALSE /\ overdue' = FALSE /\ UNCHANGED <<known, running, detects, resets>> /\ crossed' \subseteq Batcher
    <3>1. crossed' = IF ActiveCallers = {} THEN crossed ELSE crossed \cup ActiveCallers \cup {c}
      BY <1>6 DEF ExecuteAll
    <3>2. ActiveCallers \subseteq Batcher
      BY DEF ActiveCallers
    <3>3. calledOff' = FALSE /\ overdue' = FALSE /\ UNCHANGED <<known, running, detects, resets>>
      BY <1>6 DEF ExecuteAll
    <3>4. QED
      BY <1>0, <3>1, <3>2, <3>3
  <2>8. OthersStay
    <3>1. FALSE \in BOOLEAN
      OBVIOUS
    <3>2. QED
      BY <1>0, <2>7, <3>1 DEF OthersStay
  <2>9. QED
    BY <2>6, <2>8, TurnMoves
<1>7. ASSUME turns' = turns, OthersStay PROVE ExecutorInv'
  BY <1>0, <1>7 DEF ExecutorInv, OthersStay
<1>8. ASSUME CancelAll \/ TurnOverdue PROVE ExecutorInv'
  <2>1. /\ turns' = turns /\ UNCHANGED <<known, running, detects, resets, crossed>>
        /\ calledOff' \in {calledOff, TRUE} /\ overdue' \in {overdue, TRUE}
    BY <1>8 DEF CancelAll, TurnOverdue
  <2>2. OthersStay
    BY <1>0, <2>1 DEF OthersStay
  <2>3. QED
    BY <1>7, <2>1, <2>2
<1>9. ASSUME ExecutorReset PROVE ExecutorInv'
  <2>1. turns' = turns /\ known' = {} /\ running' = 0 /\ calledOff' = FALSE /\ UNCHANGED <<overdue, detects, crossed>>
        /\ resets < MaxResets /\ resets' = resets + 1
    BY <1>9 DEF ExecutorReset
  <2>2. resets' \in 0 .. MaxResets /\ running' \in Int /\ running' <= MaxConcurrency /\ FALSE \in BOOLEAN
    BY <1>0, <2>1
  <2>3. OthersStay
    BY <1>0, <2>1, <2>2 DEF OthersStay
  <2>4. QED
    BY <1>7, <2>1, <2>3
<1>10. ASSUME UNCHANGED executorVars PROVE ExecutorInv'
  <2>1. turns' = turns /\ OthersStay
    BY <1>0c, <1>10 DEF executorVars
  <2>2. QED
    BY <1>7, <2>1
<1>11. QED
  BY <1>1, <1>2, <1>3, <1>4, <1>5, <1>6, <1>8, <1>9, <1>10 DEF ExecutorNext, CallGoesOn

LEMMA ExecutorTypes == ExecutorInv => ExecutorTypeOK
BY DEF ExecutorInv, ExecutorTypeOK, TurnRecord

-----------------------------------------------------------------------------
(* The token bucket.                                                          *)

LEMMA BucketBounds ==
  /\ MaxTokens \in Nat /\ MaxTokens >= 1 /\ WindowLen \in Nat /\ WindowLen >= 1 /\ MaxOutside \in Nat
  /\ IsFiniteSet(Asker) /\ IsFiniteSet(Ticket) /\ Customer \subseteq Asker
<1>1. IsFiniteSet(Asker)
  BY BucketAssumption, FS_AddElement DEF Asker
<1>2. QED
  BY <1>1, BucketAssumption DEF Asker

\* What the bucket, the line and the accounts are, as one record.
BucketState == [tokens : Nat, age : Nat, line : Seq(Ticket), usage : [Customer -> Nat], given : [Asker -> Nat]]
Within(s, list) == NoRepeats(s.line) /\ \A i \in 1 .. Len(s.line) : \E j \in 1 .. Len(list) : s.line[i] = list[j]
Balanced(s) ==
  /\ s \in BucketState /\ s.age <= WindowLen
  /\ SumOf(s.given, Asker) + s.tokens <= MaxTokens /\ \A c \in Customer : s.usage[c] = s.given[c]

Comprises(s, t, a, l, u, g) ==
  s \in BucketState /\ s.tokens = t /\ s.age = a /\ s.line = l /\ s.usage = u /\ s.given = g
LEMMA ServedRecord ==
  ASSUME NEW s \in BucketState, NEW t \in Nat, NEW l \in Seq(Ticket), NEW u \in [Customer -> Nat], NEW g \in [Asker -> Nat]
  PROVE  Comprises([s EXCEPT !.tokens = t, !.line = l, !.usage = u, !.given = g], t, s.age, l, u, g)
BY DEF BucketState, Comprises

LEMMA FullRecord ==
  ASSUME NEW s \in BucketState, NEW t \in Nat, NEW a \in Nat, NEW u \in [Customer -> Nat], NEW g \in [Asker -> Nat]
  PROVE  Comprises([s EXCEPT !.tokens = t, !.age = a, !.usage = u, !.given = g], t, a, s.line, u, g)
BY DEF BucketState, Comprises

LEMMA GivenRecord ==
  ASSUME NEW s \in BucketState, NEW t \in Nat, NEW u \in [Customer -> Nat], NEW g \in [Asker -> Nat]
  PROVE  Comprises([s EXCEPT !.tokens = t, !.usage = u, !.given = g], t, s.age, s.line, u, g)
BY DEF BucketState, Comprises

LEMMA BalancedFits ==
  ASSUME NEW s, Balanced(s)
  PROVE  s.tokens \in Nat /\ s.tokens <= MaxTokens
<1> DEFINE m == SumOf(s.given, Asker)
<1>1. s.tokens \in Nat /\ s.given \in [Asker -> Nat] /\ m + s.tokens <= MaxTokens
  BY DEF Balanced, BucketState
<1>2. m \in Nat
  <2>1. \A c \in Asker : s.given[c] \in Nat
    BY <1>1
  <2>2. QED
    BY <2>1, BucketBounds, SumUnfolds
<1> HIDE DEF m
<1>3. QED
  BY <1>1, <1>2, BucketBounds

\* The first in the line get the tokens there are.
LEMMA QueueIsServed ==
  ASSUME NEW s, Balanced(s), NEW list, Within(s, list)
  PROVE  Balanced(ProcessQueue(s)) /\ Within(ProcessQueue(s), list)
<1> DEFINE n == Least(s.tokens, Len(s.line))
           rest == SubSeq(s.line, n + 1, Len(s.line))
           own == [i \in 1 .. n |-> OwnerOf[s.line[i]]]
           u == Handed(s.usage, s.line, n)
           g == Handed(s.given, s.line, n)
           r == ProcessQueue(s)
<1>1. /\ s.tokens \in Nat /\ s.age \in Nat /\ s.line \in Seq(Ticket) /\ s.usage \in [Customer -> Nat]
      /\ s.given \in [Asker -> Nat] /\ s.age <= WindowLen
      /\ SumOf(s.given, Asker) + s.tokens <= MaxTokens /\ \A c \in Customer : s.usage[c] = s.given[c]
  BY DEF Balanced, BucketState
<1>1a. SumOf(s.given, Asker) \in Nat
  <2>1. \A c \in Asker : s.given[c] \in Nat
    BY <1>1
  <2>2. QED
    BY <2>1, BucketBounds, SumUnfolds
<1>2. Len(s.line) \in Nat /\ \A i \in 1 .. Len(s.line) : s.line[i] \in Ticket
  BY <1>1, LenProperties
<1>3. n \in Nat /\ n <= s.tokens /\ n <= Len(s.line) /\ n \in 0 .. Len(s.line)
  BY <1>1, <1>2 DEF Least
<1>4. r = [s EXCEPT !.tokens = s.tokens - n, !.line = rest, !.usage = u, !.given = g]
  BY DEF ProcessQueue
<1> HIDE DEF n
<1>5. own \in [1 .. n -> Asker]
  <2>1. \A i \in 1 .. n : s.line[i] \in Ticket
    BY <1>2, <1>3
  <2>2. QED
    BY <2>1, BucketAssumption DEF Asker
<1>6. g \in [Asker -> Nat] /\ u \in [Customer -> Nat] /\ \A c \in Customer : u[c] = g[c]
  <2> DEFINE Got(c) == {i \in 1 .. n : OwnerOf[s.line[i]] = c}
  <2>1. ASSUME NEW c \in Asker PROVE Cardinality(Got(c)) \in Nat
    <3>1. IsFiniteSet(1 .. n)
      BY <1>3, UpToSize
    <3>2. IsFiniteSet(Got(c))
      BY <3>1, FS_Subset
    <3>3. QED
      BY <3>2, FS_CardinalityType
  <2>2. DOMAIN s.usage = Customer /\ DOMAIN s.given = Asker
    BY <1>1
  <2>3. /\ u = [c \in Customer |-> s.usage[c] + Cardinality(Got(c))]
        /\ g = [c \in Asker |-> s.given[c] + Cardinality(Got(c))]
    BY <2>2 DEF Handed
  <2>4. /\ \A c \in Customer : c \in Asker /\ s.usage[c] \in Nat /\ s.usage[c] = s.given[c]
        /\ \A c \in Asker : s.given[c] \in Nat
    BY <1>1, BucketBounds
  <2> HIDE DEF u, g, Got
  <2>5. /\ \A c \in Asker : s.given[c] + Cardinality(Got(c)) \in Nat
        /\ \A c \in Customer : s.usage[c] + Cardinality(Got(c)) \in Nat
    BY <2>1, <2>4
  <2>6. QED
    BY <2>3, <2>4, <2>5
<1>7. SumOf(g, Asker) = SumOf(s.given, Asker) + n
  <2> DEFINE v == s.given
             w == [c \in Asker |-> v[c] + Cardinality({i \in 1 .. n : own[i] = c})]
  <2>1. v \in [Asker -> Nat]
    BY <1>1
  <2>2. SumOf(w, Asker) = SumOf(v, Asker) + n
    <3> HIDE DEF v, own
    <3>1. QED
      BY <1>3, <1>5, <2>1, BucketBounds, EachIsServed
  <2>3. g = w
    <3>1. ASSUME NEW c \in Asker PROVE {i \in 1 .. n : OwnerOf[s.line[i]] = c} = {i \in 1 .. n : own[i] = c}
      OBVIOUS
    <3>2. g = [c \in Asker |-> v[c] + Cardinality({i \in 1 .. n : OwnerOf[s.line[i]] = c})]
      BY <2>1 DEF Handed
    <3> HIDE DEF own, g, v
    <3>3. QED
      BY <3>1, <3>2
  <2> HIDE DEF g, w
  <2>4. QED
    BY <2>2, <2>3
<1>8. /\ rest \in Seq(Ticket) /\ Len(rest) = Len(s.line) - n
      /\ \A j \in 1 .. Len(s.line) - n : rest[j] = s.line[j + n]
  BY <1>1, <1>3, TheRest
<1> HIDE DEF u, g, rest, r, own
<1>8a. s.tokens - n \in Nat /\ SumOf(g, Asker) + (s.tokens - n) <= MaxTokens
  <2> DEFINE m == SumOf(s.given, Asker)
  <2>1. m \in Nat /\ m + s.tokens <= MaxTokens /\ SumOf(g, Asker) = m + n
    BY <1>1, <1>1a, <1>7
  <2> HIDE DEF m
  <2>2. QED
    BY <1>1, <1>3, <2>1, BucketBounds
<1>8b. Comprises(r, s.tokens - n, s.age, rest, u, g)
  <2>1. s \in BucketState
    BY DEF Balanced
  <2>2. QED
    BY <1>4, <1>6, <1>8, <1>8a, <2>1, ServedRecord
<1>9. Balanced(r)
  BY <1>1, <1>6, <1>8a, <1>8b DEF Balanced, Comprises
<1>10. Within(r, list)
  <2>1. r.line = rest
    BY <1>8b DEF Comprises
  <2>2. ASSUME NEW i \in 1 .. Len(rest) PROVE i + n \in 1 .. Len(s.line) /\ rest[i] = s.line[i + n] /\ i \in Nat
    BY <1>2, <1>3, <1>8
  <2>3. ASSUME NEW i \in 1 .. Len(rest), NEW j \in 1 .. Len(rest), rest[i] = rest[j] PROVE i = j
    <3>1. s.line[i + n] = s.line[j + n]
      BY <2>2, <2>3
    <3>2. i + n = j + n
      BY <2>2, <3>1 DEF Within, NoRepeats
    <3>3. QED
      BY <1>3, <2>2, <3>2
  <2>4. ASSUME NEW i \in 1 .. Len(rest) PROVE \E j \in 1 .. Len(list) : rest[i] = list[j]
    BY <2>2 DEF Within
  <2>5. QED
    BY <2>1, <2>3, <2>4 DEF Within, NoRepeats
<1>11. QED
  BY <1>9, <1>10 DEF r

LEMMA NoneIsUsed ==
  /\ NoneOf(Customer) \in [Customer -> Nat] /\ NoneOf(Asker) \in [Asker -> Nat]
  /\ \A c \in Customer : NoneOf(Customer)[c] = NoneOf(Asker)[c]
  /\ SumOf(NoneOf(Asker), Asker) = 0
<1> DEFINE none == NoneOf(Asker)
<1>1. none \in [Asker -> Nat] /\ \A c \in Asker : none[c] \in Nat /\ none[c] = 0 /\ none[c] <= 0
  BY DEF NoneOf
<1>2. NoneOf(Customer) \in [Customer -> Nat] /\ \A c \in Customer : NoneOf(Customer)[c] = none[c]
  BY BucketBounds DEF NoneOf
<1> HIDE DEF none
<1>3. SumOf(none, Asker) <= Cardinality(Asker) * 0
  BY <1>1, BucketBounds, SumIsBounded
<1>4. SumOf(none, Asker) \in Nat /\ Cardinality(Asker) \in Nat
  BY <1>1, BucketBounds, SumUnfolds, FS_CardinalityType
<1>5. SumOf(none, Asker) = 0
  BY <1>3, <1>4
<1>6. QED
  BY <1>1, <1>2, <1>5 DEF none

LEMMA RefillServes ==
  ASSUME NEW s, Balanced(s), NEW list, Within(s, list)
  PROVE  Balanced(Refilled(s)) /\ Within(Refilled(s), list)
<1> DEFINE full == [s EXCEPT !.tokens = MaxTokens, !.age = 0, !.usage = NoneOf(Customer), !.given = NoneOf(Asker)]
<1>1. Comprises(full, MaxTokens, 0, s.line, NoneOf(Customer), NoneOf(Asker))
  <2>1. s \in BucketState /\ MaxTokens \in Nat
    BY BucketBounds DEF Balanced
  <2> DEFINE none == NoneOf(Customer)
             nothing == NoneOf(Asker)
  <2>2. full = [s EXCEPT !.tokens = MaxTokens, !.age = 0, !.usage = none, !.given = nothing]
    OBVIOUS
  <2>3. none \in [Customer -> Nat] /\ nothing \in [Asker -> Nat] /\ 0 \in Nat
    BY NoneIsUsed
  <2> HIDE DEF full, none, nothing
  <2>4. Comprises(full, MaxTokens, 0, s.line, none, nothing)
    BY <2>1, <2>2, <2>3, FullRecord
  <2>5. QED
    BY <2>4 DEF none, nothing
<1>2. Refilled(s) = ProcessQueue(full)
  BY DEF Refilled
<1>3. s.line \in Seq(Ticket)
  BY DEF Balanced, BucketState
<1> HIDE DEF full
<1>4. Balanced(full)
  BY <1>1, <1>3, NoneIsUsed, BucketBounds DEF Balanced, Comprises
<1>5. Within(full, list)
  BY <1>1 DEF Within, Comprises
<1>6. QED
  BY <1>2, <1>4, <1>5, QueueIsServed

\* One token is given, and is on the account of an agent that asked for it.
LEMMA OneIsGiven ==
  ASSUME NEW s, Balanced(s), NEW list, Within(s, list), NEW c \in Asker, s.tokens # 0
  PROVE  LET t == [s EXCEPT !.tokens = @ - 1, !.usage = OneMore(@, c), !.given = OneMore(@, c)]
         IN Balanced(t) /\ Within(t, list)
<1> DEFINE u == OneMore(s.usage, c)
           g == OneMore(s.given, c)
           t == [s EXCEPT !.tokens = @ - 1, !.usage = OneMore(@, c), !.given = OneMore(@, c)]
<1>1. /\ s.tokens \in Nat /\ s.age \in Nat /\ s.line \in Seq(Ticket) /\ s.usage \in [Customer -> Nat]
      /\ s.given \in [Asker -> Nat] /\ s.age <= WindowLen
      /\ SumOf(s.given, Asker) + s.tokens <= MaxTokens /\ \A x \in Customer : s.usage[x] = s.given[x]
  BY DEF Balanced, BucketState
<1>2. g \in [Asker -> Nat] /\ g[c] = s.given[c] + 1 /\ \A x \in Asker \ {c} : g[x] = s.given[x]
  BY <1>1 DEF OneMore
<1>3. u \in [Customer -> Nat] /\ \A x \in Customer : u[x] = IF x = c THEN s.usage[x] + 1 ELSE s.usage[x]
  <2>1. CASE c \in Customer
    BY <1>1, <2>1 DEF OneMore
  <2>2. CASE c \notin Customer
    BY <1>1, <2>2 DEF OneMore
  <2>3. QED
    BY <2>1, <2>2
<1>4. Comprises(t, s.tokens - 1, s.age, s.line, u, g)
  <2>1. s \in BucketState /\ s.tokens - 1 \in Nat
    BY <1>1 DEF Balanced
  <2>2. t = [s EXCEPT !.tokens = s.tokens - 1, !.usage = u, !.given = g]
    OBVIOUS
  <2> HIDE DEF t, u, g
  <2>3. QED
    BY <1>2, <1>3, <2>1, <2>2, GivenRecord
<1>5. SumOf(g, Asker) = SumOf(s.given, Asker) + 1 /\ SumOf(s.given, Asker) \in Nat
  <2> DEFINE v == s.given
  <2>1. \A x \in Asker : v[x] \in Nat /\ g[x] \in Nat
    BY <1>1, <1>2
  <2>2. \A x \in Asker \ {c} : g[x] = v[x]
    BY <1>2
  <2>3. g[c] = v[c] + 1
    BY <1>2
  <2> HIDE DEF g, v
  <2>4. SumOf(g, Asker) = SumOf(v, Asker) - v[c] + g[c] /\ SumOf(v, Asker) \in Nat
    <3>1. SumOf(g, Asker) = SumOf(v, Asker) - v[c] + g[c]
      BY <2>1, <2>2, BucketBounds, SumOfOneChange
    <3>2. \A x \in Asker : v[x] \in Nat
      BY <2>1
    <3>3. SumOf(v, Asker) \in Nat
      BY <3>2, BucketBounds, SumUnfolds
    <3>4. QED
      BY <3>1, <3>3
  <2>5. v[c] \in Nat
    BY <2>1
  <2>6. SumOf(g, Asker) = SumOf(v, Asker) + 1
    BY <2>3, <2>4, <2>5
  <2>7. QED
    BY <2>4, <2>6 DEF v
<1>6. \A x \in Customer : u[x] = g[x]
  BY <1>1, <1>2, <1>3, BucketBounds
<1> HIDE DEF u, g, t
<1>7. SumOf(g, Asker) + (s.tokens - 1) <= MaxTokens /\ s.tokens - 1 \in Nat
  <2> DEFINE m == SumOf(s.given, Asker)
  <2>1. m \in Nat /\ m + s.tokens <= MaxTokens /\ SumOf(g, Asker) = m + 1
    BY <1>1, <1>5
  <2> HIDE DEF m
  <2>2. QED
    BY <1>1, <2>1, BucketBounds
<1>8. Balanced(t)
  BY <1>1, <1>2, <1>3, <1>4, <1>6, <1>7 DEF Balanced, Comprises
<1>9. Within(t, list)
  BY <1>4 DEF Within, Comprises
<1>10. QED
  BY <1>8, <1>9 DEF t

\* The line is put in the order of priority, and nobody is lost or doubled.
LEMMA UrgencySorts ==
  ASSUME NEW list \in Seq(Ticket), NoRepeats(list)
  PROVE  /\ ByUrgency(list) \in Seq(Ticket) /\ Len(ByUrgency(list)) = Len(list) /\ NoRepeats(ByUrgency(list))
         /\ \A i \in 1 .. Len(list) : \E j \in 1 .. Len(list) : ByUrgency(list)[i] = list[j]
<1> DEFINE n == Len(list)
           A == [i \in 1 .. n |-> {j \in 1 .. n : \/ Priority[list[j]] > Priority[list[i]]
                                                  \/ Priority[list[j]] = Priority[list[i]] /\ j < i}]
           r == ByUrgency(list)
<1>1. n \in Nat /\ DOMAIN list = 1 .. n /\ \A i \in 1 .. n : list[i] \in Ticket
  BY LenProperties
<1>2. \A i \in 1 .. n : Priority[list[i]] \in Nat
  BY <1>1, BucketAssumption
<1>3. A \in [1 .. n -> SUBSET (1 .. n)]
  OBVIOUS
<1>4. Ordered(n, A)
  <2> DEFINE p == [i \in 1 .. n |-> Priority[list[i]]]
  <2>1. \A i \in 1 .. n : p[i] \in Nat
    BY <1>2
  <2>2. \A i \in 1 .. n : \A j \in 1 .. n : j \in A[i] <=> p[j] > p[i] \/ (p[j] = p[i] /\ j < i)
    OBVIOUS
  <2> HIDE DEF A, p
  <2>3. \A i \in 1 .. n : i \notin A[i]
    BY <1>1, <2>1, <2>2
  <2>4. ASSUME NEW i \in 1 .. n, NEW j \in 1 .. n, NEW k \in 1 .. n, i \in A[j], j \in A[k] PROVE i \in A[k]
    BY <1>1, <2>1, <2>2, <2>4
  <2>5. ASSUME NEW i \in 1 .. n, NEW j \in 1 .. n, i # j PROVE i \in A[j] \/ j \in A[i]
    BY <1>1, <2>1, <2>2, <2>5
  <2>6. QED
    BY <2>3, <2>4, <2>5 DEF Ordered
<1>5. Ranked(list, r, A)
  <2> DEFINE Ahead(i) == {j \in DOMAIN list : \/ Priority[list[j]] > Priority[list[i]]
                                              \/ Priority[list[j]] = Priority[list[i]] /\ j < i}
  <2>1. r = [k \in DOMAIN list |-> list[CHOOSE i \in DOMAIN list : Cardinality(Ahead(i)) = k - 1]]
    BY DEF ByUrgency
  <2>2. \A i \in DOMAIN list : A[i] = Ahead(i)
    BY <1>1
  <2> HIDE DEF A, Ahead, r, n
  <2>3. DOMAIN r = DOMAIN list /\ r = [k \in DOMAIN r |-> r[k]]
    BY <2>1
  <2>4. ASSUME NEW k \in DOMAIN list, NEW i \in DOMAIN list, \A j \in DOMAIN list : Cardinality(A[j]) = k - 1 <=> j = i
        PROVE  r[k] = list[i]
    <3>1. \A j \in DOMAIN list : Cardinality(Ahead(j)) = k - 1 <=> j = i
      BY <2>2, <2>4
    <3>2. (CHOOSE j \in DOMAIN list : Cardinality(Ahead(j)) = k - 1) = i
      BY <3>1
    <3>3. QED
      BY <2>1, <3>2
  <2>5. QED
    BY <2>3, <2>4 DEF Ranked
<1> HIDE DEF A, r
<1>6. r \in Seq(Ticket) /\ Len(r) = n /\ \E Q \in [1 .. n -> 1 .. n] : Sorts(list, r, A, Q)
  BY <1>3, <1>4, <1>5, RanksSort
<1>7. PICK Q \in [1 .. n -> 1 .. n] : Sorts(list, r, A, Q)
  BY <1>6
<1>8. ASSUME NEW k \in 1 .. n, NEW l \in 1 .. n, r[k] = r[l] PROVE k = l
  <2>1. list[Q[k]] = list[Q[l]] /\ Q[k] \in 1 .. n /\ Q[l] \in 1 .. n
    BY <1>7, <1>8 DEF Sorts
  <2>2. Q[k] = Q[l]
    BY <2>1 DEF NoRepeats
  <2>3. QED
    BY <1>7, <2>2 DEF Sorts, Arranges
<1>9. \A i \in 1 .. n : \E j \in 1 .. n : r[i] = list[j]
  BY <1>7 DEF Sorts
<1>10. NoRepeats(r)
  BY <1>6, <1>8 DEF NoRepeats
<1>11. QED
  BY <1>6, <1>9, <1>10 DEF r

Books(b, a, l, u, g) ==
  /\ b \in Nat /\ a \in Nat /\ a <= WindowLen /\ l \in Seq(Ticket) /\ u \in [Customer -> Nat]
  /\ g \in [Asker -> Nat] /\ SumOf(g, Asker) + b <= MaxTokens /\ \A c \in Customer : u[c] = g[c]
LEMMA BooksBalance ==
  ASSUME NEW s
  PROVE  Balanced(s) => Books(s.tokens, s.age, s.line, s.usage, s.given)
BY DEF Balanced, BucketState, Books

TicketStates == {"new", "queued", "granted", "cancelled", "dropped"}
QueueOf(l, ts) ==
  /\ NoRepeats(l) /\ ts \in [Ticket -> TicketStates]
  /\ \A i \in 1 .. Len(l) : ts[l[i]] = "queued"
BucketInv ==
  /\ Books(bucket, windowAge, line, usage, granted) /\ QueueOf(line, tickets)
  /\ stored \in 0 .. MaxTokens /\ fair \in BOOLEAN /\ syncing \in BOOLEAN /\ outside \in 0 .. MaxOutside

LEMMA NowBalances ==
  ASSUME BucketInv
  PROVE  Balanced(Now) /\ Within(Now, line)
<1>1. Now.line = line
  BY DEF Now
<1>2. \A i \in 1 .. Len(line) : \E j \in 1 .. Len(line) : line[i] = line[j]
  OBVIOUS
<1>3. QED
  BY <1>1, <1>2 DEF BucketInv, Books, QueueOf, Now, Balanced, BucketState, Within

\* Whoever leaves the line is granted.
LEMMA BecomesBalanced ==
  ASSUME BucketInv, NEW s, Balanced(s), Within(s, line), Becomes(s)
  PROVE  Books(bucket', windowAge', line', usage', granted') /\ QueueOf(line', tickets')
<1>1. Books(bucket', windowAge', line', usage', granted')
  BY BooksBalance DEF Becomes
<1>2. line' = s.line /\ NoRepeats(line') /\ \A i \in 1 .. Len(s.line) : \E j \in 1 .. Len(line) : s.line[i] = line[j]
  BY DEF Becomes, Within
<1>3. tickets' = [t \in Ticket |-> IF t \in ToSet(line) \ ToSet(s.line) THEN "granted" ELSE tickets[t]]
  BY DEF Becomes
<1>4. tickets \in [Ticket -> TicketStates] /\ \A i \in 1 .. Len(line) : tickets[line[i]] = "queued"
  BY DEF BucketInv, QueueOf
<1>5. tickets' \in [Ticket -> TicketStates]
  BY <1>3, <1>4 DEF TicketStates
<1>6. ASSUME NEW i \in 1 .. Len(s.line) PROVE tickets'[s.line[i]] = "queued"
  <2>1. s.line \in Seq(Ticket)
    BY DEF Balanced, BucketState
  <2>2. s.line[i] \in Ticket /\ i \in DOMAIN s.line
    BY <2>1, LenProperties
  <2>3. s.line[i] \in ToSet(s.line)
    BY <2>2 DEF ToSet
  <2>4. tickets'[s.line[i]] = tickets[s.line[i]]
    BY <1>3, <2>2, <2>3
  <2>5. PICK j \in 1 .. Len(line) : s.line[i] = line[j]
    BY <1>2
  <2>6. QED
    BY <1>4, <2>4, <2>5
<1>7. \A i \in 1 .. Len(line') : tickets'[line'[i]] = "queued"
  BY <1>2, <1>6
<1>8. QED
  BY <1>1, <1>2, <1>5, <1>7 DEF QueueOf

LEMMA BucketStarts == BucketInit => BucketInv
<1> SUFFICES ASSUME BucketInit PROVE BucketInv
  OBVIOUS
<1>1. usage = NoneOf(Customer) /\ line = <<>> /\ granted = NoneOf(Asker) /\ bucket = MaxTokens /\ windowAge = 0
  BY DEF BucketInit
<1>2. Books(bucket, windowAge, line, usage, granted)
  BY <1>1, NoneIsUsed, BucketBounds DEF Books
<1>3. QueueOf(line, tickets)
  <2>1. tickets \in [Ticket -> TicketStates]
    BY DEF BucketInit, TicketStates
  <2>2. \A i \in 1 .. Len(line) : FALSE
    BY <1>1
  <2>3. QED
    BY <2>1, <2>2 DEF QueueOf, NoRepeats
<1>4. fair \in BOOLEAN /\ syncing \in BOOLEAN
  BY DEF BucketInit
<1>5. stored \in 0 .. MaxTokens /\ outside \in 0 .. MaxOutside
  BY BucketBounds DEF BucketInit
<1>6. QED
  BY <1>2, <1>3, <1>4, <1>5 DEF BucketInv

LEMMA TryAcquireKeeps ==
  ASSUME BucketInv, NEW c \in Asker, TryAcquire(c)
  PROVE  BucketInv'
<1> DEFINE s == RefillIfNeeded(Now)
           t == [s EXCEPT !.tokens = @ - 1, !.usage = OneMore(@, c), !.given = OneMore(@, c)]
<1>1. Balanced(Now) /\ Within(Now, line)
  BY NowBalances
<1>2. Balanced(s) /\ Within(s, line)
  BY <1>1, RefillServes DEF RefillIfNeeded
<1>3. UNCHANGED <<fair, syncing, outside>>
  BY DEF TryAcquire
<1>4. stored \in 0 .. MaxTokens /\ fair \in BOOLEAN /\ syncing \in BOOLEAN /\ outside \in 0 .. MaxOutside
  BY DEF BucketInv
<1>5. CASE Becomes(s) /\ UNCHANGED stored
  <2> HIDE DEF s
  <2>1. Books(bucket', windowAge', line', usage', granted') /\ QueueOf(line', tickets')
    BY <1>2, <1>5, BecomesBalanced
  <2>2. QED
    BY <1>3, <1>4, <1>5, <2>1 DEF BucketInv
<1>6. CASE s.tokens # 0 /\ Becomes(t) /\ stored' \in {stored, s.tokens - 1}
  <2>1. s.tokens \in Nat /\ s.tokens <= MaxTokens
    <3> HIDE DEF s
    <3>1. QED
      BY <1>2, BalancedFits
  <2>2. Balanced(t) /\ Within(t, line)
    <3> HIDE DEF s
    <3>1. QED
      BY <1>2, <1>6, OneIsGiven
  <2> HIDE DEF t, s
  <2>3. Books(bucket', windowAge', line', usage', granted') /\ QueueOf(line', tickets')
    BY <1>6, <2>2, BecomesBalanced
  <2>4. s.tokens - 1 \in 0 .. MaxTokens
    BY <1>6, <2>1, BucketBounds
  <2>5. stored' \in 0 .. MaxTokens
    BY <1>4, <1>6, <2>4
  <2>6. QED
    BY <1>3, <1>4, <2>3, <2>5 DEF BucketInv
<1>7. QED
  <2>1. \/ Becomes(s) /\ UNCHANGED stored
        \/ s.tokens # 0 /\ Becomes(t) /\ stored' \in {stored, s.tokens - 1}
    <3> DEFINE r == RefillIfNeeded(Now)
    <3>1. IF BeyondShare(r, c) \/ r.tokens = 0 THEN Becomes(r) /\ UNCHANGED stored
          ELSE Becomes([r EXCEPT !.tokens = @ - 1, !.usage = OneMore(@, c), !.given = OneMore(@, c)]) /\ stored' \in {stored, r.tokens - 1}
      BY DEF TryAcquire
    <3> HIDE DEF r
    <3>2. QED
      BY <3>1 DEF r
  <2>2. QED
    BY <1>5, <1>6, <2>1

LEMMA EnqueueKeeps ==
  ASSUME BucketInv, NEW t \in Ticket, Enqueue(t)
  PROVE  BucketInv'
<1> DEFINE list == Append(line, t)
           r == ByUrgency(list)
<1>0. /\ Books(bucket, windowAge, line, usage, granted) /\ NoRepeats(line) /\ tickets \in [Ticket -> TicketStates]
      /\ \A i \in 1 .. Len(line) : tickets[line[i]] = "queued"
      /\ line \in Seq(Ticket) /\ Len(line) \in Nat
  BY LenProperties DEF BucketInv, QueueOf, Books
<1>1. /\ tickets[t] = "new" /\ tickets' = [tickets EXCEPT ![t] = "queued"] /\ line' = r
      /\ UNCHANGED <<bucket, windowAge, usage, fair, stored, syncing, outside, granted>>
  BY DEF Enqueue
<1>2. /\ list \in Seq(Ticket) /\ Len(list) = Len(line) + 1
      /\ \A i \in 1 .. Len(line) : list[i] = line[i]
      /\ list[Len(line) + 1] = t
  BY <1>0, AppendProperties
<1> HIDE DEF list
<1>3. ASSUME NEW i \in 1 .. Len(list) PROVE (i \in 1 .. Len(line) /\ list[i] = line[i]) \/ (i = Len(line) + 1 /\ list[i] = t)
  BY <1>0, <1>2
<1>4. NoRepeats(list)
  <2>1. \A i \in 1 .. Len(line) : line[i] # t
    BY <1>0, <1>1
  <2>2. ASSUME NEW i \in 1 .. Len(list), NEW j \in 1 .. Len(list), list[i] = list[j] PROVE i = j
    BY <1>0, <1>3, <2>1, <2>2 DEF NoRepeats
  <2>3. QED
    BY <2>2 DEF NoRepeats
<1>5. /\ r \in Seq(Ticket) /\ Len(r) = Len(list) /\ NoRepeats(r)
      /\ \A i \in 1 .. Len(list) : \E j \in 1 .. Len(list) : r[i] = list[j]
  BY <1>2, <1>4, UrgencySorts
<1> HIDE DEF r
<1>6. tickets' \in [Ticket -> TicketStates]
  BY <1>0, <1>1 DEF TicketStates
<1>7. \A i \in 1 .. Len(list) : tickets'[list[i]] = "queued"
  <2>1. ASSUME NEW i \in 1 .. Len(list) PROVE tickets'[list[i]] = "queued"
    <3>1. list[i] \in Ticket
      BY <1>2, LenProperties
    <3>2. list[i] = t \/ tickets[list[i]] = "queued"
      BY <1>0, <1>3
    <3>3. QED
      BY <1>0, <1>1, <3>1, <3>2
  <2>2. QED
    BY <2>1
<1>8. \A i \in 1 .. Len(r) : tickets'[r[i]] = "queued"
  BY <1>5, <1>7
<1>9. QueueOf(line', tickets')
  BY <1>1, <1>5, <1>6, <1>8 DEF QueueOf
<1>10. Books(bucket', windowAge', line', usage', granted')
  BY <1>0, <1>1, <1>5 DEF Books
<1>11. QED
  BY <1>1, <1>9, <1>10 DEF BucketInv

LEMMA CancelKeeps ==
  ASSUME BucketInv, NEW t \in Ticket, CancelQueued(t)
  PROVE  BucketInv'
<1>0. /\ Books(bucket, windowAge, line, usage, granted) /\ NoRepeats(line) /\ tickets \in [Ticket -> TicketStates]
      /\ \A i \in 1 .. Len(line) : tickets[line[i]] = "queued"
      /\ line \in Seq(Ticket) /\ Len(line) \in Nat
      /\ outside \in 0 .. MaxOutside
  BY LenProperties DEF BucketInv, QueueOf, Books
<1>1. /\ tickets' = [tickets EXCEPT ![t] = "cancelled"] /\ line' = RemoveFirst(line, t)
      /\ outside < MaxOutside /\ outside' = outside + 1
      /\ UNCHANGED <<bucket, windowAge, usage, fair, stored, syncing, granted>>
  BY DEF CancelQueued, FromOutside
<1>2. outside' \in 0 .. MaxOutside
  BY <1>0, <1>1, BucketBounds
<1> DEFINE r == RemoveFirst(line, t)
           Places == {i \in 1 .. Len(line) : line[i] = t}
<1>3. r \in Seq(Ticket) /\ NoRepeats(r) /\ \A i \in 1 .. Len(r) : r[i] # t /\ \E j \in 1 .. Len(line) : r[i] = line[j]
  <2>1. CASE Places = {}
    <3>1. r = line
      BY <2>1 DEF RemoveFirst
    <3>2. QED
      BY <1>0, <2>1, <3>1
  <2>2. CASE Places # {}
    <3> DEFINE m == Min(Places)
    <3>1. r = RemoveAt(line, m)
      BY <2>2 DEF RemoveFirst, SelectInSeq
    <3>2. m \in Places
      BY <2>2, LeastIsMin
    <3> HIDE DEF m, r
    <3>3. r \in Seq(Ticket) /\ IsWithout(r, line, m)
      BY <1>0, <3>1, <3>2, OneIsTakenOut
    <3>4. /\ Len(r) = Len(line) - 1
          /\ \A j \in 1 .. Len(line) - 1 : Past(m, j) \in 1 .. Len(line) /\ Past(m, j) # m /\ r[j] = line[Past(m, j)]
      BY <3>3 DEF IsWithout
    <3>5. ASSUME NEW i \in 1 .. Len(r) PROVE i \in 1 .. Len(line) - 1 /\ i \in Nat
      BY <1>0, <3>4
    <3>6. ASSUME NEW i \in 1 .. Len(r) PROVE r[i] # t /\ \E j \in 1 .. Len(line) : r[i] = line[j]
      BY <3>2, <3>4, <3>5, <1>0 DEF NoRepeats
    <3>7. ASSUME NEW i \in 1 .. Len(r), NEW j \in 1 .. Len(r), r[i] = r[j] PROVE i = j
      <4>1. Past(m, i) = Past(m, j)
        BY <1>0, <3>4, <3>5, <3>7 DEF NoRepeats
      <4>2. m \in Nat
        BY <3>2
      <4>3. QED
        BY <3>5, <4>1, <4>2, PastIsMonotone
    <3>8. QED
      BY <3>3, <3>6, <3>7 DEF NoRepeats
  <2>3. QED
    BY <2>1, <2>2
<1> HIDE DEF r
<1>4. line' = r
  BY <1>1 DEF r
<1>5. tickets' \in [Ticket -> TicketStates]
  BY <1>0, <1>1 DEF TicketStates
<1>6. ASSUME NEW i \in 1 .. Len(r) PROVE tickets'[r[i]] = "queued"
  <2>1. r[i] \in Ticket /\ r[i] # t
    BY <1>3, LenProperties
  <2>2. tickets[r[i]] = "queued"
    BY <1>0, <1>3
  <2>3. QED
    BY <1>0, <1>1, <2>1, <2>2
<1>7. QueueOf(line', tickets')
  BY <1>3, <1>4, <1>5, <1>6 DEF QueueOf
<1>8. Books(bucket', windowAge', line', usage', granted')
  BY <1>0, <1>1, <1>3, <1>4 DEF Books
<1>9. QED
  BY <1>1, <1>2, <1>7, <1>8 DEF BucketInv

LEMMA BucketKeeps == BucketInv /\ [BucketNext]_bucketVars => BucketInv'
<1> SUFFICES ASSUME BucketInv, [BucketNext]_bucketVars PROVE BucketInv'
  OBVIOUS
<1>0. /\ Books(bucket, windowAge, line, usage, granted) /\ QueueOf(line, tickets)
      /\ stored \in 0 .. MaxTokens /\ fair \in BOOLEAN /\ syncing \in BOOLEAN /\ outside \in 0 .. MaxOutside
      /\ bucket \in Nat /\ SumOf(granted, Asker) + bucket <= MaxTokens /\ windowAge \in Nat /\ windowAge <= WindowLen
  BY DEF BucketInv, Books
<1>00. SumOf(granted, Asker) \in Nat
  <2>1. \A c \in Asker : granted[c] \in Nat
    BY <1>0 DEF Books
  <2>2. QED
    BY <2>1, BucketBounds, SumUnfolds
<1>0a. ASSUME FromOutside PROVE outside' \in 0 .. MaxOutside /\ fair' = fair
  BY <1>0, <1>0a, BucketBounds DEF FromOutside
<1>0b. Balanced(Now) /\ Within(Now, line)
  BY NowBalances
<1>0c. ASSUME NEW b \in Nat, b <= bucket, bucket' = b, UNCHANGED <<windowAge, line, usage, tickets, granted>>
       PROVE  Books(bucket', windowAge', line', usage', granted') /\ QueueOf(line', tickets')
  <2>1. SumOf(granted, Asker) + b <= MaxTokens
    <3> DEFINE m == SumOf(granted, Asker)
    <3>1. m \in Nat /\ m + bucket <= MaxTokens
      BY <1>0, <1>00
    <3> HIDE DEF m
    <3>2. m + b <= MaxTokens
      BY <1>0, <1>0c, <3>1, BucketBounds
    <3>3. QED
      BY <3>2 DEF m
  <2>2. QED
    BY <1>0, <1>0c, <2>1 DEF Books
<1>1. ASSUME NEW s, Balanced(s), Within(s, line), FromOutside, Becomes(s), UNCHANGED <<stored, syncing>> PROVE BucketInv'
  <2>1. Books(bucket', windowAge', line', usage', granted') /\ QueueOf(line', tickets')
    BY <1>1, BecomesBalanced
  <2>2. QED
    BY <1>0, <1>0a, <1>1, <2>1 DEF BucketInv
<1>2. CASE Refill
  <2> DEFINE s == Refilled(Now)
  <2>1. Balanced(s) /\ Within(s, line)
    BY <1>0b, RefillServes
  <2>2. FromOutside /\ Becomes(s) /\ UNCHANGED <<stored, syncing>>
    BY <1>2 DEF Refill
  <2> HIDE DEF s
  <2>3. QED
    BY <1>1, <2>1, <2>2
<1>3. CASE ProcessNow
  <2> DEFINE s == ProcessQueue(Now)
  <2>1. Balanced(s) /\ Within(s, line)
    BY <1>0b, QueueIsServed
  <2>2. FromOutside /\ Becomes(s) /\ UNCHANGED <<stored, syncing>>
    BY <1>3 DEF ProcessNow
  <2> HIDE DEF s
  <2>3. QED
    BY <1>1, <2>1, <2>2
<1>4. CASE SyncFromRedis
  <2>1. FromOutside /\ syncing' = TRUE /\ UNCHANGED <<bucket, windowAge, line, usage, tickets, stored, granted>>
    BY <1>4 DEF SyncFromRedis
  <2>2. syncing' \in BOOLEAN
    BY <2>1
  <2>3. QED
    BY <1>0, <1>0a, <2>1, <2>2 DEF BucketInv
<1>5. CASE Synced
  <2>1. /\ syncing' = FALSE /\ bucket' \in {bucket, Least(bucket, stored)}
        /\ UNCHANGED <<windowAge, line, usage, tickets, fair, stored, outside, granted>>
    BY <1>5 DEF Synced
  <2>2. bucket' \in Nat /\ bucket' <= bucket
    BY <1>0, <2>1 DEF Least
  <2> DEFINE b == bucket'
  <2>3. b \in Nat /\ b <= bucket /\ bucket' = b
    BY <2>2
  <2> HIDE DEF b
  <2>4. Books(bucket', windowAge', line', usage', granted') /\ QueueOf(line', tickets')
    BY <1>0c, <2>1, <2>3
  <2>5. syncing' \in BOOLEAN
    BY <2>1
  <2>6. QED
    BY <1>0, <2>1, <2>4, <2>5 DEF BucketInv
<1>6. CASE BucketReset
  <2>1. /\ FromOutside /\ bucket' = MaxTokens /\ windowAge' = 0 /\ line' = <<>> /\ usage' = NoneOf(Customer)
        /\ granted' = NoneOf(Asker)
        /\ tickets' = [t \in Ticket |-> IF tickets[t] = "queued" THEN "dropped" ELSE tickets[t]]
        /\ UNCHANGED <<stored, syncing>>
    BY <1>6 DEF BucketReset
  <2>2. Books(bucket', windowAge', line', usage', granted')
    <3>1. Books(MaxTokens, 0, <<>>, NoneOf(Customer), NoneOf(Asker))
      BY NoneIsUsed, BucketBounds DEF Books
    <3>2. QED
      BY <2>1, <3>1
  <2>3. QueueOf(line', tickets')
    <3>1. tickets' \in [Ticket -> TicketStates]
      BY <1>0, <2>1 DEF QueueOf, TicketStates
    <3>2. \A i \in 1 .. Len(line') : FALSE
      BY <2>1
    <3>3. QED
      BY <3>1, <3>2 DEF QueueOf, NoRepeats
  <2>4. QED
    BY <1>0, <1>0a, <2>1, <2>2, <2>3 DEF BucketInv
<1>7. CASE BucketTick
  <2>1. /\ windowAge' = (IF windowAge < WindowLen THEN windowAge + 1 ELSE windowAge)
        /\ UNCHANGED <<bucket, line, usage, tickets, fair, stored, syncing, outside, granted>>
    BY <1>7 DEF BucketTick
  <2>2. windowAge' \in Nat /\ windowAge' <= WindowLen
    BY <1>0, <2>1, BucketBounds
  <2>3. Books(bucket', windowAge', line', usage', granted')
    BY <1>0, <2>1, <2>2 DEF Books
  <2>4. QED
    BY <1>0, <2>1, <2>3 DEF BucketInv
<1>8. ASSUME NEW n \in 1 .. MaxTokens, ConsumeExternal(n) PROVE BucketInv'
  <2> DEFINE b == bucket - Least(n, bucket)
  <2>1. /\ FromOutside /\ bucket' = b
        /\ UNCHANGED <<windowAge, line, usage, tickets, stored, syncing, granted>>
    BY <1>8 DEF ConsumeExternal
  <2>2. b \in Nat /\ b <= bucket
    BY <1>0, BucketBounds DEF Least
  <2> HIDE DEF b
  <2>3. Books(bucket', windowAge', line', usage', granted') /\ QueueOf(line', tickets')
    BY <1>0c, <2>1, <2>2
  <2>4. QED
    BY <1>0, <1>0a, <2>1, <2>3 DEF BucketInv
<1>9. CASE UNCHANGED bucketVars
  BY <1>0, <1>9 DEF bucketVars, BucketInv
<1>10. QED
  BY <1>2, <1>3, <1>4, <1>5, <1>6, <1>7, <1>8, <1>9, TryAcquireKeeps, EnqueueKeeps, CancelKeeps DEF BucketNext

LEMMA BucketBudget == BucketInv => WindowBudget
BY DEF BucketInv, Books, WindowBudget, SumOf

LEMMA BucketTypes == BucketInv => BucketTypeOK
<1> SUFFICES ASSUME BucketInv PROVE BucketTypeOK
  OBVIOUS
<1>0. /\ bucket \in Nat /\ SumOf(granted, Asker) + bucket <= MaxTokens /\ windowAge \in Nat /\ windowAge <= WindowLen
      /\ line \in Seq(Ticket) /\ NoRepeats(line) /\ usage \in [Customer -> Nat] /\ granted \in [Asker -> Nat]
      /\ \A c \in Customer : usage[c] = granted[c]
      /\ tickets \in [Ticket -> TicketStates]
      /\ stored \in 0 .. MaxTokens /\ fair \in BOOLEAN /\ syncing \in BOOLEAN /\ outside \in 0 .. MaxOutside
  BY DEF BucketInv, Books, QueueOf
<1>00. SumOf(granted, Asker) \in Nat
  <2>1. \A c \in Asker : granted[c] \in Nat
    BY <1>0
  <2>2. QED
    BY <2>1, BucketBounds, SumUnfolds
<1>1. bucket \in 0 .. MaxTokens /\ windowAge \in 0 .. WindowLen /\ SumOf(granted, Asker) <= MaxTokens
  <2> DEFINE m == SumOf(granted, Asker)
  <2>1. m \in Nat /\ m + bucket <= MaxTokens
    BY <1>0, <1>00
  <2> HIDE DEF m
  <2>2. bucket \in 0 .. MaxTokens /\ windowAge \in 0 .. WindowLen /\ m <= MaxTokens
    BY <1>0, <2>1, BucketBounds
  <2>3. QED
    BY <2>2 DEF m
<1>2. line \in BoundedSeq(Ticket, Cardinality(Ticket))
  <2>1. Len(line) <= Cardinality(Ticket) /\ Cardinality(Ticket) \in Nat
    BY <1>0, BucketBounds, NoRepeatsFit, FS_CardinalityType
  <2>2. QED
    BY <1>0, <2>1, FitsIn
<1>3. granted \in [Asker -> 0 .. MaxTokens]
  <2>1. ASSUME NEW c \in Asker PROVE granted[c] \in 0 .. MaxTokens
    <3> DEFINE rest == SumOf(granted, Asker \ {c})
               all == SumOf(granted, Asker)
    <3>1. \A x \in Asker : granted[x] \in Nat
      BY <1>0
    <3>2. all = granted[c] + rest /\ rest \in Nat
      BY <3>1, BucketBounds, SumWithout
    <3>3. all <= MaxTokens /\ granted[c] \in Nat
      BY <1>1, <3>1
    <3> HIDE DEF rest, all
    <3>4. QED
      BY <3>2, <3>3, BucketBounds
  <2>2. QED
    BY <1>0, <2>1
<1>4. usage \in [Customer -> 0 .. MaxTokens]
  <2>1. \A c \in Customer : usage[c] \in 0 .. MaxTokens
    BY <1>0, <1>3, BucketBounds
  <2>2. QED
    BY <1>0, <2>1
<1>5. QED
  BY <1>0, <1>1, <1>2, <1>3, <1>4 DEF BucketTypeOK, TicketStates

BucketSpec == BucketInit /\ [][BucketNext]_bucketVars

(* In no window more tokens are given than there are, whoever asked, and an    *)
(* agent's account says what it was given, for any customers, tickets without  *)
(* or with an agent, and priorities (RateLimiter).                             *)
THEOREM BudgetIsKept == BucketSpec => []WindowBudget
<1>1. BucketSpec => []BucketInv
  BY BucketStarts, BucketKeeps, PTL DEF BucketSpec
<1>2. QED
  BY <1>1, BucketBudget, PTL

-----------------------------------------------------------------------------
(* The hub's RateLimiter.                                                      *)

LimiterSpec == LimiterInit /\ [][LimiterNext]_limiterVars

WindowRecord == [tokens : Nat, age : 0 .. WindowTicks + 1]
Asked == {r \in Inquirer : asks[r] # "new"}
LimiterTyped ==
  /\ tpm \in TokenLimits /\ asks \in [Inquirer -> {"new", "sent", "refused", "over"}]
  /\ window \in [Inquirer -> WindowRecord] /\ usageResets \in 0 .. MaxResets0
  /\ concurrent \in Nat /\ lowered \in Nat
\* A request counts once at most, and its tokens when it is over.
CountedOnce ==
  /\ concurrent <= Cardinality(Asked)
  /\ \A r \in Inquirer : asks[r] # "over" => window[r] = NotTracked
\* The tokens in the window, and the most that requests under way may still add.
Largest == Max(Spent)
TokensIn == [r \in Inquirer |-> IF window[r].age <= WindowTicks THEN window[r].tokens ELSE 0]
TokensToCome == [r \in Inquirer |-> IF asks[r] = "sent" THEN Largest ELSE 0]
Overrun == SumOf(TokensIn, Inquirer) + SumOf(TokensToCome, Inquirer) <= lowered + Concurrent * Largest
Bounded == usageResets = 0 => Overrun /\ Cardinality(Sent) <= concurrent
LimiterInv == LimiterTyped /\ CountedOnce /\ Bounded

LEMMA LargestSpent == Largest \in Nat /\ \A t \in Spent : t \in Nat /\ t <= Largest
<1> DEFINE id == [t \in Spent |-> t]
           b == SumOf(id, Spent)
<1>1. IsFiniteSet(Spent) /\ Spent # {} /\ \A t \in Spent : id[t] \in Nat /\ id[t] = t
  BY LimiterAssumption
<1> HIDE DEF id
<1>2. b \in Nat
  BY <1>1, SumUnfolds
<1>3. ASSUME NEW t \in Spent PROVE t <= b
  <2>1. b = id[t] + SumOf(id, Spent \ {t}) /\ SumOf(id, Spent \ {t}) \in Nat
    BY <1>1, SumWithout
  <2>2. QED
    BY <1>1, <2>1
<1>4. Spent \in SUBSET Nat /\ \A n \in Spent : n <= b
  BY <1>1, <1>3
<1> HIDE DEF b
<1>5. Max(Spent) \in Spent /\ \A n \in Spent : n <= Max(Spent)
  BY <1>1, <1>2, <1>4, GreatestIsMax
<1>6. QED
  BY <1>4, <1>5 DEF Largest

\* MapThenSumSet over a field of the window is the sum over its function.
LEMMA TokensAreSummed ==
  ASSUME LimiterTyped
  PROVE  TokensOf(InWindow) = SumOf(TokensIn, Inquirer)
<1> DEFINE T == InWindow
           W(i) == i = [s \in SUBSET T |-> IF s = {} THEN 0 ELSE window[One(s)].tokens + i[s \ {One(s)}]]
           it == CHOOSE i : W(i)
<1>1. IsFiniteSet(Inquirer) /\ T \in SUBSET Inquirer /\ IsFiniteSet(T)
  <2>1. IsFiniteSet(Inquirer) /\ T \in SUBSET Inquirer
    BY LimiterAssumption DEF InWindow
  <2>2. QED
    BY <2>1, FS_Subset
<1>2. \A r \in Inquirer : TokensIn[r] \in Nat
  BY DEF LimiterTyped, WindowRecord, TokensIn
<1>3. \A r \in T : TokensIn[r] = window[r].tokens /\ TokensIn[r] \in Nat
  BY <1>2 DEF InWindow, TokensIn
<1>4. PICK g \in [SUBSET T -> Nat] : SumsOver(TokensIn, T, g) /\ SumOf(TokensIn, T) = g[T]
  <2> HIDE DEF T
  <2> QED
    BY <1>1, <1>3, SumIsComputed
<1>5. \A s \in SUBSET T : s # {} => One(s) \in s
  BY DEF One
<1>6. \A i : W(i) <=> SumsOver(TokensIn, T, i)
  <2> TAKE i
  <2> HIDE DEF T
  <2>1. \A s \in SUBSET T : s # {} => window[One(s)].tokens + i[s \ {One(s)}] = TokensIn[One(s)] + i[s \ {One(s)}]
    BY <1>3, <1>5
  <2>2. QED
    BY <2>1 DEF SumsOver
<1>7. W(it)
  BY <1>4, <1>6
<1>8. TokensOf(T) = it[T]
  BY DEF TokensOf, MapThenSumSet, MapThenFoldSet, One
<1> HIDE DEF it
<1>9. SumsOver(TokensIn, T, it)
  BY <1>6, <1>7
<1> HIDE DEF T
<1>10. g[T] = it[T]
  BY <1>1, <1>4, <1>9, SumsAgree
<1>11. \A r \in Inquirer \ T : TokensIn[r] = 0
  BY DEF T, InWindow, TokensIn
<1>12. SumOf(TokensIn, Inquirer) = SumOf(TokensIn, T)
  BY <1>1, <1>2, <1>11, SumOfSupport
<1>13. QED
  BY <1>4, <1>8, <1>10, <1>12 DEF T

LEMMA LimiterSums ==
  ASSUME LimiterTyped
  PROVE  /\ IsFiniteSet(Inquirer) /\ SumOf(TokensIn, Inquirer) \in Nat /\ SumOf(TokensToCome, Inquirer) \in Nat
         /\ \A r \in Inquirer : TokensIn[r] \in Nat /\ TokensToCome[r] \in Nat
         /\ IsFiniteSet(Sent) /\ IsFiniteSet(Asked) /\ Cardinality(Sent) \in Nat /\ Cardinality(Asked) \in Nat
         /\ Concurrent \in Nat /\ Concurrent >= 1 /\ MaxResets0 \in Nat /\ WindowTicks \in Nat /\ WindowTicks >= 1
         /\ Largest \in Nat /\ Concurrent * Largest \in Nat
<1>1. IsFiniteSet(Inquirer) /\ \A r \in Inquirer : TokensIn[r] \in Nat /\ TokensToCome[r] \in Nat
  BY LimiterAssumption, LargestSpent DEF LimiterTyped, WindowRecord, TokensIn, TokensToCome
<1>2. Concurrent \in Nat /\ Concurrent >= 1 /\ MaxResets0 \in Nat /\ WindowTicks \in Nat /\ WindowTicks >= 1 /\ Largest \in Nat
  BY LimiterAssumption, LargestSpent
<1>3. Sent \in SUBSET Inquirer /\ Asked \in SUBSET Inquirer
  BY DEF Sent, Asked
<1>4. IsFiniteSet(Sent) /\ IsFiniteSet(Asked)
  BY <1>1, <1>3, FS_Subset
<1>5. Concurrent * Largest \in Nat
  <2>1. \A m \in Nat : \A n \in Nat : m * n \in Nat
    OBVIOUS
  <2>2. QED
    BY <1>2, <2>1
<1>6. QED
  BY <1>1, <1>2, <1>4, <1>5, FS_CardinalityType, SumUnfolds

\* Where k requests are under way their tokens are at most k times the most one can use.
LEMMA ToComeIsBounded ==
  ASSUME LimiterTyped
  PROVE  SumOf(TokensToCome, Inquirer) <= Cardinality(Sent) * Largest
<1>1. /\ IsFiniteSet(Inquirer) /\ IsFiniteSet(Sent) /\ Largest \in Nat /\ Sent \in SUBSET Inquirer
      /\ \A r \in Inquirer : TokensToCome[r] \in Nat
  BY LimiterSums DEF Sent
<1>2. \A r \in Inquirer \ Sent : TokensToCome[r] = 0
  BY DEF Sent, TokensToCome
<1>3. SumOf(TokensToCome, Inquirer) = SumOf(TokensToCome, Sent)
  BY <1>1, <1>2, SumOfSupport
<1>4. \A r \in Sent : TokensToCome[r] \in Nat /\ TokensToCome[r] <= Largest
  BY <1>1 DEF Sent, TokensToCome
<1>5. SumOf(TokensToCome, Sent) <= Cardinality(Sent) * Largest
  BY <1>1, <1>4, SumIsBounded
<1>6. QED
  BY <1>3, <1>5

LEMMA LimiterStarts == LimiterInit => LimiterInv
<1> SUFFICES ASSUME LimiterInit PROVE LimiterInv
  OBVIOUS
<1>1. LimiterTyped
  <2>1. NotTracked \in WindowRecord /\ 0 \in 0 .. MaxResets0
    BY LimiterAssumption DEF NotTracked, WindowRecord
  <2>2. QED
    BY <2>1 DEF LimiterInit, LimiterTyped
<1>2. \A r \in Inquirer : window[r] = NotTracked /\ asks[r] = "new"
  BY DEF LimiterInit
<1>3. Asked = {} /\ Sent = {} /\ concurrent = 0 /\ lowered = 0
  BY <1>2 DEF LimiterInit, Asked, Sent
<1>4. Cardinality(Asked) = 0 /\ Cardinality(Sent) = 0
  BY <1>3, FS_EmptySet
<1>5. CountedOnce
  BY <1>2, <1>3, <1>4 DEF CountedOnce
<1>6. SumOf(TokensIn, Inquirer) = 0 /\ SumOf(TokensToCome, Inquirer) = 0
  <2>1. \A r \in Inquirer : TokensIn[r] = 0 /\ TokensToCome[r] = 0
    BY <1>1, <1>2, LimiterSums DEF TokensIn, TokensToCome, NotTracked
  <2>2. IsFiniteSet(Inquirer) /\ {} \in SUBSET Inquirer
    BY LimiterAssumption
  <2>3. SumOf(TokensIn, Inquirer) = SumOf(TokensIn, {}) /\ SumOf(TokensToCome, Inquirer) = SumOf(TokensToCome, {})
    BY <2>1, <2>2, SumOfSupport
  <2>4. SumOf(TokensIn, {}) = 0 /\ SumOf(TokensToCome, {}) = 0
    <3>1. IsFiniteSet({})
      BY FS_EmptySet
    <3>2. (\A x \in {} : TokensIn[x] \in Nat) /\ (\A x \in {} : TokensToCome[x] \in Nat)
      OBVIOUS
    <3>3. QED
      BY <3>1, <3>2, SumUnfolds
  <2>5. QED
    BY <2>3, <2>4, Zenon
<1>7. Bounded
  BY <1>1, <1>3, <1>4, <1>6, LimiterSums DEF Bounded, Overrun
<1>8. QED
  BY <1>1, <1>5, <1>7 DEF LimiterInv

LEMMA LimiterKeeps == LimiterInv /\ [LimiterNext]_limiterVars => LimiterInv'
<1> SUFFICES ASSUME LimiterInv, [LimiterNext]_limiterVars PROVE LimiterInv'
  OBVIOUS
<1>0. LimiterTyped /\ CountedOnce /\ Bounded
  BY DEF LimiterInv
<1> DEFINE come == SumOf(TokensToCome, Inquirer)
           inFlight == SumOf(TokensIn, Inquirer)
           k == Concurrent * Largest
<1>0a. /\ IsFiniteSet(Inquirer) /\ inFlight \in Nat /\ come \in Nat
       /\ \A r \in Inquirer : TokensIn[r] \in Nat /\ TokensToCome[r] \in Nat
       /\ IsFiniteSet(Sent) /\ IsFiniteSet(Asked) /\ Cardinality(Sent) \in Nat /\ Cardinality(Asked) \in Nat
       /\ Concurrent \in Nat /\ Concurrent >= 1 /\ MaxResets0 \in Nat /\ WindowTicks \in Nat /\ WindowTicks >= 1
       /\ Largest \in Nat /\ k \in Nat /\ concurrent \in Nat /\ lowered \in Nat
  BY <1>0, LimiterSums DEF LimiterTyped
<1>0b. usageResets \in 0 .. MaxResets0 /\ NotTracked \in WindowRecord /\ TokenLimits \subseteq Nat
  BY <1>0, <1>0a, LimiterAssumption DEF LimiterTyped, NotTracked, WindowRecord
<1>1. ASSUME NEW limit \in TokenLimits, SetLimits(limit) \/ UNCHANGED limiterVars PROVE LimiterInv'
  <2>1. tpm' \in TokenLimits /\ UNCHANGED <<asks, window, concurrent, usageResets, lowered>>
    BY <1>0, <1>1 DEF SetLimits, limiterVars, LimiterTyped
  <2>2. LimiterTyped' /\ CountedOnce'
    BY <1>0, <2>1 DEF LimiterTyped, CountedOnce, Asked
  <2>3. Bounded'
    BY <1>0, <2>1 DEF Bounded, Overrun, TokensIn, TokensToCome, Sent
  <2>4. QED
    BY <2>2, <2>3 DEF LimiterInv
<1>2. ASSUME NEW r \in Inquirer, RequestStarted(r), ~Allowed(r) PROVE LimiterInv'
  <2>1. asks[r] = "new" /\ asks' = [asks EXCEPT ![r] = "refused"] /\ UNCHANGED <<concurrent, lowered, tpm, window, usageResets>>
    BY <1>2 DEF RequestStarted
  <2>2. LimiterTyped'
    BY <1>0, <2>1 DEF LimiterTyped
  <2>3. Asked' = Asked \cup {r} /\ r \notin Asked /\ Sent' = Sent
    BY <1>0, <2>1 DEF Asked, Sent, LimiterTyped
  <2>4. Cardinality(Asked \cup {r}) = Cardinality(Asked) + 1
    BY <1>0a, <2>3, FS_AddElement
  <2>5. CountedOnce'
    <3>1. concurrent' <= Cardinality(Asked')
      BY <1>0, <1>0a, <2>1, <2>3, <2>4 DEF CountedOnce
    <3>2. QED
      BY <1>0, <2>1, <3>1 DEF CountedOnce, LimiterTyped
  <2>6. TokensToCome' = TokensToCome /\ TokensIn' = TokensIn
    BY <1>0, <2>1 DEF TokensToCome, TokensIn, LimiterTyped
  <2>7. Bounded'
    BY <1>0, <2>1, <2>3, <2>6 DEF Bounded, Overrun
  <2>8. QED
    BY <2>2, <2>5, <2>7 DEF LimiterInv
<1>3. ASSUME NEW r \in Inquirer, RequestStarted(r), Allowed(r) PROVE LimiterInv'
  <2>1. /\ asks[r] = "new" /\ asks' = [asks EXCEPT ![r] = "sent"] /\ concurrent' = concurrent + 1
        /\ lowered' = IF Sent \cup InWindow = {} \/ tpm > lowered THEN tpm ELSE lowered
        /\ UNCHANGED <<tpm, window, usageResets>>
    BY <1>3 DEF RequestStarted
  <2>2. concurrent < Concurrent /\ inFlight + Estimate[r] <= tpm
    BY <1>0, <1>0a, <1>3, TokensAreSummed DEF Allowed, Busy
  <2>3. tpm \in Nat /\ lowered' \in Nat /\ lowered' >= tpm
    BY <1>0, <1>0a, <1>0b, <2>1 DEF LimiterTyped
  <2>4. LimiterTyped'
    BY <1>0, <1>0a, <2>1, <2>3 DEF LimiterTyped
  <2>5. Asked' = Asked \cup {r} /\ r \notin Asked /\ Sent' = Sent \cup {r} /\ r \notin Sent
    BY <1>0, <2>1 DEF Asked, Sent, LimiterTyped
  <2>6. Cardinality(Asked \cup {r}) = Cardinality(Asked) + 1 /\ Cardinality(Sent \cup {r}) = Cardinality(Sent) + 1
    BY <1>0a, <2>5, FS_AddElement
  <2>7. CountedOnce'
    <3>1. concurrent' <= Cardinality(Asked')
      BY <1>0, <1>0a, <2>1, <2>5, <2>6 DEF CountedOnce
    <3>2. QED
      BY <1>0, <2>1, <3>1 DEF CountedOnce, LimiterTyped
  <2>8. TokensIn' = TokensIn
    BY <2>1 DEF TokensIn
  <2>9. SumOf(TokensToCome', Inquirer) = come + Largest
    <3> DEFINE v == TokensToCome'
    <3>1. /\ \A x \in Inquirer : v[x] \in Nat /\ (x # r => v[x] = TokensToCome[x])
          /\ v[r] = Largest /\ TokensToCome[r] = 0
      BY <1>0, <1>0a, <2>1 DEF TokensToCome, LimiterTyped
    <3> HIDE DEF v
    <3>2. SumOf(v, Inquirer) = SumOf(TokensToCome, Inquirer) - TokensToCome[r] + v[r]
      BY <1>0a, <3>1, SumOfOneChange
    <3>3. QED
      BY <1>0a, <3>1, <3>2 DEF v
  <2>10. ASSUME usageResets = 0 PROVE Overrun' /\ Cardinality(Sent') <= concurrent'
    <3>1. Cardinality(Sent) <= concurrent
      BY <1>0, <2>10 DEF Bounded
    <3>2. come <= Cardinality(Sent) * Largest
      BY <1>0, ToComeIsBounded
    <3>3. Cardinality(Sent) + 1 <= Concurrent
      BY <1>0a, <2>2, <3>1
    <3>4. (Cardinality(Sent) + 1) * Largest <= k
      <4>1. \A a \in Nat : \A b \in Nat : \A c \in Nat : a <= b => a * c <= b * c
        OBVIOUS
      <4>2. Cardinality(Sent) + 1 \in Nat
        BY <1>0a
      <4>3. QED
        BY <1>0a, <3>3, <4>1, <4>2
    <3>5. come + Largest <= k
      <4>1. \A a \in Nat : \A c \in Nat : (a + 1) * c = a * c + c /\ a * c \in Nat
        OBVIOUS
      <4>2. (Cardinality(Sent) + 1) * Largest = Cardinality(Sent) * Largest + Largest /\ Cardinality(Sent) * Largest \in Nat
        BY <1>0a, <4>1
      <4> DEFINE m == Cardinality(Sent) * Largest
      <4>3. m + Largest <= k /\ come <= m /\ m \in Nat
        BY <3>2, <3>4, <4>2
      <4> HIDE DEF come, k, m
      <4>4. QED
        BY <1>0a, <4>3
    <3>6. inFlight + (come + Largest) <= lowered' + k
      <4>1. Estimate[r] \in Nat
        BY LimiterAssumption
      <4> HIDE DEF inFlight, come, k
      <4>2. QED
        BY <1>0a, <2>2, <2>3, <3>5, <4>1
    <3>7. Overrun'
      <4>1. SumOf(TokensIn', Inquirer) = inFlight
        BY <2>8
      <4>2. QED
        BY <2>9, <3>6, <4>1 DEF Overrun, Largest
    <3>8. Cardinality(Sent') <= concurrent'
      BY <1>0a, <2>1, <2>5, <2>6, <3>1
    <3>9. QED
      BY <3>7, <3>8
  <2>11. Bounded'
    BY <2>1, <2>10 DEF Bounded
  <2>12. QED
    BY <2>4, <2>7, <2>11 DEF LimiterInv
<1>4. ASSUME NEW r \in Inquirer, RequestCompleted(r) PROVE LimiterInv'
  <2>1. /\ asks[r] = "sent" /\ asks' = [asks EXCEPT ![r] = "over"] /\ UNCHANGED <<tpm, usageResets, lowered>>
    BY <1>4 DEF RequestCompleted
  <2>2. PICK tokens \in Spent \cup {0} :
       \/ window' = [window EXCEPT ![r] = [tokens |-> tokens, age |-> 0]] /\ concurrent' = concurrent
       \/ tokens = 0 /\ concurrent' = (IF concurrent = 0 THEN 0 ELSE concurrent - 1) /\ UNCHANGED window
    BY <1>4 DEF RequestCompleted
  <2>3. tokens \in Nat /\ tokens <= Largest /\ [tokens |-> tokens, age |-> 0] \in WindowRecord
    BY <1>0a, LargestSpent DEF WindowRecord
  <2>4. concurrent' \in Nat /\ concurrent' <= concurrent /\ (concurrent' = concurrent \/ concurrent = 0 \/ concurrent' = concurrent - 1)
    BY <1>0a, <2>2
  <2>5. window' \in [Inquirer -> WindowRecord] /\ \A x \in Inquirer : x # r => window'[x] = window[x]
    BY <1>0, <2>2, <2>3 DEF LimiterTyped
  <2>6. LimiterTyped'
    BY <1>0, <2>1, <2>4, <2>5 DEF LimiterTyped
  <2>7. Asked' = Asked /\ Sent' = Sent \ {r} /\ r \in Sent
    BY <1>0, <2>1 DEF Asked, Sent, LimiterTyped
  <2>8. Cardinality(Sent \ {r}) = Cardinality(Sent) - 1
    BY <1>0a, <2>7, FS_RemoveElement
  <2>9. CountedOnce'
    <3>1. concurrent' <= Cardinality(Asked')
      BY <1>0, <1>0a, <2>4, <2>7 DEF CountedOnce
    <3>2. \A x \in Inquirer : asks'[x] # "over" => window'[x] = NotTracked
      BY <1>0, <2>1, <2>5 DEF CountedOnce, LimiterTyped
    <3>3. QED
      BY <3>1, <3>2 DEF CountedOnce
  <2>10. window[r] = NotTracked
    BY <1>0, <2>1 DEF CountedOnce
  <2>11. SumOf(TokensToCome', Inquirer) = come - Largest
    <3> DEFINE v == TokensToCome'
    <3>1. /\ \A x \in Inquirer : v[x] \in Nat /\ (x # r => v[x] = TokensToCome[x])
          /\ v[r] = 0 /\ TokensToCome[r] = Largest
      BY <1>0, <1>0a, <2>1 DEF TokensToCome, LimiterTyped
    <3> HIDE DEF v
    <3>2. SumOf(v, Inquirer) = SumOf(TokensToCome, Inquirer) - TokensToCome[r] + v[r]
      BY <1>0a, <3>1, SumOfOneChange
    <3>3. QED
      BY <1>0a, <2>3, <3>1, <3>2 DEF v
  <2>12. SumOf(TokensIn', Inquirer) = inFlight + tokens
    <3> DEFINE v == TokensIn'
    <3>1. TokensIn[r] = 0
      BY <1>0a, <2>10 DEF TokensIn, NotTracked
    <3>2. v[r] = tokens
      BY <1>0, <1>0a, <2>2, <2>10 DEF TokensIn, NotTracked, LimiterTyped
    <3>3. \A x \in Inquirer : x # r => v[x] = TokensIn[x]
      BY <2>5 DEF TokensIn
    <3> HIDE DEF v
    <3>4. \A x \in Inquirer : v[x] \in Nat
      BY <1>0a, <2>3, <3>2, <3>3
    <3>5. SumOf(v, Inquirer) = SumOf(TokensIn, Inquirer) - TokensIn[r] + v[r]
      BY <1>0a, <3>3, <3>4, SumOfOneChange
    <3>6. QED
      BY <1>0a, <2>3, <3>1, <3>2, <3>5 DEF v
  <2>13. ASSUME usageResets = 0 PROVE Overrun' /\ Cardinality(Sent') <= concurrent'
    <3>1. Overrun /\ Cardinality(Sent) <= concurrent
      BY <1>0, <2>13 DEF Bounded
    <3>2. inFlight + come <= lowered + k
      BY <3>1 DEF Overrun
    <3>3. (inFlight + tokens) + (come - Largest) <= lowered + k
      <4> HIDE DEF inFlight, come, k
      <4>1. QED
        BY <1>0a, <2>3, <3>2
    <3>4. lowered' = lowered
      BY <2>1
    <3>5. Overrun'
      BY <2>11, <2>12, <3>3, <3>4 DEF Overrun, Largest
    <3>6. Cardinality(Sent') <= concurrent'
      BY <1>0a, <2>4, <2>7, <2>8, <3>1
    <3>7. QED
      BY <3>5, <3>6
  <2>14. Bounded'
    BY <2>1, <2>13 DEF Bounded
  <2>15. QED
    BY <2>6, <2>9, <2>14 DEF LimiterInv
<1>5. CASE ResetUsage \/ CompletedAgain
  <2>1. usageResets < MaxResets0 /\ usageResets' = usageResets + 1 /\ UNCHANGED <<tpm, asks, lowered>>
    BY <1>5 DEF ResetUsage, CompletedAgain
  <2>2. concurrent' \in Nat /\ concurrent' <= concurrent
    BY <1>0a, <1>5 DEF ResetUsage, CompletedAgain
  <2>3. \A x \in Inquirer : window'[x] \in {window[x], NotTracked}
    BY <1>0, <1>5 DEF ResetUsage, CompletedAgain, LimiterTyped
  <2>4. window' \in [Inquirer -> WindowRecord]
    BY <1>0, <1>0b, <1>5 DEF ResetUsage, CompletedAgain, LimiterTyped
  <2>5. usageResets' \in 0 .. MaxResets0 /\ usageResets' # 0
    BY <1>0a, <1>0b, <2>1
  <2>6. LimiterTyped'
    BY <1>0, <2>1, <2>2, <2>4, <2>5 DEF LimiterTyped
  <2>7. Asked' = Asked
    BY <2>1 DEF Asked
  <2>8. concurrent' <= Cardinality(Asked)
    BY <1>0, <1>0a, <2>2 DEF CountedOnce
  <2>9. CountedOnce'
    BY <1>0, <2>1, <2>3, <2>7, <2>8 DEF CountedOnce, NotTracked
  <2>10. Bounded'
    BY <2>5 DEF Bounded
  <2>11. QED
    BY <2>6, <2>9, <2>10 DEF LimiterInv
<1>6. CASE LimiterTick
  <2>1. /\ window' = [r \in Inquirer |-> IF window[r].age < WindowTicks THEN [window[r] EXCEPT !.age = window[r].age + 1] ELSE NotTracked]
        /\ UNCHANGED <<tpm, asks, concurrent, usageResets, lowered>>
    BY <1>6 DEF LimiterTick
  <2>2. ASSUME NEW r \in Inquirer
        PROVE  /\ window'[r] \in WindowRecord /\ (window[r] = NotTracked => window'[r] = NotTracked)
               /\ TokensIn'[r] \in Nat /\ TokensIn'[r] <= TokensIn[r]
    <3> DEFINE w == window[r]
               a == window[r].age
    <3>1. w \in WindowRecord /\ a \in Nat /\ a <= WindowTicks + 1 /\ w.tokens \in Nat
      BY <1>0, <1>0a DEF LimiterTyped, WindowRecord
    <3>2. CASE a < WindowTicks
      <4>1. window'[r] = [w EXCEPT !.age = a + 1]
        BY <2>1, <3>2
      <4>2. a + 1 \in 0 .. WindowTicks + 1 /\ a + 1 <= WindowTicks /\ a <= WindowTicks
        BY <1>0a, <3>1, <3>2
      <4> HIDE DEF w
      <4>3. window'[r] \in WindowRecord /\ window'[r].age = a + 1 /\ window'[r].tokens = w.tokens
        BY <3>1, <4>1, <4>2 DEF WindowRecord
      <4>4. TokensIn'[r] = w.tokens /\ TokensIn[r] = w.tokens
        BY <4>2, <4>3 DEF TokensIn, w
      <4>5. w # NotTracked
        BY <1>0a, <4>2 DEF NotTracked, w
      <4>6. QED
        BY <3>1, <4>3, <4>4, <4>5 DEF w
    <3>3. CASE ~(a < WindowTicks)
      <4>1. window'[r] = NotTracked
        BY <2>1, <3>3
      <4>2. TokensIn'[r] = 0
        BY <4>1 DEF TokensIn, NotTracked
      <4>3. QED
        BY <1>0a, <1>0b, <4>1, <4>2
    <3>4. QED
      BY <3>2, <3>3
  <2>3. window' \in [Inquirer -> WindowRecord]
    BY <2>1, <2>2
  <2>4. LimiterTyped'
    BY <1>0, <2>1, <2>3 DEF LimiterTyped
  <2>5. CountedOnce'
    BY <1>0, <2>1, <2>2 DEF CountedOnce, Asked
  <2>6. SumOf(TokensIn', Inquirer) <= inFlight /\ SumOf(TokensIn', Inquirer) \in Nat
    <3> DEFINE v == TokensIn'
    <3>1. \A x \in Inquirer : v[x] \in Nat /\ v[x] <= TokensIn[x]
      BY <2>2
    <3> HIDE DEF v
    <3>2. SumOf(v, Inquirer) <= SumOf(TokensIn, Inquirer) /\ SumOf(v, Inquirer) \in Nat
      BY <1>0a, <3>1, SumGrows, SumUnfolds
    <3>3. QED
      BY <3>2 DEF v
  <2>7. SumOf(TokensToCome', Inquirer) = come
    BY <2>1 DEF TokensToCome
  <2>8. Bounded'
    <3>1. SUFFICES ASSUME usageResets = 0 PROVE Overrun' /\ Cardinality(Sent') <= concurrent'
      BY <2>1 DEF Bounded
    <3>2. Overrun /\ Cardinality(Sent) <= concurrent
      BY <1>0, <3>1 DEF Bounded
    <3>3. inFlight + come <= lowered + k
      BY <3>2 DEF Overrun
    <3>4. SumOf(TokensIn', Inquirer) + come <= lowered + k
      <4> HIDE DEF inFlight, come, k
      <4> QED
        BY <1>0a, <2>6, <3>3
    <3>5. Overrun'
      BY <2>1, <2>7, <3>4 DEF Overrun, Largest
    <3>6. QED
      BY <2>1, <3>2, <3>5 DEF Sent
  <2>9. QED
    BY <2>4, <2>5, <2>8 DEF LimiterInv
<1>7. ASSUME NEW r \in Inquirer, RequestStarted(r) \/ RequestCompleted(r) PROVE LimiterInv'
  BY <1>2, <1>3, <1>4, <1>7
<1>8. ASSUME UNCHANGED limiterVars PROVE LimiterInv'
  BY <1>0, <1>1, <1>8 DEF LimiterTyped
<1>9. QED
  BY <1>1, <1>5, <1>6, <1>7, <1>8 DEF LimiterNext

LEMMA LimiterTypes == LimiterInv => LimiterTypeOK
<1> SUFFICES ASSUME LimiterInv PROVE LimiterTypeOK
  OBVIOUS
<1>1. LimiterTyped /\ CountedOnce /\ IsFiniteSet(Inquirer) /\ Asked \in SUBSET Inquirer
  BY LimiterAssumption DEF LimiterInv, Asked
<1>2. Cardinality(Asked) <= Cardinality(Inquirer) /\ Cardinality(Asked) \in Nat /\ Cardinality(Inquirer) \in Nat
  BY <1>1, FS_Subset, FS_CardinalityType
<1>3. concurrent \in 0 .. Cardinality(Inquirer)
  BY <1>1, <1>2 DEF CountedOnce, LimiterTyped
<1>4. QED
  BY <1>1, <1>3 DEF LimiterTyped, LimiterTypeOK, WindowRecord

LEMMA LimiterBounds == LimiterInv => OverrunIsBounded /\ NeverUndercounts
<1> SUFFICES ASSUME LimiterInv, usageResets = 0
             PROVE  /\ TokensOf(InWindow) <= lowered + Concurrent * Max(Spent)
                    /\ Cardinality(Sent) <= concurrent
  BY DEF OverrunIsBounded, NeverUndercounts
<1>1. LimiterTyped /\ Overrun /\ Cardinality(Sent) <= concurrent /\ lowered \in Nat
  BY DEF LimiterInv, Bounded, LimiterTyped
<1> DEFINE come == SumOf(TokensToCome, Inquirer)
           inFlight == SumOf(TokensIn, Inquirer)
           k == Concurrent * Largest
<1>2. inFlight + come <= lowered + k
  BY <1>1 DEF Overrun
<1>3. inFlight \in Nat /\ come \in Nat /\ k \in Nat
  BY <1>1, LimiterSums
<1>4. TokensOf(InWindow) = inFlight
  BY <1>1, TokensAreSummed
<1>5. inFlight <= lowered + k
  <2> HIDE DEF inFlight, come, k
  <2> QED
    BY <1>1, <1>2, <1>3
<1>6. QED
  BY <1>1, <1>4, <1>5 DEF Largest

(* The tokens counted in a window exceed the highest limit in force meanwhile  *)
(* by at most what as many requests as may run at once can use, and the count  *)
(* never falls below the requests under way, unless the usage was reset; for   *)
(* any requests, estimates, usage and limits (hub RateLimiter).                *)
THEOREM LimiterIsBounded == LimiterSpec => [](OverrunIsBounded /\ NeverUndercounts)
BY LimiterBounds, LimiterStarts, LimiterKeeps, PTL DEF LimiterSpec

-----------------------------------------------------------------------------
(* ScheduledWorkflowRunner.                                                    *)

ScheduleSpec == ScheduleInit /\ [][ScheduleNext]_scheduleVars

TickRecord == [of : Workflow, type : {"interval", "once"}]
ScheduleTyped ==
  /\ defined \in [Workflow -> Schedule \cup {No}] /\ handles \in [Workflow -> Handle \cup {NoHandle}]
  /\ ticking \in [Handle -> TickRecord \cup {Idle}]
  /\ scheduling \in BOOLEAN /\ halted \subseteq Workflow /\ astray \subseteq Handle
  /\ underWay \in [Workflow -> 0 .. MaxRuns] /\ recorded \in [Workflow -> 0 .. MaxHistory]
\* A timer that has not gone astray is the one in the map of a registered workflow.
InTheMap(h) ==
  scheduling /\ ticking[h].of \notin halted /\ ticking[h].of \in Known /\ handles[ticking[h].of] = h
TimersAreMapped == \A h \in Ticking : h \in astray \/ InTheMap(h)

ScheduleInv == ScheduleTyped /\ TimersAreMapped

LEMMA ScheduleStarts == ScheduleInit => ScheduleInv
<1> SUFFICES ASSUME ScheduleInit PROVE ScheduleInv
  OBVIOUS
<1>0. 0 \in 0 .. MaxRuns /\ 0 \in 0 .. MaxHistory
  BY SchedulerAssumption
<1>1. ScheduleTyped
  <2>1. underWay \in [Workflow -> 0 .. MaxRuns] /\ recorded \in [Workflow -> 0 .. MaxHistory]
    BY <1>0 DEF ScheduleInit
  <2>2. scheduling \in BOOLEAN
    BY DEF ScheduleInit
  <2>3. QED
    BY <2>1, <2>2 DEF ScheduleInit, ScheduleTyped
<1>2. Ticking = {}
  BY DEF ScheduleInit, Ticking
<1>3. QED
  BY <1>1, <1>2 DEF ScheduleInv, TimersAreMapped

\* Timers for workflows: one for each, and no two share one.
LEMMA OneTimerEach ==
  ASSUME NEW ws, ws \subseteq Workflow, NEW hs \in kSubset(Cardinality(ws), FreeHandle)
  PROVE  LET of == CHOOSE f \in [ws -> hs] : \A h \in hs : \E w \in ws : f[w] = h IN
         of \in [ws -> hs] /\ \A v \in ws : \A w \in ws : of[v] = of[w] => v = w
<1> DEFINE of == CHOOSE f \in [ws -> hs] : \A h \in hs : \E w \in ws : f[w] = h
<1>1. IsFiniteSet(ws) /\ Cardinality(hs) = Cardinality(ws) /\ hs \subseteq FreeHandle /\ IsFiniteSet(hs)
  <2>1. IsFiniteSet(ws)
    BY SchedulerAssumption, FS_Subset
  <2>2. Cardinality(hs) = Cardinality(ws) /\ hs \subseteq FreeHandle
    BY DEF kSubset
  <2>3. hs \subseteq Handle
    BY <2>2 DEF FreeHandle
  <2>4. IsFiniteSet(hs)
    BY <2>3, SchedulerAssumption, FS_Subset
  <2>5. QED
    BY <2>1, <2>2, <2>4
<1>2. ExistsBijection(ws, hs)
  BY <1>1, FS_SameCardinalityBij
<1>3. PICK g \in [ws -> hs] : \A h \in hs : \E w \in ws : g[w] = h
  <2>1. PICK g : g \in Bijection(ws, hs)
    BY <1>2 DEF ExistsBijection
  <2>2. QED
    BY <2>1 DEF Bijection, Surjection
<1>4. of \in [ws -> hs] /\ \A h \in hs : \E w \in ws : of[w] = h
  BY <1>3
<1> HIDE DEF of
<1>5. of \in Surjection(ws, hs)
  BY <1>4 DEF Surjection
<1>6. of \in Injection(ws, hs)
  BY <1>1, <1>5, FS_SurjSameCardinalityImpliesInj
<1>7. QED
  BY <1>4, <1>6 DEF of, Injection, IsInjective

\* A timer that ticks next has gone astray, or was in the map and still is, or was set for one of ws.
InPlace(h, ws) ==
  \/ h \in astray'
  \/ h \in Ticking /\ h \notin astray /\ ticking'[h] = ticking[h] /\ handles'[ticking[h].of] = h
  \/ ticking'[h].of \in ws \ halted /\ handles'[ticking'[h].of] = h
TimersTyped == handles' \in [Workflow -> Handle \cup {NoHandle}] /\ ticking' \in [Handle -> TickRecord \cup {Idle}]
TimersSet(ws) ==
  TimersTyped /\ astray' \subseteq Handle /\ \A h \in Handle : ticking'[h] # Idle => InPlace(h, ws)
\* A timer that ticks still ticked before, and was astray or in the map of a workflow not in ws.
Stayed(h, ws) ==
  /\ h \in Ticking /\ ticking'[h] = ticking[h]
  /\ h \in astray \/ (ticking[h].of \notin ws /\ handles'[ticking[h].of] = h)
TimersCleared(ws) ==
  TimersTyped /\ astray' = astray /\ \A h \in Handle : ticking'[h] # Idle => Stayed(h, ws)

\* What ScheduleWorkflows leaves.
LEMMA SetTimers ==
  ASSUME ScheduleInv, NEW ws, ws \subseteq Workflow, NEW definition, ScheduleWorkflows(ws, definition),
         \A w \in ws : definition[w].type \in {"interval", "once"}
  PROVE  TimersSet(ws)
<1>1. PICK hs \in kSubset(Cardinality(ws), FreeHandle) :
    LET of == CHOOSE f \in [ws -> hs] : \A h \in hs : \E w \in ws : f[w] = h IN
    /\ handles' = [w \in Workflow |-> IF w \in ws THEN of[w] ELSE handles[w]]
    /\ ticking' = [h \in Handle |-> IF \E w \in ws : of[w] = h
                     THEN LET w == CHOOSE w \in ws : of[w] = h IN [of |-> w, type |-> definition[w].type]
                     ELSE ticking[h]]
    /\ astray' = astray \cup ({handles[w] : w \in ws} \cap Ticking) \cup {of[w] : w \in ws \cap halted}
  BY DEF ScheduleWorkflows
<1> DEFINE of == CHOOSE f \in [ws -> hs] : \A h \in hs : \E w \in ws : f[w] = h
<1>2. of \in [ws -> hs] /\ \A v \in ws : \A w \in ws : of[v] = of[w] => v = w
  BY OneTimerEach
<1>3. hs \subseteq Handle /\ \A h \in hs : ticking[h] = Idle /\ h \notin astray
  BY DEF kSubset, FreeHandle
<1>4. /\ handles' = [w \in Workflow |-> IF w \in ws THEN of[w] ELSE handles[w]]
      /\ ticking' = [h \in Handle |-> IF \E w \in ws : of[w] = h
                     THEN LET w == CHOOSE w \in ws : of[w] = h IN [of |-> w, type |-> definition[w].type]
                     ELSE ticking[h]]
      /\ astray' = astray \cup ({handles[w] : w \in ws} \cap Ticking) \cup {of[w] : w \in ws \cap halted}
  BY <1>1
<1> HIDE DEF of
<1>5. ScheduleTyped /\ TimersAreMapped
  BY DEF ScheduleInv
<1>6. handles' \in [Workflow -> Handle \cup {NoHandle}]
  BY <1>2, <1>3, <1>4, <1>5 DEF ScheduleTyped
<1>7. astray' \subseteq Handle
  BY <1>2, <1>3, <1>4, <1>5 DEF ScheduleTyped, Ticking
<1>8. ASSUME NEW w \in ws PROVE of[w] \in Handle /\ ticking'[of[w]] = [of |-> w, type |-> definition[w].type]
  <2>1. of[w] \in Handle /\ \E v \in ws : of[v] = of[w]
    BY <1>2, <1>3
  <2>2. w = CHOOSE v \in ws : of[v] = of[w]
    BY <1>2
  <2>3. QED
    BY <1>4, <2>1, <2>2
<1>9. ASSUME NEW h \in Handle, \A w \in ws : of[w] # h PROVE ticking'[h] = ticking[h]
  BY <1>4, <1>9
<1>10. ASSUME NEW h \in Handle PROVE ticking'[h] \in TickRecord \cup {Idle}
  <2>1. CASE \E w \in ws : of[w] = h
    <3>1. PICK w \in ws : of[w] = h
      BY <2>1
    <3>2. ticking'[h] = [of |-> w, type |-> definition[w].type] /\ definition[w].type \in {"interval", "once"} /\ w \in Workflow
      BY <1>8, <3>1
    <3>3. QED
      BY <3>2 DEF TickRecord
  <2>2. CASE \A w \in ws : of[w] # h
    BY <1>5, <1>9, <2>2 DEF ScheduleTyped
  <2>3. QED
    BY <2>1, <2>2
<1>11. ticking' \in [Handle -> TickRecord \cup {Idle}]
  BY <1>4, <1>10
<1>12. ASSUME NEW h \in Handle, ticking'[h] # Idle
       PROVE  InPlace(h, ws)
  <2>1. CASE \E w \in ws : of[w] = h
    <3>1. PICK w \in ws : of[w] = h
      BY <2>1
    <3>2. ticking'[h].of = w /\ handles'[w] = h
      BY <1>4, <1>8, <3>1
    <3>3. w \in halted => h \in astray'
      BY <1>4, <3>1
    <3>4. QED
      BY <3>1, <3>2, <3>3 DEF InPlace
  <2>2. CASE \A w \in ws : of[w] # h
    <3>1. ticking'[h] = ticking[h] /\ h \in Ticking
      BY <1>9, <1>12, <2>2 DEF Ticking
    <3>2. CASE h \in astray
      BY <1>4, <3>2 DEF InPlace
    <3>3. CASE h \notin astray
      <4>1. handles[ticking[h].of] = h /\ ticking[h].of \in Workflow
        BY <1>5, <3>1, <3>3 DEF TimersAreMapped, InTheMap, Known
      <4>2. CASE ticking[h].of \in ws
        <5>1. h \in {handles[w] : w \in ws} \cap Ticking
          BY <3>1, <4>1, <4>2
        <5>2. QED
          BY <1>4, <5>1 DEF InPlace
      <4>3. CASE ticking[h].of \notin ws
        <5>1. handles'[ticking[h].of] = h
          BY <1>4, <4>1, <4>3
        <5>2. QED
          BY <3>1, <3>3, <5>1 DEF InPlace
      <4>4. QED
        BY <4>2, <4>3
    <3>4. QED
      BY <3>2, <3>3
  <2>3. QED
    BY <2>1, <2>2
<1>13. QED
  BY <1>6, <1>7, <1>11, <1>12 DEF TimersSet, TimersTyped

\* What ClearTimers leaves.
LEMMA ClearedTimers ==
  ASSUME ScheduleInv, NEW ws, ws \subseteq Workflow, ClearTimers(ws)
  PROVE  TimersCleared(ws)
<1>1. /\ ticking' = [h \in Handle |-> IF \E w \in ws : handles[w] = h THEN Idle ELSE ticking[h]]
      /\ handles' = [w \in Workflow |-> IF w \in ws THEN NoHandle ELSE handles[w]]
      /\ astray' = astray
  BY DEF ClearTimers, Clears
<1>2. ScheduleTyped /\ TimersAreMapped
  BY DEF ScheduleInv
<1>3. handles' \in [Workflow -> Handle \cup {NoHandle}] /\ ticking' \in [Handle -> TickRecord \cup {Idle}]
  BY <1>1, <1>2 DEF ScheduleTyped
<1>4. ASSUME NEW h \in Handle, ticking'[h] # Idle
      PROVE  Stayed(h, ws)
  <2>1. ticking'[h] = ticking[h] /\ \A w \in ws : handles[w] # h
    BY <1>1, <1>4
  <2>2. h \in Ticking
    BY <1>4, <2>1 DEF Ticking
  <2>3. h \in astray \/ (handles[ticking[h].of] = h /\ ticking[h].of \in Workflow)
    BY <1>2, <2>2 DEF TimersAreMapped, InTheMap, Known
  <2>4. QED
    BY <1>1, <2>1, <2>2, <2>3 DEF Stayed
<1>5. QED
  BY <1>1, <1>3, <1>4 DEF TimersCleared, TimersTyped

LEMMA ScheduleKeeps == ScheduleInv /\ [ScheduleNext]_scheduleVars => ScheduleInv'
<1> SUFFICES ASSUME ScheduleInv, [ScheduleNext]_scheduleVars PROVE ScheduleInv'
  OBVIOUS
<1>0. ScheduleTyped /\ TimersAreMapped
  BY DEF ScheduleInv
<1>0a. MaxHistory \in Nat /\ MaxRuns \in Nat
  BY SchedulerAssumption
<1>1. ASSUME NEW w \in Workflow, NEW d \in Schedule, RegisterWorkflow(w, d) PROVE ScheduleInv'
  <2>1. /\ defined' = [defined EXCEPT ![w] = d] /\ recorded' = [recorded EXCEPT ![w] = 0]
        /\ UNCHANGED <<scheduling, halted, underWay>>
    BY <1>1 DEF RegisterWorkflow
  <2>2. defined' \in [Workflow -> Schedule \cup {No}] /\ recorded' \in [Workflow -> 0 .. MaxHistory]
    BY <1>0, <1>0a, <2>1 DEF ScheduleTyped
  <2>3. Known \subseteq Known' /\ w \in Known'
    BY <1>0, <2>1 DEF ScheduleTyped, Known, No, Schedule
  <2>4. CASE scheduling /\ d.enabled
    <3>1. ScheduleWorkflows({w}, defined') /\ \A v \in {w} : defined'[v].type \in {"interval", "once"}
      BY <1>0, <1>1, <2>1, <2>4 DEF RegisterWorkflow, ScheduleTyped, Schedule
    <3> DEFINE ws == {w}
    <3>2. ws \subseteq Workflow /\ w \in ws /\ ScheduleWorkflows(ws, defined') /\ \A v \in ws : defined'[v].type \in {"interval", "once"}
      BY <3>1
    <3>2a. ws \subseteq Known'
      BY <2>3
    <3> HIDE DEF ws
    <3>3. TimersSet(ws)
      BY <3>2, SetTimers
    <3>4. ScheduleTyped'
      BY <1>0, <2>1, <2>2, <3>3 DEF ScheduleTyped, TimersSet, TimersTyped
    <3>5. TimersAreMapped'
      BY <1>0, <2>1, <2>3, <2>4, <3>2a, <3>3 DEF TimersAreMapped, InTheMap, Ticking, TimersSet, InPlace
    <3>6. QED
      BY <3>4, <3>5 DEF ScheduleInv
  <2>5. CASE ~(scheduling /\ d.enabled)
    <3>1. UNCHANGED <<handles, ticking, astray>>
      BY <1>1, <2>5 DEF RegisterWorkflow
    <3>2. ScheduleTyped'
      BY <1>0, <2>1, <2>2, <3>1 DEF ScheduleTyped
    <3>3. TimersAreMapped'
      BY <1>0, <2>1, <2>3, <3>1 DEF TimersAreMapped, InTheMap, Ticking
    <3>4. QED
      BY <3>2, <3>3 DEF ScheduleInv
  <2>6. QED
    BY <2>4, <2>5
<1>2. ASSUME NEW w \in Workflow, UnregisterWorkflow(w) \/ PauseWorkflow(w) PROVE ScheduleInv'
  <2> DEFINE ws == {w}
  <2>1. /\ ClearTimers(ws) /\ UNCHANGED <<scheduling, underWay, recorded>> /\ ws \subseteq Workflow
        /\ halted' \subseteq halted \cup {w} /\ \A v \in Workflow \ {w} : v \in Known => v \in Known'
        /\ defined' \in [Workflow -> Schedule \cup {No}]
    BY <1>0, <1>2 DEF UnregisterWorkflow, PauseWorkflow, Known, ScheduleTyped
  <2>2. TimersCleared(ws)
    BY <2>1, ClearedTimers
  <2>3. ScheduleTyped'
    BY <1>0, <2>1, <2>2 DEF ScheduleTyped, TimersCleared, TimersTyped
  <2>4. TimersAreMapped'
    BY <1>0, <2>1, <2>2 DEF TimersAreMapped, InTheMap, Ticking, Known, TimersCleared, Stayed
  <2>5. QED
    BY <2>3, <2>4 DEF ScheduleInv
<1>3. CASE StartRunner
  <2> DEFINE ws == {w \in Known \ halted : defined[w].enabled}
  <2>1. /\ ~scheduling /\ scheduling' = TRUE /\ ScheduleWorkflows(ws, defined) /\ UNCHANGED <<defined, halted, underWay, recorded>>
    BY <1>3 DEF StartRunner
  <2>2. ws \subseteq Workflow /\ ws \subseteq Known /\ \A w \in ws : defined[w].type \in {"interval", "once"}
    BY <1>0 DEF Known, ScheduleTyped, Schedule
  <2> HIDE DEF ws
  <2>3. TimersSet(ws)
    BY <2>1, <2>2, SetTimers
  <2>4. ScheduleTyped'
    BY <1>0, <2>1, <2>3 DEF ScheduleTyped, TimersSet, TimersTyped
  <2>5. Known' = Known
    BY <2>1 DEF Known
  <2>6. TimersAreMapped'
    BY <1>0, <2>1, <2>2, <2>3, <2>5 DEF TimersAreMapped, InTheMap, Ticking, TimersSet, InPlace
  <2>7. QED
    BY <2>4, <2>6 DEF ScheduleInv
<1>4. CASE StopRunner
  <2>1. scheduling' = FALSE /\ ClearTimers(Workflow) /\ UNCHANGED <<defined, halted, underWay, recorded>>
    BY <1>4 DEF StopRunner
  <2>2. TimersCleared(Workflow)
    BY <2>1, ClearedTimers
  <2>3. ScheduleTyped'
    BY <1>0, <2>1, <2>2 DEF ScheduleTyped, TimersCleared, TimersTyped
  <2>4. TimersAreMapped'
    BY <1>0, <2>1, <2>2 DEF TimersAreMapped, InTheMap, Ticking, Known, TimersCleared, Stayed
  <2>5. QED
    BY <2>3, <2>4 DEF ScheduleInv
<1>5. ASSUME NEW w \in Workflow, ResumeWorkflow(w) PROVE ScheduleInv'
  <2>1. w \in Known /\ halted' = halted \ {w} /\ UNCHANGED <<defined, scheduling, underWay, recorded>> /\ Known' = Known
    BY <1>5 DEF ResumeWorkflow, Known
  <2>2. CASE scheduling
    <3>1. PICK h \in FreeHandle :
            /\ handles' = [handles EXCEPT ![w] = h]
            /\ ticking' = [ticking EXCEPT ![h] = [of |-> w, type |-> defined[w].type]]
            /\ astray' = astray \cup ({handles[w]} \cap Ticking)
      BY <1>5, <2>2 DEF ResumeWorkflow
    <3>2. h \in Handle /\ ticking[h] = Idle /\ h \notin astray
      BY DEF FreeHandle
    <3>3. [of |-> w, type |-> defined[w].type] \in TickRecord
      BY <1>0, <2>1 DEF ScheduleTyped, Known, Schedule, TickRecord
    <3>4. ScheduleTyped'
      BY <1>0, <2>1, <3>1, <3>2, <3>3 DEF ScheduleTyped, Ticking
    <3>5. ASSUME NEW g \in Ticking' PROVE g \in astray' \/ InTheMap(g)'
      <4>1. CASE g = h
        <5>1. ticking'[g].of = w /\ handles'[w] = h
          BY <1>0, <3>1, <3>2, <4>1 DEF ScheduleTyped
        <5>2. QED
          BY <2>1, <2>2, <4>1, <5>1 DEF InTheMap
      <4>2. CASE g # h
        <5>1. g \in Ticking /\ ticking'[g] = ticking[g]
          BY <1>0, <3>1, <3>5, <4>2 DEF Ticking, ScheduleTyped
        <5>2. CASE g \in astray
          BY <3>1, <5>2
        <5>3. CASE InTheMap(g) /\ ticking[g].of = w
          <6>1. g \in {handles[w]} \cap Ticking
            BY <5>1, <5>3 DEF InTheMap
          <6>2. QED
            BY <3>1, <6>1
        <5>4. CASE InTheMap(g) /\ ticking[g].of # w
          <6>1. handles'[ticking[g].of] = g
            BY <1>0, <3>1, <5>4 DEF InTheMap, ScheduleTyped, Known
          <6>2. QED
            BY <2>1, <2>2, <5>1, <5>4, <6>1 DEF InTheMap
        <5>5. QED
          BY <1>0, <5>1, <5>2, <5>3, <5>4 DEF TimersAreMapped
      <4>3. QED
        BY <4>1, <4>2
    <3>6. QED
      BY <3>4, <3>5 DEF ScheduleInv, TimersAreMapped
  <2>3. CASE ~scheduling
    <3>1. UNCHANGED <<handles, ticking, astray>>
      BY <1>5, <2>3 DEF ResumeWorkflow
    <3>2. QED
      BY <1>0, <2>1, <3>1 DEF ScheduleInv, ScheduleTyped, TimersAreMapped, InTheMap, Ticking
  <2>4. QED
    BY <2>2, <2>3
<1>6. ASSUME NEW w \in Workflow, StartsRun(w) PROVE underWay' \in [Workflow -> 0 .. MaxRuns]
  <2>1. underWay[w] \in 0 .. MaxRuns /\ underWay[w] < MaxRuns /\ underWay' = [underWay EXCEPT ![w] = underWay[w] + 1]
    BY <1>0, <1>6 DEF StartsRun, ScheduleTyped
  <2>2. underWay[w] + 1 \in 0 .. MaxRuns
    BY <1>0a, <2>1
  <2>3. QED
    BY <1>0, <2>1, <2>2 DEF ScheduleTyped
<1>7. ASSUME NEW w \in Workflow, RunNow(w) PROVE ScheduleInv'
  <2>1. underWay' \in [Workflow -> 0 .. MaxRuns] /\ UNCHANGED <<defined, handles, ticking, scheduling, halted, recorded, astray>>
    BY <1>6, <1>7 DEF RunNow
  <2>2. QED
    BY <1>0, <2>1 DEF ScheduleInv, ScheduleTyped, TimersAreMapped, InTheMap, Ticking, Known
<1>8. ASSUME NEW h \in Handle, TimerRuns(h) PROVE ScheduleInv'
  <2>1. ticking[h].of \in Workflow /\ UNCHANGED <<defined, handles, scheduling, halted, recorded>> /\ Known' = Known
    BY <1>0, <1>8 DEF TimerRuns, Ticking, ScheduleTyped, TickRecord, Known
  <2>2. underWay' \in [Workflow -> 0 .. MaxRuns]
    BY <1>0, <1>6, <1>8, <2>1 DEF TimerRuns, ScheduleTyped
  <2>3. CASE UNCHANGED <<ticking, astray>>
    BY <1>0, <2>1, <2>2, <2>3 DEF ScheduleInv, ScheduleTyped, TimersAreMapped, InTheMap, Ticking
  <2>4. CASE ticking' = [ticking EXCEPT ![h] = Idle] /\ astray' = astray \ {h}
    <3>1. ScheduleTyped'
      BY <1>0, <2>1, <2>2, <2>4 DEF ScheduleTyped
    <3>2. ASSUME NEW g \in Ticking' PROVE g \in astray' \/ InTheMap(g)'
      <4>1. g # h /\ g \in Ticking /\ ticking'[g] = ticking[g]
        BY <1>0, <2>4, <3>2 DEF Ticking, ScheduleTyped
      <4>2. QED
        BY <1>0, <2>1, <2>4, <4>1 DEF TimersAreMapped, InTheMap
    <3>3. QED
      BY <3>1, <3>2 DEF ScheduleInv, TimersAreMapped
  <2>5. QED
    BY <1>8, <2>3, <2>4 DEF TimerRuns
<1>9. ASSUME NEW w \in Workflow, RunEnds(w) PROVE ScheduleInv'
  <2>1. /\ underWay[w] > 0 /\ underWay' = [underWay EXCEPT ![w] = underWay[w] - 1]
        /\ recorded' = [recorded EXCEPT ![w] = Recorded(recorded[w])]
        /\ UNCHANGED <<defined, handles, ticking, scheduling, halted, astray>>
    BY <1>9 DEF RunEnds
  <2>2. underWay[w] \in 0 .. MaxRuns /\ recorded[w] \in 0 .. MaxHistory
    BY <1>0 DEF ScheduleTyped
  <2>3. underWay[w] - 1 \in 0 .. MaxRuns /\ Recorded(recorded[w]) \in 0 .. MaxHistory
    BY <1>0a, <2>1, <2>2 DEF Recorded
  <2>4. ScheduleTyped'
    BY <1>0, <2>1, <2>3 DEF ScheduleTyped
  <2>5. QED
    BY <1>0, <2>1, <2>4 DEF ScheduleInv, TimersAreMapped, InTheMap, Ticking, Known
<1>10. CASE UNCHANGED scheduleVars
  BY <1>0, <1>10 DEF scheduleVars, ScheduleInv, ScheduleTyped, TimersAreMapped, InTheMap, Ticking, Known
<1>11. QED
  BY <1>1, <1>2, <1>3, <1>4, <1>5, <1>7, <1>8, <1>9, <1>10 DEF ScheduleNext

LEMMA ScheduleTypes == ScheduleInv => ScheduleTypeOK
BY DEF ScheduleInv, ScheduleTyped, ScheduleTypeOK, TickRecord

(* No timer runs a workflow once the runner was stopped or the workflow        *)
(* unregistered or paused, but for one that was pushed out of the map or set   *)
(* for a paused workflow; for any workflows and timers                         *)
(* (ScheduledWorkflowRunner).                                                  *)
THEOREM OnlyStraysTick == ScheduleSpec => []OnlyStrayTimersTick
<1>1. ScheduleInv => OnlyStrayTimersTick
  BY DEF ScheduleInv, TimersAreMapped, InTheMap, OnlyStrayTimersTick
<1> QED
  BY <1>1, ScheduleStarts, ScheduleKeeps, PTL DEF ScheduleSpec

-----------------------------------------------------------------------------
(* ExternalServicePoller.                                                      *)

PollerSpec == PollerInit /\ [][PollerNext]_pollerVars

\* The cursor of every registration, whether it is the present one or a former one.
CursorOf(t) == IF t = status.term THEN status.cursor ELSE olds[t].cursor
Cursors == [t \in Term |-> CursorOf(t)]

StatusRecord == [term : 0 .. MaxTerms, cursor : 0 .. MaxItems, errors : 0 .. MaxErrors, running : BOOLEAN]
OldRecord == [cursor : 0 .. MaxItems, errors : 0 .. MaxErrors]
PollRecord == [term : Term, from : 0 .. MaxItems]
PollerTyped ==
  /\ source \in 0 .. MaxItems /\ clocked \in BOOLEAN /\ polling \in BOOLEAN /\ twice \subseteq Term
  /\ status \in StatusRecord /\ olds \in [Term -> OldRecord]
  /\ polls \in [Poll -> PollRecord \cup {NotPolling}]
  /\ handed \in [Term -> SUBSET (1 .. MaxItems)]
  /\ clocked => status.term # 0

\* Items up to a cursor, and up to the one a poll was asked with, were handed over;
\* without overlaps, no others were, and at most one poll is under way, from there.
Accounted(hd, cur, ps, tw) ==
  /\ \A t \in Term : 1 .. cur[t] \subseteq hd[t]
  /\ \A p \in Poll : ps[p] # NotPolling => 1 .. ps[p].from \subseteq hd[ps[p].term]
  /\ \A t \in Term : t \notin tw => hd[t] \subseteq 1 .. cur[t]
  /\ \A p \in Poll : ps[p] # NotPolling /\ ps[p].term \notin tw => ps[p].from = cur[ps[p].term]
  /\ \A p \in Poll : \A q \in Poll :
       ps[p] # NotPolling /\ ps[q] # NotPolling /\ ps[p].term = ps[q].term /\ ps[p].term \notin tw => p = q
PollerInv == PollerTyped /\ Accounted(handed, Cursors, polls, twice)

PollTable == [Poll -> PollRecord \cup {NotPolling}]

LEMMA TermsAreNumbered == MaxTerms \in Nat /\ MaxItems \in Nat /\ MaxErrors \in Nat /\ MaxErrors > 0 /\ 0 \notin Term
BY PollerAssumption DEF Term

LEMMA PollBegins ==
  ASSUME NEW hd, NEW cur, NEW ps \in PollTable, NEW tw, Accounted(hd, cur, ps, tw),
         NEW p \in Poll, ps[p] = NotPolling, NEW t \in Term, NEW tv,
         tv = IF \E q \in Poll : ps[q] # NotPolling /\ ps[q].term = t THEN tw \cup {t} ELSE tw
  PROVE  Accounted(hd, cur, [ps EXCEPT ![p] = [term |-> t, from |-> cur[t]]], tv)
<1> DEFINE new == [ps EXCEPT ![p] = [term |-> t, from |-> cur[t]]]
<1>1. new[p].term = t /\ new[p].from = cur[t] /\ \A q \in Poll : q # p => new[q] = ps[q]
  BY DEF PollTable
<1> HIDE DEF new
<1>2. tw \subseteq tv
  OBVIOUS
<1>3. \A q \in Poll : q # p /\ new[q] # NotPolling /\ new[q].term = t => t \in tv
  BY <1>1
<1>4. Accounted(hd, cur, new, tv)
  <2>1. \A q \in Poll : new[q] # NotPolling => 1 .. new[q].from \subseteq hd[new[q].term]
    BY <1>1 DEF Accounted
  <2>2. \A u \in Term : u \notin tv => hd[u] \subseteq 1 .. cur[u]
    BY <1>2 DEF Accounted
  <2>3. \A q \in Poll : new[q] # NotPolling /\ new[q].term \notin tv => new[q].from = cur[new[q].term]
    BY <1>1, <1>2 DEF Accounted
  <2>4. \A q \in Poll : \A r \in Poll :
          new[q] # NotPolling /\ new[r] # NotPolling /\ new[q].term = new[r].term /\ new[q].term \notin tv => q = r
    BY <1>1, <1>2, <1>3 DEF Accounted
  <2>5. QED
    BY <2>1, <2>2, <2>3, <2>4 DEF Accounted
<1>5. QED
  BY <1>4 DEF new

LEMMA PollLeaves ==
  ASSUME NEW hd, NEW cur, NEW ps \in PollTable, NEW tw, Accounted(hd, cur, ps, tw),
         NEW p \in Poll, NEW tv, tw \subseteq tv
  PROVE  Accounted(hd, cur, [ps EXCEPT ![p] = NotPolling], tv)
<1> DEFINE new == [ps EXCEPT ![p] = NotPolling]
<1>1. \A q \in Poll : new[q] # NotPolling => new[q] = ps[q]
  BY DEF PollTable
<1> HIDE DEF new
<1>2. Accounted(hd, cur, new, tv)
  BY <1>1 DEF Accounted
<1>3. QED
  BY <1>2 DEF new

LEMMA PollHandsOver ==
  ASSUME NEW hd \in [Term -> SUBSET (1 .. MaxItems)], NEW cur \in [Term -> 0 .. MaxItems], NEW ps \in PollTable,
         NEW tw, Accounted(hd, cur, ps, tw),
         NEW p \in Poll, ps[p] # NotPolling, NEW last \in 0 .. MaxItems, ps[p].from <= last
  PROVE  Accounted([hd EXCEPT ![ps[p].term] = @ \cup (ps[p].from + 1 .. last)], [cur EXCEPT ![ps[p].term] = last],
                   [ps EXCEPT ![p] = NotPolling], tw)
<1> DEFINE t == ps[p].term
           from == ps[p].from
           hd2 == [hd EXCEPT ![t] = @ \cup (from + 1 .. last)]
           cur2 == [cur EXCEPT ![t] = last]
           new == [ps EXCEPT ![p] = NotPolling]
<1>1. \A q \in Poll : new[q] # NotPolling => new[q] = ps[q] /\ q # p
  BY DEF PollTable
<1>2. t \in Term /\ from \in 0 .. MaxItems /\ MaxItems \in Nat
  BY TermsAreNumbered DEF PollTable, PollRecord
<1>3. hd2[t] = hd[t] \cup (from + 1 .. last) /\ \A u \in Term : hd[u] \subseteq hd2[u] /\ (u # t => hd2[u] = hd[u])
  BY <1>2
<1>4. cur2[t] = last /\ \A u \in Term : u # t => cur2[u] = cur[u]
  BY <1>2
<1>5. \A q \in Poll : ps[q] # NotPolling => ps[q].term \in Term
  BY DEF PollTable, PollRecord
<1>6. Accounted(hd, cur, ps, tw) /\ from <= last /\ ps[p] # NotPolling
  OBVIOUS
<1>7. 1 .. last \subseteq hd2[t]
  <2>1. 1 .. from \subseteq hd[t]
    BY <1>6 DEF Accounted
  <2>2. 1 .. last \subseteq (1 .. from) \cup (from + 1 .. last)
    BY <1>2
  <2>3. QED
    BY <1>3, <2>1, <2>2
<1>8. ASSUME t \notin tw PROVE hd2[t] \subseteq 1 .. last
  <2>1. hd[t] \subseteq 1 .. cur[t] /\ cur[t] = from
    BY <1>2, <1>6, <1>8 DEF Accounted
  <2>2. \A n \in 1 .. from : n \in 1 .. last
    BY <1>2, <1>6
  <2>3. \A n \in from + 1 .. last : n \in 1 .. last
    BY <1>2, <1>6
  <2>4. QED
    BY <1>3, <2>1, <2>2, <2>3
<1>9. ASSUME t \notin tw, NEW q \in Poll, new[q] # NotPolling PROVE ps[q].term # t
  BY <1>1, <1>6, <1>9 DEF Accounted
<1> HIDE DEF t, from, hd2, cur2, new
<1>10. Accounted(hd2, cur2, new, tw)
  <2>1. \A u \in Term : 1 .. cur2[u] \subseteq hd2[u]
    BY <1>3, <1>4, <1>6, <1>7 DEF Accounted
  <2>2. \A q \in Poll : new[q] # NotPolling => 1 .. new[q].from \subseteq hd2[new[q].term]
    BY <1>1, <1>3, <1>5, <1>6 DEF Accounted
  <2>3. \A u \in Term : u \notin tw => hd2[u] \subseteq 1 .. cur2[u]
    BY <1>3, <1>4, <1>6, <1>8 DEF Accounted
  <2>4. \A q \in Poll : new[q] # NotPolling /\ new[q].term \notin tw => new[q].from = cur2[new[q].term]
    BY <1>1, <1>4, <1>5, <1>6, <1>9 DEF Accounted
  <2>5. \A q \in Poll : \A r \in Poll :
          new[q] # NotPolling /\ new[r] # NotPolling /\ new[q].term = new[r].term /\ new[q].term \notin tw => q = r
    BY <1>1, <1>6 DEF Accounted
  <2>6. QED
    BY <2>1, <2>2, <2>3, <2>4, <2>5 DEF Accounted
<1>11. QED
  BY <1>10 DEF t, from, hd2, cur2, new

LEMMA PollerStarts == PollerInit => PollerInv
<1> SUFFICES ASSUME PollerInit PROVE PollerInv
  OBVIOUS
<1>1. MaxItems \in Nat /\ MaxTerms \in Nat /\ MaxErrors \in Nat /\ 0 \in 0 .. MaxItems /\ 0 \in 0 .. MaxTerms /\ 0 \in 0 .. MaxErrors
  BY TermsAreNumbered
<1>2. PollerTyped
  <2>1. clocked \in BOOLEAN /\ polling \in BOOLEAN
    BY DEF PollerInit
  <2>2. status \in StatusRecord /\ olds \in [Term -> OldRecord]
    BY <1>1 DEF PollerInit, StatusRecord, OldRecord, Fresh1
  <2>3. QED
    BY <1>1, <2>1, <2>2 DEF PollerInit, PollerTyped
<1>3. Cursors = [t \in Term |-> 0]
  BY TermsAreNumbered DEF PollerInit, Cursors, CursorOf, Fresh1
<1>4. \A t \in Term : Cursors[t] = 0 /\ handed[t] = {}
  BY <1>3 DEF PollerInit
<1>5. 1 .. 0 = {}
  OBVIOUS
<1>6. \A p \in Poll : polls[p] = NotPolling
  BY DEF PollerInit
<1>7. Accounted(handed, Cursors, polls, twice)
  BY <1>4, <1>5, <1>6 DEF Accounted
<1>8. QED
  BY <1>2, <1>7 DEF PollerInv

\* A call of executePoll with the status object s of the present registration.
PollStarted(s) ==
  /\ polls' \in PollTable /\ twice' \subseteq Term
  /\ \A cur : Accounted(handed, cur, polls, twice) /\ cur[s.term] = s.cursor => Accounted(handed, cur, polls', twice')
LEMMA ExecutesPoll ==
  ASSUME PollerTyped, NEW s \in StatusRecord, s.term # 0, ExecutePoll(s)
  PROVE  PollStarted(s)
<1>1. PICK p \in Poll \ UnderWay :
    /\ polls' = [polls EXCEPT ![p] = [term |-> s.term, from |-> s.cursor]]
    /\ twice' = IF \E q \in UnderWay : polls[q].term = s.term THEN twice \cup {s.term} ELSE twice
  BY DEF ExecutePoll
<1>2. polls \in PollTable /\ p \in Poll /\ polls[p] = NotPolling
  BY DEF PollerTyped, PollTable, UnderWay
<1>3. s.term \in 0 .. MaxTerms /\ s.term # 0 /\ s.cursor \in 0 .. MaxItems
  BY DEF StatusRecord
<1>4. s.term \in Term
  BY <1>3, TermsAreNumbered DEF Term
<1>5. [term |-> s.term, from |-> s.cursor] \in PollRecord
  BY <1>3, <1>4 DEF PollRecord
<1>6. polls' \in PollTable /\ twice' \subseteq Term
  <2>1. polls' \in PollTable
    BY <1>1, <1>2, <1>5 DEF PollTable
  <2>2. twice \subseteq Term
    BY DEF PollerTyped
  <2>3. QED
    BY <1>1, <1>4, <2>1, <2>2
<1>7. twice' = IF \E q \in Poll : polls[q] # NotPolling /\ polls[q].term = s.term THEN twice \cup {s.term} ELSE twice
  BY <1>1 DEF UnderWay
<1>8. ASSUME NEW cur, Accounted(handed, cur, polls, twice), cur[s.term] = s.cursor
      PROVE  Accounted(handed, cur, polls', twice')
  <2> DEFINE t == s.term
             tv == twice'
  <2>1. t \in Term /\ tv = IF \E q \in Poll : polls[q] # NotPolling /\ polls[q].term = t THEN twice \cup {t} ELSE twice
    BY <1>4, <1>7
  <2>2. polls' = [polls EXCEPT ![p] = [term |-> t, from |-> cur[t]]]
    BY <1>1, <1>8
  <2> HIDE DEF t, tv
  <2>3. Accounted(handed, cur, [polls EXCEPT ![p] = [term |-> t, from |-> cur[t]]], tv)
    BY <1>2, <1>8, <2>1, PollBegins
  <2>4. QED
    BY <2>2, <2>3 DEF tv
<1>9. QED
  BY <1>6, <1>8 DEF PollStarted

\* What an error leaves.
LEMMA ErrorsAreCounted ==
  ASSUME PollerTyped, NEW t \in Term, NEW before \in 0 .. MaxErrors, ErrorCounted(t, before)
  PROVE  /\ status' \in StatusRecord /\ olds' \in [Term -> OldRecord] /\ clocked' \in BOOLEAN
         /\ status'.term = status.term /\ (clocked' => clocked) /\ Cursors' = Cursors
<1> DEFINE n == before + 1
           counted1 == IF n > MaxErrors THEN MaxErrors ELSE n
<1>1. counted1 \in 0 .. MaxErrors
  BY TermsAreNumbered
<1>2. status \in StatusRecord /\ olds \in [Term -> OldRecord] /\ clocked \in BOOLEAN
  BY DEF PollerTyped
<1>3. ErrorCounted(t, before) <=>
        IF n < MaxErrors THEN Writes(t, [ObjectOf(t) EXCEPT !.errors = counted1]) /\ UNCHANGED clocked
        ELSE /\ clocked' = FALSE
             /\ status' = IF t = status.term THEN [status EXCEPT !.errors = counted1, !.running = FALSE]
                          ELSE [status EXCEPT !.running = FALSE]
             /\ olds' = IF t = status.term THEN olds ELSE [olds EXCEPT ![t].errors = counted1]
  BY DEF ErrorCounted
<1> HIDE DEF counted1
<1>4. CASE n < MaxErrors
  <2>1. Writes(t, [ObjectOf(t) EXCEPT !.errors = counted1]) /\ clocked' = clocked
    BY <1>3, <1>4
  <2>2. CASE t = status.term
    <3>1. status' = [status EXCEPT !.cursor = status.cursor, !.errors = counted1] /\ olds' = olds
      BY <2>1, <2>2 DEF Writes, ObjectOf
    <3>2. status' \in StatusRecord /\ status'.term = status.term /\ status'.cursor = status.cursor
      BY <1>1, <1>2, <3>1 DEF StatusRecord
    <3>3. QED
      BY <1>2, <2>1, <3>1, <3>2 DEF Cursors, CursorOf
  <2>3. CASE t # status.term
    <3>1. olds' = [olds EXCEPT ![t] = [olds[t] EXCEPT !.errors = counted1]] /\ status' = status
      BY <2>1, <2>3 DEF Writes, ObjectOf
    <3>2. [olds[t] EXCEPT !.errors = counted1] \in OldRecord /\ [olds[t] EXCEPT !.errors = counted1].cursor = olds[t].cursor
      BY <1>1, <1>2 DEF OldRecord
    <3>3. olds' \in [Term -> OldRecord] /\ \A u \in Term : olds'[u].cursor = olds[u].cursor
      BY <1>2, <3>1, <3>2
    <3>4. QED
      BY <1>2, <2>1, <3>1, <3>3 DEF Cursors, CursorOf
  <2>4. QED
    BY <2>2, <2>3
<1>5. CASE ~(n < MaxErrors)
  <2>1. /\ clocked' = FALSE
        /\ status' = IF t = status.term THEN [status EXCEPT !.errors = counted1, !.running = FALSE]
                     ELSE [status EXCEPT !.running = FALSE]
        /\ olds' = IF t = status.term THEN olds ELSE [olds EXCEPT ![t].errors = counted1]
    BY <1>3, <1>5
  <2>2. status' \in StatusRecord /\ status'.term = status.term /\ status'.cursor = status.cursor
    BY <1>1, <1>2, <2>1 DEF StatusRecord
  <2>3. olds' \in [Term -> OldRecord] /\ \A u \in Term : olds'[u].cursor = olds[u].cursor
    <3>1. [olds[t] EXCEPT !.errors = counted1] \in OldRecord /\ [olds[t] EXCEPT !.errors = counted1].cursor = olds[t].cursor
      BY <1>1, <1>2 DEF OldRecord
    <3>2. olds' = olds \/ olds' = [olds EXCEPT ![t] = [olds[t] EXCEPT !.errors = counted1]]
      BY <2>1
    <3>3. QED
      BY <1>2, <3>1, <3>2
  <2>4. clocked' \in BOOLEAN
    BY <2>1
  <2>5. QED
    BY <2>1, <2>2, <2>3, <2>4 DEF Cursors, CursorOf
<1>6. QED
  BY <1>4, <1>5

LEMMA PollerKeeps == PollerInv /\ [PollerNext]_pollerVars => PollerInv'
<1> SUFFICES ASSUME PollerInv, [PollerNext]_pollerVars PROVE PollerInv'
  OBVIOUS
<1>0. PollerTyped /\ Accounted(handed, Cursors, polls, twice) /\ polls \in PollTable
  BY DEF PollerInv, PollerTyped, PollTable
<1>0a. MaxItems \in Nat /\ MaxTerms \in Nat /\ MaxErrors \in Nat /\ MaxErrors > 0 /\ 0 \notin Term
  BY TermsAreNumbered
<1>0b. Cursors \in [Term -> 0 .. MaxItems]
  BY <1>0 DEF Cursors, CursorOf, PollerTyped, StatusRecord, OldRecord
<1>1. CASE RegisterPoller
  <2>1. PICK t \in Term :
       /\ handed[t] = {} /\ t \notin twice /\ olds[t] = Fresh1 /\ \A p \in UnderWay : polls[p].term # t
       /\ LET new == [term |-> t, cursor |-> 0, errors |-> 0, running |-> FALSE] IN
          IF polling THEN StartPoller(new) ELSE status' = new /\ UNCHANGED <<clocked, polls, twice>>
    BY <1>1 DEF RegisterPoller
  <2> DEFINE new == [term |-> t, cursor |-> 0, errors |-> 0, running |-> FALSE]
  <2>2. status.term = 0 /\ UNCHANGED <<source, polling, olds, handed>>
    BY <1>1 DEF RegisterPoller
  <2>3. t \in 0 .. MaxTerms /\ t # 0
    BY <1>0a DEF Term
  <2>4. new \in StatusRecord /\ new.term = t /\ new.cursor = 0
    BY <1>0a, <2>3 DEF StatusRecord
  <2>5. IF polling THEN StartPoller(new) ELSE status' = new /\ UNCHANGED <<clocked, polls, twice>>
    BY <2>1
  <2> HIDE DEF new
  <2>6. status' \in StatusRecord /\ status'.term = t /\ status'.cursor = 0
    BY <2>4, <2>5 DEF StartPoller, StatusRecord
  <2>7. Cursors' = Cursors
    <3>1. \A u \in Term : CursorOf(u)' = CursorOf(u)
      BY <1>0a, <2>1, <2>2, <2>6 DEF CursorOf, Fresh1
    <3>2. QED
      BY <3>1 DEF Cursors
  <2>8. Cursors[t] = 0
    BY <1>0a, <2>1, <2>2 DEF Cursors, CursorOf, Fresh1
  <2>9. CASE polling
    <3>1. ExecutePoll(new) /\ clocked' = TRUE
      BY <2>5, <2>9 DEF StartPoller
    <3>2. PollStarted(new)
      BY <1>0, <2>3, <2>4, <3>1, ExecutesPoll
    <3>3. polls' \in PollTable /\ twice' \subseteq Term /\ Accounted(handed, Cursors, polls', twice')
      BY <1>0, <2>4, <2>8, <3>2 DEF PollStarted
    <3>4. clocked' \in BOOLEAN
      BY <3>1
    <3>5. PollerTyped'
      BY <1>0, <2>2, <2>3, <2>6, <3>3, <3>4 DEF PollerTyped, PollTable
    <3>6. Accounted(handed, Cursors, polls, twice)'
      BY <2>2, <2>7, <3>3
    <3>7. QED
      BY <3>5, <3>6 DEF PollerInv
  <2>10. CASE ~polling
    <3>1. UNCHANGED <<clocked, polls, twice>>
      BY <2>5, <2>10
    <3>2. PollerTyped'
      BY <1>0, <2>2, <2>3, <2>6, <3>1 DEF PollerTyped
    <3>3. Accounted(handed, Cursors, polls, twice)'
      BY <1>0, <2>2, <2>7, <3>1
    <3>4. QED
      BY <3>2, <3>3 DEF PollerInv
  <2>11. QED
    BY <2>9, <2>10
<1>2. CASE UnregisterPoller
  <2>1. /\ status.term # 0
        /\ status' = [term |-> 0, cursor |-> 0, errors |-> 0, running |-> FALSE] /\ clocked' = FALSE
        /\ olds' = [olds EXCEPT ![status.term] = ObjectOf(status.term)]
        /\ UNCHANGED <<source, polling, polls, handed, twice>>
    BY <1>2 DEF UnregisterPoller
  <2>2. status.term \in Term /\ ObjectOf(status.term) = [cursor |-> status.cursor, errors |-> status.errors]
    BY <1>0, <1>0a, <2>1 DEF PollerTyped, StatusRecord, Term, ObjectOf
  <2>3. ObjectOf(status.term) \in OldRecord
    BY <1>0, <2>2 DEF PollerTyped, StatusRecord, OldRecord
  <2>4. olds' \in [Term -> OldRecord]
    BY <1>0, <2>1, <2>2, <2>3 DEF PollerTyped
  <2>5. status' \in StatusRecord /\ status'.term = 0
    BY <1>0a, <2>1 DEF StatusRecord
  <2>6. clocked' \in BOOLEAN
    BY <2>1
  <2>7. PollerTyped'
    BY <1>0, <2>1, <2>4, <2>5, <2>6 DEF PollerTyped
  <2>8. \A u \in Term : CursorOf(u)' = CursorOf(u)
    BY <1>0, <1>0a, <2>1, <2>2, <2>5 DEF CursorOf, PollerTyped
  <2>9. Cursors' = Cursors
    BY <2>8 DEF Cursors
  <2>10. Accounted(handed, Cursors, polls, twice)'
    BY <1>0, <2>1, <2>9
  <2>11. QED
    BY <2>7, <2>10 DEF PollerInv
<1>3. CASE StartService
  <2>1. /\ polling' = TRUE /\ UNCHANGED <<source, olds, handed>>
        /\ IF status.term = 0 THEN UNCHANGED <<status, clocked, polls, twice>> ELSE StartPoller(status)
    BY <1>3 DEF StartService
  <2>2. polling' \in BOOLEAN
    BY <2>1
  <2>3. CASE status.term = 0
    <3>1. UNCHANGED <<status, clocked, polls, twice>>
      BY <2>1, <2>3
    <3>2. PollerTyped'
      BY <1>0, <2>1, <2>2, <3>1 DEF PollerTyped
    <3>3. Cursors' = Cursors
      BY <2>1, <3>1 DEF Cursors, CursorOf
    <3>4. Accounted(handed, Cursors, polls, twice)'
      BY <1>0, <2>1, <3>1, <3>3
    <3>5. QED
      BY <3>2, <3>4 DEF PollerInv
  <2>4. CASE status.term # 0
    <3>1. status' = [status EXCEPT !.running = TRUE] /\ clocked' = TRUE /\ ExecutePoll(status)
      BY <2>1, <2>4 DEF StartPoller
    <3>2. status' \in StatusRecord /\ status'.term = status.term /\ status'.cursor = status.cursor
      BY <1>0, <3>1 DEF PollerTyped, StatusRecord
    <3>3. PollStarted(status)
      BY <1>0, <2>4, <3>1, ExecutesPoll DEF PollerTyped
    <3>4. status.term \in Term /\ Cursors[status.term] = status.cursor
      BY <1>0, <1>0a, <2>4 DEF PollerTyped, StatusRecord, Term, Cursors, CursorOf
    <3>5. polls' \in PollTable /\ twice' \subseteq Term /\ Accounted(handed, Cursors, polls', twice')
      BY <1>0, <3>3, <3>4 DEF PollStarted
    <3>6. clocked' \in BOOLEAN
      BY <3>1
    <3>7. PollerTyped'
      BY <1>0, <2>1, <2>2, <2>4, <3>2, <3>5, <3>6 DEF PollerTyped, PollTable
    <3>8. Cursors' = Cursors
      BY <2>1, <3>2 DEF Cursors, CursorOf
    <3>9. Accounted(handed, Cursors, polls, twice)'
      BY <2>1, <3>5, <3>8
    <3>10. QED
      BY <3>7, <3>9 DEF PollerInv
  <2>5. QED
    BY <2>3, <2>4
<1>4. CASE StopService
  <2>1. /\ polling' = FALSE /\ status' = [status EXCEPT !.running = FALSE] /\ clocked' = FALSE
        /\ UNCHANGED <<source, polls, olds, handed, twice>>
    BY <1>4 DEF StopService, StopPoller
  <2>2. polling' \in BOOLEAN /\ clocked' \in BOOLEAN
    BY <2>1
  <2>3. status' \in StatusRecord /\ status'.term = status.term /\ status'.cursor = status.cursor
    BY <1>0, <2>1 DEF PollerTyped, StatusRecord
  <2>4. PollerTyped'
    BY <1>0, <2>1, <2>2, <2>3 DEF PollerTyped
  <2>5. Cursors' = Cursors
    BY <2>1, <2>3 DEF Cursors, CursorOf
  <2>6. Accounted(handed, Cursors, polls, twice)'
    BY <1>0, <2>1, <2>5
  <2>7. QED
    BY <2>4, <2>6 DEF PollerInv
<1>5. CASE IntervalFires
  <2>1. clocked /\ ExecutePoll(status) /\ UNCHANGED <<source, status, clocked, polling, olds, handed>>
    BY <1>5 DEF IntervalFires
  <2>2. status.term # 0 /\ status \in StatusRecord
    BY <1>0, <2>1 DEF PollerTyped
  <2>3. PollStarted(status)
    BY <1>0, <2>1, <2>2, ExecutesPoll
  <2>4. status.term \in Term /\ Cursors[status.term] = status.cursor
    BY <1>0a, <2>2 DEF StatusRecord, Term, Cursors, CursorOf
  <2>5. polls' \in PollTable /\ twice' \subseteq Term /\ Accounted(handed, Cursors, polls', twice')
    BY <1>0, <2>3, <2>4 DEF PollStarted
  <2>6. PollerTyped'
    BY <1>0, <2>1, <2>5 DEF PollerTyped, PollTable
  <2>7. Cursors' = Cursors
    BY <2>1 DEF Cursors, CursorOf
  <2>8. Accounted(handed, Cursors, polls, twice)'
    BY <2>1, <2>5, <2>7
  <2>9. QED
    BY <2>6, <2>8 DEF PollerInv
<1>6. CASE SourceGrows
  <2>1. source < MaxItems /\ source' = source + 1 /\ UNCHANGED <<status, clocked, polling, polls, olds, handed, twice>>
    BY <1>6 DEF SourceGrows
  <2>2. source' \in 0 .. MaxItems
    BY <1>0, <1>0a, <2>1 DEF PollerTyped
  <2>3. PollerTyped'
    BY <1>0, <2>1, <2>2 DEF PollerTyped
  <2>4. Cursors' = Cursors
    BY <2>1 DEF Cursors, CursorOf
  <2>5. Accounted(handed, Cursors, polls, twice)'
    BY <1>0, <2>1, <2>4
  <2>6. QED
    BY <2>3, <2>5 DEF PollerInv
<1>7. ASSUME NEW p \in Poll, PollAnswered(p) PROVE PollerInv'
  <2> DEFINE t == polls[p].term
             from == polls[p].from
  <2>1. PICK last \in from .. source :
       /\ handed' = [handed EXCEPT ![t] = @ \cup (from + 1 .. last)]
       /\ Writes(t, [cursor |-> last, errors |-> 0])
    BY <1>7 DEF PollAnswered
  <2>2. polls[p] # NotPolling /\ polls' = [polls EXCEPT ![p] = NotPolling] /\ UNCHANGED <<source, polling, clocked, twice>>
    BY <1>7 DEF PollAnswered, PollOver, UnderWay
  <2>3. t \in Term /\ from \in 0 .. MaxItems /\ source \in 0 .. MaxItems
    BY <1>0, <2>2 DEF PollerTyped, PollTable, PollRecord
  <2>4. last \in 0 .. MaxItems /\ from <= last
    BY <1>0a, <2>1, <2>3
  <2> HIDE DEF t, from
  <2>5. /\ status' \in StatusRecord /\ olds' \in [Term -> OldRecord] /\ status'.term = status.term
        /\ Cursors' = [Cursors EXCEPT ![t] = last]
    <3>1. [cursor |-> last, errors |-> 0] \in OldRecord
      BY <1>0a, <2>4 DEF OldRecord
    <3>2. CASE t = status.term
      <4>1. status' = [status EXCEPT !.cursor = last, !.errors = 0] /\ olds' = olds
        BY <2>1, <3>2 DEF Writes
      <4>2. status' \in StatusRecord /\ status'.term = status.term /\ status'.cursor = last
        <5>1. status \in StatusRecord /\ 0 \in 0 .. MaxErrors /\ last \in 0 .. MaxItems
          BY <1>0, <1>0a, <2>4 DEF PollerTyped
        <5>2. QED
          BY <4>1, <5>1 DEF StatusRecord
      <4>3. QED
        BY <1>0, <2>3, <3>2, <4>1, <4>2 DEF PollerTyped, Cursors, CursorOf
    <3>3. CASE t # status.term
      <4>1. olds' = [olds EXCEPT ![t] = [cursor |-> last, errors |-> 0]] /\ status' = status
        BY <2>1, <3>3 DEF Writes
      <4>2. olds' \in [Term -> OldRecord]
        BY <1>0, <2>3, <3>1, <4>1 DEF PollerTyped
      <4>3. \A u \in Term : CursorOf(u)' = IF u = t THEN last ELSE CursorOf(u)
        BY <1>0, <2>3, <3>3, <4>1 DEF PollerTyped, CursorOf
      <4>4. QED
        BY <1>0, <2>3, <4>1, <4>2, <4>3 DEF PollerTyped, Cursors
    <3>4. QED
      BY <3>2, <3>3
  <2>6. \A n \in from + 1 .. last : n \in 1 .. MaxItems
    BY <1>0a, <2>3, <2>4
  <2>7. handed \in [Term -> SUBSET (1 .. MaxItems)]
    BY <1>0 DEF PollerTyped
  <2>8. handed' \in [Term -> SUBSET (1 .. MaxItems)]
    BY <2>1, <2>3, <2>6, <2>7
  <2>9. Accounted(handed', Cursors', polls', twice')
    <3>1. Accounted([handed EXCEPT ![polls[p].term] = @ \cup (polls[p].from + 1 .. last)], [Cursors EXCEPT ![polls[p].term] = last],
                   [polls EXCEPT ![p] = NotPolling], twice)
      <4>1. polls[p].from <= last
        BY <2>4 DEF from
      <4>2. QED
        BY <1>0, <1>0b, <2>2, <2>4, <2>7, <4>1, PollHandsOver
    <3>2. QED
      BY <2>1, <2>2, <2>5, <3>1 DEF t, from
  <2>10. polls' \in PollTable
    BY <1>0, <2>2 DEF PollTable
  <2>11. PollerTyped'
    BY <1>0, <2>2, <2>5, <2>8, <2>10 DEF PollerTyped, PollTable
  <2>12. QED
    BY <2>9, <2>11 DEF PollerInv
<1>8. ASSUME NEW p \in Poll, polls[p] # NotPolling, NEW before \in 0 .. MaxErrors, ErrorCounted(polls[p].term, before),
             polls' = [polls EXCEPT ![p] = NotPolling], UNCHANGED <<source, polling, handed>>,
             twice \subseteq twice', twice' \subseteq Term
      PROVE  PollerInv'
  <2>1. polls[p].term \in Term
    BY <1>0, <1>8 DEF PollTable, PollRecord
  <2>2. /\ status' \in StatusRecord /\ olds' \in [Term -> OldRecord] /\ clocked' \in BOOLEAN
        /\ status'.term = status.term /\ (clocked' => clocked) /\ Cursors' = Cursors
    BY <1>0, <1>8, <2>1, ErrorsAreCounted
  <2>3. polls' \in PollTable
    BY <1>0, <1>8 DEF PollTable
  <2>4. PollerTyped'
    BY <1>0, <1>8, <2>2, <2>3 DEF PollerTyped, PollTable
  <2>5. Accounted(handed', Cursors', polls', twice')
    <3> DEFINE tv == twice'
    <3>1. twice \subseteq tv
      BY <1>8
    <3> HIDE DEF tv
    <3>2. Accounted(handed, Cursors, [polls EXCEPT ![p] = NotPolling], tv)
      BY <1>0, <3>1, PollLeaves
    <3>3. QED
      BY <1>8, <2>2, <3>2 DEF tv
  <2>6. QED
    BY <2>4, <2>5 DEF PollerInv
<1>9. ASSUME NEW p \in Poll, PollFails(p) PROVE PollerInv'
  <2>1. /\ polls[p] # NotPolling /\ ErrorCounted(polls[p].term, ObjectOf(polls[p].term).errors)
        /\ polls' = [polls EXCEPT ![p] = NotPolling] /\ UNCHANGED <<source, polling, handed, twice>>
    BY <1>9 DEF PollFails, PollOver, UnderWay
  <2>2. ObjectOf(polls[p].term).errors \in 0 .. MaxErrors
    BY <1>0, <2>1 DEF ObjectOf, PollerTyped, StatusRecord, OldRecord, PollTable, PollRecord
  <2>3. twice \subseteq twice' /\ twice' \subseteq Term
    BY <1>0, <2>1 DEF PollerTyped
  <2>4. QED
    BY <1>8, <2>1, <2>2, <2>3
<1>10. ASSUME NEW p \in Poll, HandlerThrows(p) PROVE PollerInv'
  <2>1. /\ polls[p] # NotPolling /\ ErrorCounted(polls[p].term, 0) /\ twice' = twice \cup {polls[p].term}
        /\ polls' = [polls EXCEPT ![p] = NotPolling] /\ UNCHANGED <<source, polling, handed>>
    BY <1>10 DEF HandlerThrows, StaysBehind, PollOver, UnderWay
  <2>2. 0 \in 0 .. MaxErrors
    BY <1>0a
  <2>3. twice \subseteq twice' /\ twice' \subseteq Term
    BY <1>0, <2>1 DEF PollerTyped, PollTable, PollRecord
  <2>4. QED
    BY <1>8, <2>1, <2>2, <2>3
<1>11. CASE UNCHANGED pollerVars
  <2>1. PollerTyped' /\ Cursors' = Cursors
    BY <1>0, <1>11 DEF pollerVars, PollerTyped, Cursors, CursorOf
  <2>2. Accounted(handed, Cursors, polls, twice)'
    BY <1>0, <1>11, <2>1 DEF pollerVars
  <2>3. QED
    BY <2>1, <2>2 DEF PollerInv
<1>12. QED
  BY <1>1, <1>2, <1>3, <1>4, <1>5, <1>6, <1>7, <1>9, <1>10, <1>11 DEF PollerNext

LEMMA PollerTypes == PollerInv => PollerTypeOK
<1> SUFFICES ASSUME PollerInv PROVE PollerTypeOK
  OBVIOUS
<1>1. PollerTyped
  BY DEF PollerInv
<1>2. PollRecord \cup {NotPolling} \subseteq [term : 0 .. MaxTerms, from : 0 .. MaxItems]
  <2>1. \A t \in Term : t \in 0 .. MaxTerms
    BY TermsAreNumbered DEF Term
  <2>2. 0 \in 0 .. MaxTerms /\ 0 \in 0 .. MaxItems
    BY TermsAreNumbered
  <2>3. QED
    BY <2>1, <2>2 DEF PollRecord, NotPolling
<1>3. polls \in [Poll -> [term : 0 .. MaxTerms, from : 0 .. MaxItems]]
  BY <1>1, <1>2 DEF PollerTyped
<1>4. QED
  BY <1>1, <1>3 DEF PollerTyped, PollerTypeOK, StatusRecord, OldRecord

LEMMA PollerItems == PollerInv => NothingSkipped /\ OnlyOverlapRepeats
<1> SUFFICES ASSUME PollerInv, status.term # 0
             PROVE  1 .. status.cursor \subseteq handed[status.term] /\ (status.term \notin twice => handed[status.term] \subseteq 1 .. status.cursor)
  BY DEF NothingSkipped, OnlyOverlapRepeats
<1>1. status.term \in Term /\ Cursors[status.term] = status.cursor
  BY TermsAreNumbered DEF PollerInv, PollerTyped, StatusRecord, Term, Cursors, CursorOf
<1>2. QED
  BY <1>1 DEF PollerInv, Accounted

(* The cursor of a poller never stands past an item that was not handed over,  *)
(* and before one that was only if polls overlapped or the handler threw; for  *)
(* any number of polls, registrations and items (ExternalServicePoller).       *)
THEOREM PollerSkipsNothing == PollerSpec => [](NothingSkipped /\ OnlyOverlapRepeats)
BY PollerItems, PollerStarts, PollerKeeps, PTL DEF PollerSpec

-----------------------------------------------------------------------------
(* WorkflowTriggerManager.                                                     *)

TriggersSpec == TriggersInit /\ [][TriggersNext]_triggerVars

Awaited == [event : Event \cup {Nothing}, left : 0 .. Debounce]
TriggersTyped ==
  /\ bound \subseteq Binding /\ listening \in BOOLEAN /\ pending \in [Binding -> Awaited]
  /\ seenAt \in [Binding -> [Event -> 0 .. Dedupe]]
  /\ counted \in [Binding -> [count : 0 .. MaxTriggers, since : 0 .. Minute]]
  /\ answered \in [Binding -> SUBSET Event] /\ fumbled \in [Binding -> SUBSET Event]
\* Of every binding in use, whether the service listens or not.
HadTheirSay ==
  \A b \in bound : \A e \in Event : Duplicate(b, e) => e \in answered[b] \cup fumbled[b] \/ pending[b].event = e
\* An event that waits has time to go, or is due.
OnlyEventsWait == \A b \in Binding : pending[b].event = Nothing => pending[b].left = 0

TriggersInv == TriggersTyped /\ HadTheirSay /\ OnlyEventsWait

LEMMA TriggersStarts == TriggersInit => TriggersInv
<1> SUFFICES ASSUME TriggersInit PROVE TriggersInv
  OBVIOUS
<1>1. NoEvent \in Awaited /\ NoCount \in [count : 0 .. MaxTriggers, since : 0 .. Minute] /\ Dedupe \in 0 .. Dedupe
  BY TriggerAssumption DEF NoEvent, NoCount, Awaited
<1>2. TriggersTyped
  BY <1>1 DEF TriggersInit, TriggersTyped
<1>3. OnlyEventsWait
  BY DEF TriggersInit, OnlyEventsWait, NoEvent
<1>4. QED
  BY <1>2, <1>3 DEF TriggersInit, TriggersInv, HadTheirSay

LEMMA TriggersKeep == TriggersInv /\ [TriggersNext]_triggerVars => TriggersInv'
<1> SUFFICES ASSUME TriggersInv, [TriggersNext]_triggerVars PROVE TriggersInv'
  OBVIOUS
<1>0. TriggersTyped /\ HadTheirSay /\ OnlyEventsWait
  BY DEF TriggersInv
<1>0a. /\ NoEvent \in Awaited /\ NoCount \in [count : 0 .. MaxTriggers, since : 0 .. Minute] /\ Dedupe \in 0 .. Dedupe
       /\ NoEvent.event = Nothing /\ NoEvent.left = 0 /\ Nothing \notin Event
       /\ Dedupe \in Nat \ {0} /\ Debounce \in Nat \ {0} /\ Minute \in Nat \ {0} /\ MaxTriggers \in Nat \ {0}
  BY TriggerAssumption DEF NoEvent, NoCount, Awaited
<1>1. ASSUME NEW b \in Binding, Bind(b) PROVE TriggersInv'
  <2>1. /\ seenAt[b] = [e \in Event |-> Dedupe] /\ bound' = bound \cup {b} /\ answered' = [answered EXCEPT ![b] = {}]
        /\ fumbled' = [fumbled EXCEPT ![b] = {}] /\ UNCHANGED <<listening, pending, seenAt, counted>>
    BY <1>1 DEF Bind
  <2>2. TriggersTyped'
    BY <1>0, <2>1 DEF TriggersTyped
  <2>3. OnlyEventsWait'
    BY <1>0, <2>1 DEF OnlyEventsWait
  <2>4. ASSUME NEW x \in bound', NEW e \in Event, Duplicate(x, e)' PROVE e \in answered'[x] \cup fumbled'[x] \/ pending'[x].event = e
    <3>1. x # b
      BY <1>0a, <2>1, <2>4 DEF Duplicate
    <3>2. x \in bound /\ x \in Binding /\ Duplicate(x, e) /\ answered'[x] = answered[x] /\ fumbled'[x] = fumbled[x]
      BY <1>0, <2>1, <2>4, <3>1 DEF Duplicate, TriggersTyped
    <3>3. QED
      BY <1>0, <2>1, <3>2 DEF HadTheirSay
  <2>5. QED
    BY <2>2, <2>3, <2>4 DEF TriggersInv, HadTheirSay
<1>2. ASSUME NEW b \in Binding, Unbind(b) PROVE TriggersInv'
  <2>1. /\ bound' = bound \ {b} /\ pending' = [pending EXCEPT ![b] = NoEvent]
        /\ UNCHANGED <<listening, seenAt, counted, answered, fumbled>>
    BY <1>2 DEF Unbind
  <2>2. TriggersTyped'
    BY <1>0, <1>0a, <2>1 DEF TriggersTyped
  <2>3. OnlyEventsWait'
    BY <1>0, <1>0a, <2>1 DEF OnlyEventsWait, TriggersTyped
  <2>4. HadTheirSay'
    BY <1>0, <2>1 DEF HadTheirSay, Duplicate, TriggersTyped
  <2>5. QED
    BY <2>2, <2>3, <2>4 DEF TriggersInv
<1>3. CASE TriggersStart
  BY <1>0, <1>3 DEF TriggersStart, TriggersInv, TriggersTyped, HadTheirSay, OnlyEventsWait, Duplicate
<1>4. CASE TriggersStop
  <2>1. /\ listening' = FALSE /\ pending' = [b \in Binding |-> NoEvent] /\ counted' = [b \in Binding |-> NoCount]
        /\ seenAt' = [b \in Binding |-> [e \in Event |-> Dedupe]] /\ UNCHANGED <<bound, answered, fumbled>>
    BY <1>4 DEF TriggersStop, CacheCleared
  <2>2. TriggersTyped'
    BY <1>0, <1>0a, <2>1 DEF TriggersTyped
  <2>3. OnlyEventsWait'
    BY <1>0a, <2>1 DEF OnlyEventsWait
  <2>4. ASSUME NEW x \in bound', NEW e \in Event PROVE ~Duplicate(x, e)'
    BY <1>0, <1>0a, <2>1 DEF Duplicate, TriggersTyped
  <2>5. QED
    BY <2>2, <2>3, <2>4 DEF TriggersInv, HadTheirSay
<1>5. ASSUME NEW b \in Binding, NEW e \in Event, HandleEvent(b, e) PROVE TriggersInv'
  <2>1. counted' \in [Binding -> [count : 0 .. MaxTriggers, since : 0 .. Minute]]
    <3>1. CheckRateLimit(b) /\ counted[b] \in [count : 0 .. MaxTriggers, since : 0 .. Minute]
          /\ counted' = [counted EXCEPT ![b] = IF NewWindow(b) THEN [count |-> 1, since |-> 0] ELSE [counted[b] EXCEPT !.count = @ + 1]]
      <4>1. CheckRateLimit(b) /\ Counts(b)
        BY <1>5 DEF HandleEvent
      <4>2. counted[b] \in [count : 0 .. MaxTriggers, since : 0 .. Minute]
        BY <1>0 DEF TriggersTyped
      <4>3. QED
        BY <4>1, <4>2, Zenon DEF Counts
    <3> DEFINE new == IF NewWindow(b) THEN [count |-> 1, since |-> 0] ELSE [counted[b] EXCEPT !.count = @ + 1]
    <3>2. CASE NewWindow(b)
      <4>1. new = [count |-> 1, since |-> 0]
        BY <3>2
      <4>2. new \in [count : 0 .. MaxTriggers, since : 0 .. Minute]
        BY <1>0a, <4>1
      <4> HIDE DEF new
      <4>3. QED
        BY <1>0, <3>1, <4>2 DEF TriggersTyped, new
    <3>3. CASE ~NewWindow(b)
      <4>1. new = [counted[b] EXCEPT !.count = @ + 1] /\ counted[b].count < MaxTriggers
        BY <3>1, <3>3 DEF CheckRateLimit
      <4>2. counted[b].count + 1 \in 0 .. MaxTriggers
        BY <1>0a, <3>1, <4>1
      <4>3. new \in [count : 0 .. MaxTriggers, since : 0 .. Minute]
        BY <3>1, <4>1, <4>2
      <4> HIDE DEF new
      <4>4. QED
        BY <1>0, <3>1, <4>3 DEF TriggersTyped, new
    <3>4. QED
      BY <3>2, <3>3
  <2>2. CASE UNCHANGED <<pending, seenAt, answered, fumbled>>
    <3>1. UNCHANGED <<bound, listening>>
      BY <1>5 DEF HandleEvent
    <3>2. QED
      BY <1>0, <2>1, <2>2, <3>1 DEF TriggersInv, TriggersTyped, HadTheirSay, OnlyEventsWait, Duplicate
  <2>3. ASSUME ~Duplicate(b, e), seenAt' = [seenAt EXCEPT ![b][e] = 0]
        PROVE  /\ seenAt' \in [Binding -> [Event -> 0 .. Dedupe]] /\ UNCHANGED <<bound, listening>>
               /\ \A x \in Binding : x # b => seenAt'[x] = seenAt[x]
               /\ \A f \in Event : f # e => seenAt'[b][f] = seenAt[b][f]
    <3>1. UNCHANGED <<bound, listening>>
      BY <1>5 DEF HandleEvent
    <3>2. 0 \in 0 .. Dedupe
      BY <1>0a
    <3>3. QED
      BY <1>0, <2>3, <3>1, <3>2 DEF TriggersTyped
  <2>4. CASE ~Duplicate(b, e) /\ seenAt' = [seenAt EXCEPT ![b][e] = 0] /\ Fumbles(b, e)
    <3>1. /\ fumbled' = [fumbled EXCEPT ![b] = fumbled[b] \cup {e}] /\ answered' = [answered EXCEPT ![b] = answered[b] \ {e}]
          /\ UNCHANGED pending
      BY <2>4 DEF Fumbles
    <3>2. TriggersTyped'
      BY <1>0, <2>1, <2>3, <2>4, <3>1 DEF TriggersTyped
    <3>3. OnlyEventsWait'
      BY <1>0, <3>1 DEF OnlyEventsWait
    <3>4. ASSUME NEW x \in bound', NEW f \in Event, Duplicate(x, f)'
          PROVE  f \in answered'[x] \cup fumbled'[x] \/ pending'[x].event = f
      <4>1. x \in bound /\ x \in Binding
        BY <1>0, <2>3, <2>4, <3>4 DEF TriggersTyped
      <4>2. CASE x = b /\ f = e
        <5>1. fumbled'[b] = fumbled[b] \cup {e}
          BY <1>0, <3>1 DEF TriggersTyped
        <5>2. QED
          BY <4>2, <5>1
      <4>3. CASE ~(x = b /\ f = e)
        <5>1. Duplicate(x, f)
          BY <2>3, <2>4, <3>4, <4>1, <4>3 DEF Duplicate
        <5>2. f \in answered[x] \cup fumbled[x] \/ pending[x].event = f
          BY <1>0, <4>1, <5>1 DEF HadTheirSay
        <5>3. /\ f \in answered[x] => f \in answered'[x]
              /\ f \in fumbled[x] => f \in fumbled'[x]
          BY <1>0, <3>1, <4>1, <4>3 DEF TriggersTyped
        <5>4. QED
          BY <3>1, <5>2, <5>3
      <4>4. QED
        BY <4>2, <4>3
    <3>5. QED
      BY <3>2, <3>3, <3>4 DEF TriggersInv, HadTheirSay
  <2>5. CASE ~Duplicate(b, e) /\ seenAt' = [seenAt EXCEPT ![b][e] = 0] /\ FiresOrWaits(b, e)
    <3>1. /\ fumbled' = [fumbled EXCEPT ![b] = fumbled[b] \ {e}]
          /\ IF b \in Debounced
             THEN /\ pending' = [pending EXCEPT ![b] = [event |-> e, left |-> Debounce]]
                  /\ answered' = [answered EXCEPT ![b] = (answered[b] \cup {pending[b].event}) \ {e, Nothing}]
             ELSE answered' = [answered EXCEPT ![b] = answered[b] \cup {e}] /\ UNCHANGED pending
      BY <2>5 DEF FiresOrWaits
    <3>2. /\ answered' \in [Binding -> SUBSET Event] /\ \A x \in Binding : x # b => answered'[x] = answered[x]
          /\ \A f \in Event : f # e /\ (f \in answered[b] \/ pending[b].event = f)
                               => f \in answered'[b] \/ pending'[b].event = f
      <4>1. CASE b \in Debounced
        <5>1. (answered[b] \cup {pending[b].event}) \ {e, Nothing} \subseteq Event
          <6>1. pending[b].event \in Event \cup {Nothing} /\ answered[b] \subseteq Event
            BY <1>0 DEF TriggersTyped, Awaited
          <6>2. QED
            BY <6>1
        <5>2. answered'[b] = (answered[b] \cup {pending[b].event}) \ {e, Nothing}
          BY <1>0, <3>1, <4>1 DEF TriggersTyped
        <5>3. QED
          BY <1>0, <1>0a, <3>1, <4>1, <5>1, <5>2 DEF TriggersTyped
      <4>2. CASE b \notin Debounced
        <5>1. answered' = [answered EXCEPT ![b] = answered[b] \cup {e}] /\ pending' = pending
          BY <3>1, <4>2
        <5>2. answered \in [Binding -> SUBSET Event] /\ answered[b] \cup {e} \in SUBSET Event
          BY <1>0 DEF TriggersTyped
        <5>3. answered' \in [Binding -> SUBSET Event]
          BY <5>1, <5>2
        <5>4. \A x \in Binding : answered'[x] = IF x = b THEN answered[b] \cup {e} ELSE answered[x]
          BY <5>1, <5>2
        <5>5. QED
          BY <5>1, <5>3, <5>4
      <4>3. QED
        BY <4>1, <4>2
    <3>3. /\ pending' \in [Binding -> Awaited] /\ OnlyEventsWait' /\ \A x \in Binding : x # b => pending'[x] = pending[x]
          /\ e \in answered'[b] \/ pending'[b].event = e
      <4>1. CASE b \in Debounced
        <5>1. [event |-> e, left |-> Debounce] \in Awaited
          BY <1>0a DEF Awaited
        <5>2. \A x \in Binding : pending'[x] = IF x = b THEN [event |-> e, left |-> Debounce] ELSE pending[x]
          BY <1>0, <3>1, <4>1 DEF TriggersTyped
        <5>3. OnlyEventsWait'
          BY <1>0, <1>0a, <5>2 DEF OnlyEventsWait
        <5>4. pending' \in [Binding -> Awaited]
          BY <1>0, <3>1, <4>1, <5>1 DEF TriggersTyped
        <5>5. QED
          BY <5>2, <5>3, <5>4
      <4>2. CASE b \notin Debounced
        BY <1>0, <3>1, <4>2 DEF TriggersTyped, OnlyEventsWait
      <4>3. QED
        BY <4>1, <4>2
    <3>4. fumbled' \in [Binding -> SUBSET Event] /\ \A x \in Binding : fumbled'[x] = IF x = b THEN fumbled[b] \ {e} ELSE fumbled[x]
      BY <1>0, <3>1 DEF TriggersTyped
    <3>5. TriggersTyped'
      BY <1>0, <2>1, <2>3, <2>5, <3>2, <3>3, <3>4 DEF TriggersTyped
    <3>6. ASSUME NEW x \in bound', NEW f \in Event, Duplicate(x, f)'
          PROVE  f \in answered'[x] \cup fumbled'[x] \/ pending'[x].event = f
      <4>1. x \in bound /\ x \in Binding
        BY <1>0, <2>3, <2>5, <3>6 DEF TriggersTyped
      <4>2. CASE x = b /\ f = e
        BY <3>3, <4>2
      <4>3. CASE ~(x = b /\ f = e)
        <5>1. Duplicate(x, f)
          BY <2>3, <2>5, <3>6, <4>1, <4>3 DEF Duplicate
        <5>2. f \in answered[x] \cup fumbled[x] \/ pending[x].event = f
          BY <1>0, <4>1, <5>1 DEF HadTheirSay
        <5>3. f \in fumbled[x] => f \in fumbled'[x]
          BY <3>4, <4>1, <4>3
        <5>4. QED
          BY <3>2, <3>3, <4>1, <4>3, <5>2, <5>3
      <4>4. QED
        BY <4>2, <4>3
    <3>7. QED
      BY <3>3, <3>5, <3>6 DEF TriggersInv, HadTheirSay
  <2>6. QED
    BY <1>5, <2>2, <2>4, <2>5 DEF HandleEvent
<1>6. ASSUME NEW b \in Binding, FireTrigger(b) PROVE TriggersInv'
  <2>1. /\ pending[b] # NoEvent /\ pending[b].left = 0 /\ answered' = [answered EXCEPT ![b] = @ \cup {pending[b].event}]
        /\ pending' = [pending EXCEPT ![b] = NoEvent] /\ UNCHANGED <<bound, listening, seenAt, counted, fumbled>>
    BY <1>6 DEF FireTrigger
  <2>2. pending[b].event \in Event
    <3>1. pending[b] \in Awaited
      BY <1>0 DEF TriggersTyped
    <3>2. pending[b].event # Nothing
      BY <2>1, <3>1 DEF NoEvent, Awaited
    <3>3. QED
      BY <3>1, <3>2 DEF Awaited
  <2>3. TriggersTyped'
    BY <1>0, <1>0a, <2>1, <2>2 DEF TriggersTyped
  <2>4. OnlyEventsWait'
    BY <1>0, <1>0a, <2>1 DEF OnlyEventsWait, TriggersTyped
  <2>5. ASSUME NEW x \in bound', NEW e \in Event, Duplicate(x, e)' PROVE e \in answered'[x] \cup fumbled'[x] \/ pending'[x].event = e
    <3>1. x \in bound /\ x \in Binding /\ Duplicate(x, e)
      BY <1>0, <2>1, <2>5 DEF Duplicate, TriggersTyped
    <3>2. e \in answered[x] \cup fumbled[x] \/ pending[x].event = e
      BY <1>0, <3>1 DEF HadTheirSay
    <3>3. CASE x = b
      BY <1>0, <2>1, <3>2, <3>3 DEF TriggersTyped
    <3>4. CASE x # b
      BY <1>0, <2>1, <3>1, <3>2, <3>4 DEF TriggersTyped
    <3>5. QED
      BY <3>3, <3>4
  <2>6. QED
    BY <2>3, <2>4, <2>5 DEF TriggersInv, HadTheirSay
<1>7. CASE TriggersTick
  <2>1. /\ \A b \in Binding : pending[b] = NoEvent \/ pending[b].left > 0
        /\ pending' = [b \in Binding |-> IF pending[b] = NoEvent THEN NoEvent ELSE [pending[b] EXCEPT !.left = @ - 1]]
        /\ seenAt' = [b \in Binding |-> [e \in Event |-> IF Duplicate(b, e) THEN seenAt[b][e] + 1 ELSE Dedupe]]
        /\ counted' = [b \in Binding |-> IF NewWindow(b) \/ counted[b].since + 1 = Minute THEN NoCount
                                         ELSE [counted[b] EXCEPT !.since = @ + 1]]
        /\ UNCHANGED <<bound, listening, answered, fumbled>>
    BY <1>7 DEF TriggersTick
  <2>2. ASSUME NEW b \in Binding
        PROVE  /\ pending'[b] \in Awaited /\ pending'[b].event = pending[b].event
               /\ pending'[b].event = Nothing => pending'[b].left = 0
    <3>1. pending[b] \in Awaited /\ (pending[b].event = Nothing => pending[b].left = 0)
      BY <1>0 DEF TriggersTyped, OnlyEventsWait
    <3>2. CASE pending[b] = NoEvent
      BY <1>0a, <2>1, <3>2
    <3>3. CASE pending[b] # NoEvent
      <4>1. pending'[b] = [pending[b] EXCEPT !.left = @ - 1] /\ pending[b].left > 0
        BY <2>1, <3>3
      <4>2. pending[b].left - 1 \in 0 .. Debounce
        BY <1>0a, <3>1, <4>1 DEF Awaited
      <4>3. QED
        BY <3>1, <4>1, <4>2 DEF Awaited
    <3>4. QED
      BY <3>2, <3>3
  <2>3. ASSUME NEW b \in Binding, NEW e \in Event
        PROVE  seenAt'[b][e] \in 0 .. Dedupe /\ (Duplicate(b, e)' => Duplicate(b, e))
    <3>1. seenAt[b][e] \in 0 .. Dedupe /\ seenAt'[b][e] = IF Duplicate(b, e) THEN seenAt[b][e] + 1 ELSE Dedupe
      BY <1>0, <2>1 DEF TriggersTyped
    <3>2. QED
      BY <1>0a, <3>1 DEF Duplicate
  <2>4. ASSUME NEW b \in Binding
        PROVE  counted'[b] \in [count : 0 .. MaxTriggers, since : 0 .. Minute]
    <3>1. counted[b] \in [count : 0 .. MaxTriggers, since : 0 .. Minute]
      BY <1>0 DEF TriggersTyped
    <3>2. CASE NewWindow(b) \/ counted[b].since + 1 = Minute
      BY <1>0a, <2>1, <3>2
    <3>3. CASE ~(NewWindow(b) \/ counted[b].since + 1 = Minute)
      <4>1. counted'[b] = [counted[b] EXCEPT !.since = @ + 1] /\ ~(counted[b].since >= Minute)
        BY <2>1, <3>3 DEF NewWindow
      <4>2. counted[b].since + 1 \in 0 .. Minute
        BY <1>0a, <3>1, <4>1
      <4>3. QED
        BY <3>1, <4>1, <4>2
    <3>4. QED
      BY <3>2, <3>3
  <2>5. pending' \in [Binding -> Awaited]
    BY <2>1, <2>2
  <2>6. seenAt' \in [Binding -> [Event -> 0 .. Dedupe]]
    BY <2>1, <2>3
  <2>7. counted' \in [Binding -> [count : 0 .. MaxTriggers, since : 0 .. Minute]]
    BY <2>1, <2>4
  <2>8. TriggersTyped'
    BY <1>0, <2>1, <2>5, <2>6, <2>7 DEF TriggersTyped
  <2>9. OnlyEventsWait'
    BY <2>2 DEF OnlyEventsWait
  <2>10. HadTheirSay'
    BY <1>0, <2>1, <2>2, <2>3 DEF HadTheirSay, TriggersTyped
  <2>11. QED
    BY <2>8, <2>9, <2>10 DEF TriggersInv
<1>8. CASE UNCHANGED triggerVars
  BY <1>0, <1>8 DEF triggerVars, TriggersInv, TriggersTyped, HadTheirSay, OnlyEventsWait, Duplicate
<1>9. QED
  BY <1>1, <1>2, <1>3, <1>4, <1>5, <1>6, <1>7, <1>8 DEF TriggersNext

LEMMA TriggersTypes == TriggersInv => TriggersTypeOK
BY DEF TriggersInv, TriggersTyped, TriggersTypeOK, Awaited

(* An event that would be dropped as a repeat has had its say: the one it      *)
(* repeats fired, waits or gave way to a later one, unless the transform threw *)
(* for it; for any bindings, events and windows (WorkflowTriggerManager).      *)
THEOREM RepeatsHadTheirSay == TriggersSpec => []DuplicatesWereAnswered
<1>1. TriggersInv => DuplicatesWereAnswered
  BY DEF TriggersInv, HadTheirSay, DuplicatesWereAnswered
<1> QED
  BY <1>1, TriggersStarts, TriggersKeep, PTL DEF TriggersSpec

-----------------------------------------------------------------------------
(* ArtifactTransfer.                                                           *)

ArtifactSpec == ArtifactInit /\ [][ArtifactNext]_artifactVars

ArtifactTyped ==
  /\ artifacts \in [Artifact -> Info \cup {NotListed}] /\ uploading \in [Artifact -> Info \cup {NotListed}]
  /\ held \subseteq Artifact /\ readers \in [AccessList -> SUBSET Reader]
  /\ cleaning \in [on : BOOLEAN, due : SUBSET Artifact]

\* No artifact is listed while it is uploaded.
ArtifactInv == ArtifactTyped /\ held = Listed \cup Uploading /\ Listed \cap Uploading = {}

LEMMA InfoIsListed == NotListed \notin Info
BY ArtifactAssumption DEF NotListed, Info

LEMMA ArtifactsStart == ArtifactInit => ArtifactInv
<1> SUFFICES ASSUME ArtifactInit PROVE ArtifactInv
  OBVIOUS
<1>1. ArtifactTyped
  BY DEF ArtifactInit, ArtifactTyped
<1>2. Listed = {} /\ Uploading = {} /\ held = {}
  BY DEF ArtifactInit, Listed, Uploading
<1>3. QED
  BY <1>1, <1>2 DEF ArtifactInv

LEMMA OlderInfo ==
  ASSUME NEW info \in Info \cup {NotListed}
  PROVE  Older(info) \in Info \cup {NotListed} /\ (Older(info) = NotListed <=> info = NotListed)
<1>1. CASE info \in Info
  <2>1. info.left \in Nat
    BY <1>1 DEF Info
  <2>2. Older(info) \in Info
    <3>1. CASE info.left > 0
      <4>1. Older(info) = [info EXCEPT !.left = info.left - 1] /\ info.left - 1 \in Nat
        BY <2>1, <3>1 DEF Older
      <4>2. QED
        BY <1>1, <4>1 DEF Info
    <3>2. CASE ~(info.left > 0)
      BY <1>1, <3>2 DEF Older
    <3>3. QED
      BY <3>1, <3>2
  <2>3. QED
    BY <1>1, <2>2, InfoIsListed
<1>2. CASE info = NotListed
  BY <1>2 DEF Older, NotListed
<1>3. QED
  BY <1>1, <1>2

LEMMA ArtifactsKeep == ArtifactInv /\ [ArtifactNext]_artifactVars => ArtifactInv'
<1> SUFFICES ASSUME ArtifactInv, [ArtifactNext]_artifactVars PROVE ArtifactInv'
  OBVIOUS
<1>0. ArtifactTyped /\ held = Listed \cup Uploading /\ Listed \cap Uploading = {}
  BY DEF ArtifactInv
<1>1. ASSUME NEW a \in Artifact, NEW list \in AccessList, NEW ttl \in Ttls, UploadArtifact(a, list, ttl) PROVE ArtifactInv'
  <2> DEFINE new == [list |-> list, left |-> ttl, ttl |-> ttl]
  <2>1. /\ a \notin Listed \cup Uploading /\ held' = held \cup {a}
        /\ uploading' = [uploading EXCEPT ![a] = new] /\ UNCHANGED <<artifacts, readers, cleaning>>
    BY <1>1 DEF UploadArtifact
  <2>2. new \in Info
    BY ArtifactAssumption DEF Info
  <2> HIDE DEF new
  <2>3. ArtifactTyped'
    BY <1>0, <2>1, <2>2 DEF ArtifactTyped
  <2>4. Listed' = Listed
    BY <2>1 DEF Listed
  <2>5. Uploading' = Uploading \cup {a}
    BY <1>0, <2>1, <2>2, InfoIsListed DEF Uploading, ArtifactTyped
  <2>6. QED
    BY <1>0, <2>1, <2>3, <2>4, <2>5 DEF ArtifactInv
<1>2. ASSUME NEW a \in Artifact, UploadListed(a) PROVE ArtifactInv'
  <2>1. /\ a \in Uploading /\ artifacts' = [artifacts EXCEPT ![a] = uploading[a]]
        /\ uploading' = [uploading EXCEPT ![a] = NotListed] /\ UNCHANGED <<held, readers, cleaning>>
    BY <1>2 DEF UploadListed
  <2>2. ArtifactTyped'
    BY <1>0, <2>1 DEF ArtifactTyped
  <2>3. Listed' = Listed \cup {a} /\ Uploading' = Uploading \ {a}
    BY <1>0, <2>1 DEF Listed, Uploading, ArtifactTyped
  <2>4. QED
    BY <1>0, <2>1, <2>2, <2>3 DEF ArtifactInv
<1>3. ASSUME NEW a \in Artifact, NEW r \in Reader, ShareArtifact(a, r) PROVE ArtifactInv'
  <2>1. a \in Listed /\ readers' = [readers EXCEPT ![artifacts[a].list] = @ \cup {r}] /\ UNCHANGED <<artifacts, held, uploading, cleaning>>
    BY <1>3 DEF ShareArtifact
  <2>2. artifacts[a].list \in AccessList
    BY <1>0, <2>1 DEF ArtifactTyped, Listed, Info
  <2>3. ArtifactTyped'
    BY <1>0, <2>1, <2>2 DEF ArtifactTyped
  <2>4. Listed' = Listed /\ Uploading' = Uploading
    BY <2>1 DEF Listed, Uploading
  <2>5. QED
    BY <1>0, <2>1, <2>3, <2>4 DEF ArtifactInv
<1>4. ASSUME NEW a \in Artifact, DeleteArtifact(a) PROVE ArtifactInv'
  <2>1. /\ a \in Listed /\ held' = held \ {a} /\ artifacts' = [artifacts EXCEPT ![a] = NotListed]
        /\ cleaning' = [cleaning EXCEPT !.due = @ \ {a}] /\ UNCHANGED <<uploading, readers>>
    BY <1>4 DEF DeleteArtifact, Deletable
  <2>2. ArtifactTyped'
    BY <1>0, <2>1 DEF ArtifactTyped
  <2>3. Listed' = Listed \ {a} /\ Uploading' = Uploading
    BY <1>0, <2>1 DEF Listed, Uploading, ArtifactTyped
  <2>4. QED
    BY <1>0, <2>1, <2>2, <2>3 DEF ArtifactInv
<1>5. CASE CleanupBegins \/ CleanupEnds
  <2>1. UNCHANGED <<artifacts, held, uploading, readers>> /\ cleaning' \in [on : BOOLEAN, due : SUBSET Artifact]
    <3>1. CASE CleanupBegins
      <4>1. cleaning' = [on |-> TRUE, due |-> {a \in Artifact : Expired(artifacts[a]) \/ Expired(uploading[a])}]
            /\ UNCHANGED <<artifacts, held, uploading, readers>>
        BY <3>1 DEF CleanupBegins
      <4>2. {a \in Artifact : Expired(artifacts[a]) \/ Expired(uploading[a])} \in SUBSET Artifact
        OBVIOUS
      <4>3. QED
        BY <4>1, <4>2
    <3>2. CASE CleanupEnds
      BY <3>2 DEF CleanupEnds
    <3>3. QED
      BY <1>5, <3>1, <3>2
  <2>2. ArtifactTyped' /\ Listed' = Listed /\ Uploading' = Uploading
    BY <1>0, <2>1 DEF ArtifactTyped, Listed, Uploading
  <2>3. QED
    BY <1>0, <2>1, <2>2 DEF ArtifactInv
<1>6. CASE ArtifactTick
  <2>1. /\ artifacts' = [a \in Artifact |-> Older(artifacts[a])] /\ uploading' = [a \in Artifact |-> Older(uploading[a])]
        /\ UNCHANGED <<held, readers, cleaning>>
    BY <1>6 DEF ArtifactTick
  <2>2. ASSUME NEW a \in Artifact
        PROVE  /\ artifacts[a] \in Info \cup {NotListed} /\ uploading[a] \in Info \cup {NotListed}
    BY <1>0 DEF ArtifactTyped
  <2>3. ASSUME NEW a \in Artifact
        PROVE  /\ artifacts'[a] \in Info \cup {NotListed} /\ (artifacts'[a] = NotListed <=> artifacts[a] = NotListed)
               /\ uploading'[a] \in Info \cup {NotListed} /\ (uploading'[a] = NotListed <=> uploading[a] = NotListed)
    BY <2>1, <2>2, OlderInfo
  <2>4. artifacts' \in [Artifact -> Info \cup {NotListed}] /\ uploading' \in [Artifact -> Info \cup {NotListed}]
    BY <2>1, <2>3
  <2>5. ArtifactTyped'
    BY <1>0, <2>1, <2>4 DEF ArtifactTyped
  <2>6. Listed' = Listed /\ Uploading' = Uploading
    BY <2>3 DEF Listed, Uploading
  <2>7. QED
    BY <1>0, <2>1, <2>5, <2>6 DEF ArtifactInv
<1>7. CASE UNCHANGED artifactVars
  BY <1>0, <1>7 DEF artifactVars, ArtifactInv, ArtifactTyped, Listed, Uploading
<1>8. QED
  BY <1>1, <1>2, <1>3, <1>4, <1>5, <1>6, <1>7 DEF ArtifactNext, CleanupDeletes

LEMMA ArtifactTypes == ArtifactInv => ArtifactTypeOK
BY DEF ArtifactInv, ArtifactTyped, ArtifactTypeOK

(* An artifact that is listed has its data, and there is no data that nothing  *)
(* lists or is about to list, for any artifacts and arrays of readers and      *)
(* whatever uploads, deletes and cleanups do between each other's awaits       *)
(* (ArtifactTransfer).                                                         *)
THEOREM ListedArtifactsAreHeld == ArtifactSpec => []ListedIsHeld
<1>1. ArtifactInv => ListedIsHeld
  <2> SUFFICES ASSUME ArtifactInv PROVE ListedIsHeld
    OBVIOUS
  <2>1. held = Listed \cup Uploading
    BY DEF ArtifactInv
  <2>2. ASSUME NEW a \in Artifact, NEW r \in Reader PROVE Download(a, r) # "lost"
    BY <2>1 DEF Download
  <2>3. QED
    BY <2>1, <2>2 DEF ListedIsHeld
<1> QED
  BY <1>1, ArtifactsStart, ArtifactsKeep, PTL DEF ArtifactSpec

-----------------------------------------------------------------------------
(* Session checkpoints.                                                       *)

LEMMA CheckpointBounds == MaxCheckpoints \in Nat /\ MaxCheckpoints >= 1 /\ MaxSaves \in Nat /\ MaxLives \in Nat
BY CheckpointAssumption

SavedRecord == [version : Number, transient : BOOLEAN]
WriteRecord == [save : Number, at : {"version", "latest"}, alive : BOOLEAN]
HowMany(l, before) == IF l - before < MaxCheckpoints THEN l - before ELSE MaxCheckpoints
\* The checkpoints in memory are the last ones of this life.
Newest(cs, l, before) ==
  /\ cs \in Seq(Nat) /\ Len(cs) = HowMany(l, before)
  /\ \A k \in 1 .. Len(cs) : cs[k] = l - HowMany(l, before) + k
CheckpointsTyped ==
  /\ saved \in Seq(SavedRecord) /\ Len(saved) <= MaxSaves
  /\ life \in [ends : 0 .. MaxLives, before : Nat] /\ life.before <= Len(saved)
  /\ version = Len(saved) - life.before
  /\ Newest(checkpoints, Len(saved), life.before)
  /\ latest \in 0 .. Len(saved) /\ versioned \in [Number -> 0 .. Len(saved)]
  /\ writing \subseteq WriteRecord /\ \A w \in writing : w.save <= Len(saved)
  /\ taken \subseteq 1 .. Len(saved) /\ together \subseteq Number \X Number
\* What is found under a key in place of n.
Covers(f, n) == f >= n \/ <<f, n>> \in together
UnderVersion(n) == versioned[saved[n].version]
\* Whoever saved while a write was on its way crossed it.
Crossed0 == \A w \in writing : \A n \in 1 .. Len(saved) : Covers(w.save, n)
LatestCovers == \A n \in taken : Covers(latest, n)
VersionsCover ==
  /\ \A n \in taken : Covers(UnderVersion(n), n)
  /\ \A w \in writing : w.at = "latest" => Covers(UnderVersion(w.save), w.save)
CheckpointInv == CheckpointsTyped /\ Crossed0 /\ LatestCovers /\ VersionsCover

LEMMA SavesAreNumbered ==
  ASSUME CheckpointsTyped
  PROVE  /\ Len(saved) \in Nat /\ life.before \in Nat /\ MaxSaves \in Nat
         /\ \A n \in 1 .. Len(saved) : n \in Number /\ n \in Nat /\ saved[n] \in SavedRecord /\ saved[n].version \in Number
         /\ \A n \in 1 .. Len(saved) : UnderVersion(n) \in 0 .. Len(saved)
         /\ \A w \in writing : w \in WriteRecord /\ w.save \in 1 .. Len(saved)
         /\ HowMany(Len(saved), life.before) \in Nat
<1>1. Len(saved) \in Nat /\ life.before \in Nat /\ life.before <= Len(saved)
  BY LenProperties DEF CheckpointsTyped
<1>2. ASSUME NEW n \in 1 .. Len(saved) PROVE n \in Number /\ n \in Nat /\ saved[n] \in SavedRecord /\ saved[n].version \in Number
  <2>1. n \in Number /\ n \in Nat
    BY <1>1, CheckpointBounds DEF CheckpointsTyped, Number
  <2>2. saved[n] \in SavedRecord
    BY LenProperties DEF CheckpointsTyped
  <2>3. QED
    BY <2>1, <2>2 DEF SavedRecord
<1>3. \A n \in 1 .. Len(saved) : UnderVersion(n) \in 0 .. Len(saved)
  BY <1>2 DEF UnderVersion, CheckpointsTyped
<1>4. \A w \in writing : w \in WriteRecord /\ w.save \in 1 .. Len(saved)
  BY <1>1, CheckpointBounds DEF CheckpointsTyped, WriteRecord, Number
<1>5. HowMany(Len(saved), life.before) \in Nat
  BY <1>1, CheckpointBounds DEF HowMany
<1>6. QED
  BY <1>1, <1>2, <1>3, <1>4, <1>5, CheckpointBounds

LEMMA NoneAreNewest == ASSUME NEW l \in Nat PROVE Newest(<<>>, l, l)
<1>1. HowMany(l, l) = 0
  BY CheckpointBounds DEF HowMany
<1>2. QED
  BY <1>1 DEF Newest

LEMMA NextIsNewest ==
  ASSUME NEW l \in Nat, NEW before \in Nat, before <= l, NEW cs, Newest(cs, l, before)
  PROVE  Newest(Kept(Append(cs, l + 1)), l + 1, before)
<1> DEFINE all == Append(cs, l + 1)
           h == HowMany(l, before)
           i == HowMany(l + 1, before)
<1>1. cs \in Seq(Nat) /\ Len(cs) = h /\ h \in Nat /\ \A k \in 1 .. h : cs[k] = l - h + k
  BY CheckpointBounds DEF Newest, HowMany
<1>2. all \in Seq(Nat) /\ Len(all) = h + 1 /\ (\A k \in 1 .. h : all[k] = cs[k]) /\ all[h + 1] = l + 1
  BY <1>1, AppendProperties
<1>3. ASSUME NEW k \in 1 .. h + 1 PROVE all[k] = l - h + k
  <2>1. k \in 1 .. h \/ k = h + 1
    BY <1>1
  <2> HIDE DEF all, h
  <2>2. l - h + (h + 1) = l + 1
    BY <1>1
  <2>3. QED
    BY <1>1, <1>2, <2>1, <2>2
<1>4. CASE h + 1 <= MaxCheckpoints
  <2>1. i = h + 1 /\ Kept(all) = all
    BY <1>1, <1>2, <1>4, CheckpointBounds DEF Kept, HowMany
  <2>2. \A k \in 1 .. Len(all) : all[k] = (l + 1) - i + k
    <3> HIDE DEF all, h, i
    <3>1. ASSUME NEW k \in 1 .. h + 1 PROVE all[k] = (l + 1) - i + k
      BY <1>1, <1>3, <2>1
    <3>2. QED
      BY <1>2, <3>1
  <2> HIDE DEF all, h
  <2>3. QED
    BY <1>2, <2>1, <2>2 DEF Newest, all
<1>5. CASE ~(h + 1 <= MaxCheckpoints)
  <2>1. i = h /\ h = MaxCheckpoints /\ Kept(all) = Tail(all)
    BY <1>1, <1>2, <1>5, CheckpointBounds DEF Kept, HowMany
  <2>2. Tail(all) \in Seq(Nat) /\ Len(Tail(all)) = h /\ \A k \in 1 .. h : Tail(all)[k] = all[k + 1]
    <3>1. all # <<>>
      <4> HIDE DEF all
      <4>1. Len(<<>>) = 0
        OBVIOUS
      <4>2. QED
        BY <1>1, <1>2, <4>1
    <3> HIDE DEF all, h
    <3>2. QED
      BY <1>1, <1>2, <3>1, HeadTailProperties
  <2>3. ASSUME NEW k \in 1 .. h PROVE Tail(all)[k] = (l + 1) - i + k
    <3> HIDE DEF all, h, i
    <3>1. k + 1 \in 1 .. h + 1
      BY <1>1
    <3>2. all[k + 1] = l - h + (k + 1)
      BY <1>3, <3>1
    <3>3. QED
      BY <1>1, <2>1, <2>2, <3>2
  <2>4. QED
    BY <2>1, <2>2, <2>3 DEF Newest
<1>6. QED
  BY <1>4, <1>5

LEMMA CheckpointStarts == CheckpointInit => CheckpointInv
<1> SUFFICES ASSUME CheckpointInit PROVE CheckpointInv
  OBVIOUS
<1>1. saved = <<>> /\ Len(saved) = 0 /\ checkpoints = <<>> /\ version = 0 /\ latest = 0 /\ versioned = [v \in Number |-> 0]
      /\ writing = {} /\ life = [ends |-> 0, before |-> 0] /\ taken = {} /\ together = {}
  BY DEF CheckpointInit
<1>2. Newest(checkpoints, Len(saved), life.before)
  BY <1>1, NoneAreNewest
<1>3. life \in [ends : 0 .. MaxLives, before : Nat] /\ life.before = 0
  BY <1>1, CheckpointBounds
<1>4. CheckpointsTyped
  BY <1>1, <1>2, <1>3, CheckpointBounds DEF CheckpointsTyped
<1>5. QED
  BY <1>1, <1>4 DEF CheckpointInv, Crossed0, LatestCovers, VersionsCover

LEMMA SaveKeeps ==
  ASSUME CheckpointInv, NEW transient \in BOOLEAN, Save(transient)
  PROVE  CheckpointInv'
<1> DEFINE l == Len(saved)
           n == Len(saved) + 1
           rec == [version |-> version + 1, transient |-> transient]
<1>0. CheckpointsTyped /\ Crossed0 /\ LatestCovers /\ VersionsCover
  BY DEF CheckpointInv
<1>0a. /\ l \in Nat /\ life.before \in Nat /\ life.before <= l /\ MaxSaves \in Nat /\ version = l - life.before
       /\ \A m \in 1 .. l : m \in Nat /\ UnderVersion(m) \in 0 .. l
       /\ \A w \in writing : w \in WriteRecord /\ w.save \in 1 .. l
       /\ saved \in Seq(SavedRecord)
  BY <1>0, SavesAreNumbered DEF CheckpointsTyped
<1>1. /\ n <= MaxSaves /\ version' = version + 1 /\ saved' = Append(saved, rec)
      /\ checkpoints' = Kept(Append(checkpoints, n))
      /\ writing' = writing \cup {[save |-> n, at |-> "version", alive |-> TRUE]}
      /\ together' = together \cup {<<w.save, n>> : w \in writing}
      /\ UNCHANGED <<latest, versioned, life, taken>>
  BY DEF Save
<1>2. rec \in SavedRecord /\ n \in Number
  BY <1>0a, <1>1 DEF SavedRecord, Number
<1> HIDE DEF rec
<1>3. saved' \in Seq(SavedRecord) /\ Len(saved') = n /\ \A m \in 1 .. l : saved'[m] = saved[m]
  BY <1>0a, <1>1, <1>2, AppendProperties
<1>4. Newest(checkpoints', Len(saved'), life'.before)
  <2>1. Newest(checkpoints, l, life.before)
    BY <1>0 DEF CheckpointsTyped
  <2>2. Newest(Kept(Append(checkpoints, l + 1)), l + 1, life.before)
    BY <1>0a, <2>1, NextIsNewest
  <2>3. QED
    BY <1>1, <1>3, <2>2
<1>5. [save |-> n, at |-> "version", alive |-> TRUE] \in WriteRecord
  BY <1>2 DEF WriteRecord
<1>6. together' \subseteq Number \X Number
  <2>1. \A w \in writing : w.save \in Number
    BY <1>0a DEF WriteRecord
  <2>2. QED
    BY <1>0, <1>1, <1>2, <2>1 DEF CheckpointsTyped
<1>7. CheckpointsTyped'
  <2>1. saved' \in Seq(SavedRecord) /\ Len(saved') <= MaxSaves /\ life'.before <= Len(saved') /\ version' = Len(saved') - life'.before
    BY <1>0a, <1>1, <1>3
  <2>2. life' \in [ends : 0 .. MaxLives, before : Nat]
    BY <1>0, <1>1 DEF CheckpointsTyped
  <2>3. latest' \in 0 .. Len(saved') /\ versioned' \in [Number -> 0 .. Len(saved')] /\ taken' \subseteq 1 .. Len(saved')
    <3>1. latest \in 0 .. l /\ versioned \in [Number -> 0 .. l] /\ taken \subseteq 1 .. l
      BY <1>0 DEF CheckpointsTyped
    <3>2. 0 .. l \subseteq 0 .. n /\ 1 .. l \subseteq 1 .. n
      BY <1>0a
    <3>3. \A v \in Number : versioned[v] \in 0 .. n
      BY <3>1, <3>2
    <3>4. versioned \in [Number -> 0 .. n]
      BY <3>1, <3>3
    <3> HIDE DEF l, n
    <3>5. QED
      BY <1>1, <1>3, <3>1, <3>2, <3>4
  <2>4. writing' \subseteq WriteRecord /\ \A w \in writing' : w.save <= Len(saved')
    <3> DEFINE v == [save |-> n, at |-> "version", alive |-> TRUE]
    <3>1. \A w \in writing : w \in WriteRecord /\ w.save <= n
      BY <1>0a
    <3>2. v \in WriteRecord /\ v.save <= n
      BY <1>0a, <1>5
    <3>3. writing' = writing \cup {v}
      BY <1>1
    <3> HIDE DEF v, n
    <3>4. QED
      BY <1>3, <3>1, <3>2, <3>3
  <2>5. QED
    BY <1>4, <1>6, <2>1, <2>2, <2>3, <2>4 DEF CheckpointsTyped
<1>8. ASSUME NEW f, NEW m, Covers(f, m) PROVE Covers(f, m)'
  BY <1>1, <1>8 DEF Covers
<1>9. Crossed0'
  <2>1. ASSUME NEW w \in writing', NEW m \in 1 .. n PROVE Covers(w.save, m)'
    <3>1. CASE w \in writing /\ m \in 1 .. l
      BY <1>0, <1>8, <3>1 DEF Crossed0
    <3>2. CASE w \in writing /\ m = n
      BY <1>1, <3>2 DEF Covers
    <3>3. CASE w.save = n
      BY <1>0a, <3>3 DEF Covers
    <3>4. m \in 1 .. l \/ m = n
      BY <1>0a
    <3>5. w \in writing \/ w.save = n
      BY <1>1
    <3>6. QED
      BY <3>1, <3>2, <3>3, <3>4, <3>5
  <2>2. QED
    BY <1>3, <2>1 DEF Crossed0
<1>10. LatestCovers'
  BY <1>0, <1>1, <1>8 DEF LatestCovers
<1>11. ASSUME NEW m \in 1 .. l PROVE UnderVersion(m)' = UnderVersion(m)
  BY <1>1, <1>3 DEF UnderVersion
<1>12. VersionsCover'
  <2>1. ASSUME NEW m \in taken' PROVE Covers(UnderVersion(m), m)'
    <3>1. m \in taken /\ m \in 1 .. l
      BY <1>0, <1>1 DEF CheckpointsTyped
    <3>2. Covers(UnderVersion(m), m)
      BY <1>0, <3>1 DEF VersionsCover
    <3>3. QED
      BY <1>1, <1>11, <3>1, <3>2 DEF Covers
  <2>2. ASSUME NEW w \in writing', w.at = "latest" PROVE Covers(UnderVersion(w.save), w.save)'
    <3>1. w \in writing /\ w.save \in 1 .. l
      BY <1>0a, <1>1, <2>2
    <3>2. Covers(UnderVersion(w.save), w.save)
      BY <1>0, <2>2, <3>1 DEF VersionsCover
    <3>3. QED
      BY <1>1, <1>11, <3>1, <3>2 DEF Covers
  <2>3. QED
    BY <2>1, <2>2 DEF VersionsCover
<1>13. QED
  BY <1>7, <1>9, <1>10, <1>12 DEF CheckpointInv

\* What a write on its way may change.
WritesOn(w) ==
  /\ w \in writing /\ UNCHANGED <<saved, checkpoints, version, life, together>>
  /\ \/ w.at = "latest" /\ latest' = w.save /\ versioned' = versioned
        /\ writing' = writing \ {w} /\ taken' \in {taken, taken \cup {w.save}}
     \/ w.at = "version" /\ latest' = latest /\ versioned' = [versioned EXCEPT ![saved[w.save].version] = w.save]
        /\ writing' \subseteq (writing \ {w}) \cup {[w EXCEPT !.at = "latest"]} /\ taken' = taken
     \/ latest' = latest /\ versioned' = versioned /\ writing' = writing \ {w} /\ taken' = taken

LEMMA WritesKeep ==
  ASSUME CheckpointInv, NEW w, WritesOn(w)
  PROVE  CheckpointInv'
<1> DEFINE l == Len(saved)
           moved == [w EXCEPT !.at = "latest"]
<1>0. CheckpointsTyped /\ Crossed0 /\ LatestCovers /\ VersionsCover /\ w \in writing
  BY DEF CheckpointInv, WritesOn
<1>0a. /\ l \in Nat /\ (\A m \in 1 .. l : m \in Nat /\ saved[m].version \in Number /\ UnderVersion(m) \in 0 .. l)
       /\ (\A v \in writing : v \in WriteRecord /\ v.save \in 1 .. l)
       /\ latest \in 0 .. l /\ versioned \in [Number -> 0 .. l] /\ taken \subseteq 1 .. l
  BY <1>0, SavesAreNumbered DEF CheckpointsTyped
<1>0b. UNCHANGED <<saved, checkpoints, version, life, together>>
  BY DEF WritesOn
<1>0c. \A v \in writing : \A n \in 1 .. l : Covers(v.save, n)
  BY <1>0 DEF Crossed0
<1>0d. w.save \in 1 .. l /\ w.save \in 0 .. l /\ w.save \in Nat
  BY <1>0, <1>0a
<1>1. moved \in WriteRecord /\ moved.save = w.save
  BY <1>0, <1>0a DEF WriteRecord
<1>2. writing' \subseteq writing \cup {moved}
  BY DEF WritesOn
<1> HIDE DEF moved
<1>3. \A v \in writing' : v \in WriteRecord /\ v.save \in 1 .. l /\ \E u \in writing : v.save = u.save
  BY <1>0, <1>0a, <1>1, <1>2
<1>4. latest' \in 0 .. l /\ versioned' \in [Number -> 0 .. l] /\ taken' \subseteq 1 .. l
  <2>1. latest' \in {latest, w.save} /\ taken' \in {taken, taken \cup {w.save}}
    BY DEF WritesOn
  <2>2. versioned' \in {versioned, [versioned EXCEPT ![saved[w.save].version] = w.save]}
    BY DEF WritesOn
  <2>3. QED
    BY <1>0a, <1>0d, <2>1, <2>2
<1>5. CheckpointsTyped'
  <2>1. \A v \in writing' : v.save <= l
    BY <1>0a, <1>3
  <2>2. QED
    BY <1>0, <1>0b, <1>3, <1>4, <2>1 DEF CheckpointsTyped
<1>6. Crossed0'
  <2>1. ASSUME NEW v \in writing', NEW n \in 1 .. l PROVE Covers(v.save, n)'
    <3>1. PICK u \in writing : v.save = u.save
      BY <1>3
    <3>2. QED
      BY <1>0b, <1>0c, <3>1 DEF Covers
  <2>2. QED
    BY <1>0b, <2>1 DEF Crossed0
<1>7. \A f : \A n : Covers(f, n)' <=> Covers(f, n)
  BY <1>0b DEF Covers
<1>8. ASSUME w.at = "latest", latest' = w.save, versioned' = versioned, writing' = writing \ {w}, taken' \in {taken, taken \cup {w.save}}
      PROVE  LatestCovers' /\ VersionsCover'
  <2>1. ASSUME NEW n \in taken' PROVE n \in 1 .. l /\ Covers(UnderVersion(n), n)
    <3>1. CASE n \in taken
      BY <1>0, <1>0a, <3>1 DEF VersionsCover
    <3>2. CASE n = w.save
      BY <1>0, <1>0d, <1>8, <3>2 DEF VersionsCover
    <3>3. QED
      BY <1>8, <3>1, <3>2
  <2>2. \A n \in 1 .. l : UnderVersion(n)' = UnderVersion(n)
    BY <1>0b, <1>8 DEF UnderVersion
  <2>3. LatestCovers'
    BY <1>0, <1>0c, <1>7, <1>8, <2>1 DEF LatestCovers
  <2>4. ASSUME NEW v \in writing', v.at = "latest" PROVE Covers(UnderVersion(v.save), v.save)'
    <3>1. v \in writing /\ v.save \in 1 .. l
      BY <1>3, <1>8
    <3>2. Covers(UnderVersion(v.save), v.save)
      BY <1>0, <2>4, <3>1 DEF VersionsCover
    <3>3. QED
      BY <1>0b, <2>2, <3>1, <3>2 DEF Covers
  <2>5. ASSUME NEW n \in taken' PROVE Covers(UnderVersion(n), n)'
    BY <1>0b, <2>1, <2>2 DEF Covers
  <2>6. QED
    BY <2>3, <2>4, <2>5 DEF VersionsCover
<1>9. ASSUME w.at = "version", latest' = latest, versioned' = [versioned EXCEPT ![saved[w.save].version] = w.save],
             writing' \subseteq (writing \ {w}) \cup {moved}, taken' = taken
      PROVE  LatestCovers' /\ VersionsCover'
  <2>1. ASSUME NEW n \in 1 .. l PROVE UnderVersion(n)' = UnderVersion(n) \/ UnderVersion(n)' = w.save
    BY <1>0a, <1>0b, <1>9 DEF UnderVersion
  <2>2. ASSUME NEW n \in 1 .. l, Covers(UnderVersion(n), n) PROVE Covers(UnderVersion(n), n)'
    <3>1. Covers(w.save, n)
      BY <1>0, <1>0c
    <3>2. QED
      BY <1>0b, <2>1, <2>2, <3>1 DEF Covers
  <2>3. UnderVersion(w.save)' = w.save
    BY <1>0a, <1>0b, <1>0d, <1>9 DEF UnderVersion
  <2>4. LatestCovers'
    BY <1>0, <1>7, <1>9 DEF LatestCovers
  <2>5. ASSUME NEW v \in writing', v.at = "latest" PROVE Covers(UnderVersion(v.save), v.save)'
    <3>1. CASE v \in writing
      <4>1. Covers(UnderVersion(v.save), v.save) /\ v.save \in 1 .. l
        BY <1>0, <1>0a, <2>5, <3>1 DEF VersionsCover
      <4>2. QED
        BY <2>2, <4>1
    <3>2. CASE v = moved
      <4>1. v.save = w.save
        BY <1>1, <3>2
      <4>2. w.save >= w.save
        BY <1>0d
      <4>3. Covers(w.save, w.save)'
        BY <4>2 DEF Covers
      <4>4. QED
        BY <2>3, <4>1, <4>3 DEF Covers
    <3>3. QED
      BY <1>9, <3>1, <3>2
  <2>6. ASSUME NEW n \in taken' PROVE Covers(UnderVersion(n), n)'
    BY <1>0, <1>0a, <1>9, <2>2 DEF VersionsCover
  <2>7. QED
    BY <2>4, <2>5, <2>6 DEF VersionsCover
<1>10. ASSUME latest' = latest, versioned' = versioned, writing' = writing \ {w}, taken' = taken
       PROVE  LatestCovers' /\ VersionsCover'
  <2>1. \A n : UnderVersion(n)' = UnderVersion(n)
    BY <1>0b, <1>10 DEF UnderVersion
  <2>2. LatestCovers'
    BY <1>0, <1>7, <1>10 DEF LatestCovers
  <2>3. VersionsCover'
    BY <1>0, <1>0b, <1>10, <2>1 DEF VersionsCover, Covers
  <2>4. QED
    BY <2>2, <2>3
<1>11. LatestCovers' /\ VersionsCover'
  BY <1>8, <1>9, <1>10 DEF WritesOn, moved
<1>12. QED
  BY <1>5, <1>6, <1>11 DEF CheckpointInv

LEMMA StartsOverKeeps ==
  ASSUME CheckpointInv, StartsOver, writing' = writing \/ writing' = {[w EXCEPT !.alive = FALSE] : w \in writing}
  PROVE  CheckpointInv'
<1> DEFINE l == Len(saved)
<1>0. CheckpointsTyped /\ Crossed0 /\ LatestCovers /\ VersionsCover /\ l \in Nat
  BY SavesAreNumbered DEF CheckpointInv
<1>1. /\ life.ends < MaxLives /\ life' = [ends |-> life.ends + 1, before |-> l] /\ checkpoints' = <<>> /\ version' = 0
      /\ UNCHANGED <<saved, latest, versioned, taken, together>>
  BY DEF StartsOver
<1>2. life' \in [ends : 0 .. MaxLives, before : Nat] /\ life'.before = l
  <2>1. life.ends \in 0 .. MaxLives
    BY <1>0 DEF CheckpointsTyped
  <2>2. life.ends + 1 \in 0 .. MaxLives
    BY <1>1, <2>1, CheckpointBounds
  <2>3. QED
    BY <1>0, <1>1, <2>2
<1>3. \A v \in writing' : v \in WriteRecord /\ \E u \in writing : v.save = u.save /\ v.at = u.at
  <2>1. writing \subseteq WriteRecord
    BY <1>0 DEF CheckpointsTyped
  <2>2. ASSUME NEW w \in writing
        PROVE  [w EXCEPT !.alive = FALSE] \in WriteRecord /\ [w EXCEPT !.alive = FALSE].save = w.save /\ [w EXCEPT !.alive = FALSE].at = w.at
    BY <2>1 DEF WriteRecord
  <2>3. CASE writing' = writing
    BY <2>1, <2>3
  <2>4. ASSUME writing' = {[w EXCEPT !.alive = FALSE] : w \in writing}, NEW v \in writing'
        PROVE  v \in WriteRecord /\ \E u \in writing : v.save = u.save /\ v.at = u.at
    <3>1. PICK u \in writing : v = [u EXCEPT !.alive = FALSE]
      BY <2>4
    <3>2. QED
      BY <2>2, <3>1
  <2>5. QED
    BY <2>3, <2>4
<1>4. CheckpointsTyped'
  <2>1. Newest(checkpoints', Len(saved'), life'.before)
    BY <1>0, <1>1, <1>2, NoneAreNewest
  <2>2. \A v \in writing' : v \in WriteRecord /\ v.save <= Len(saved')
    BY <1>0, <1>1, <1>3 DEF CheckpointsTyped
  <2>3. l <= l /\ version' = l - l
    BY <1>0, <1>1
  <2>4. QED
    BY <1>0, <1>1, <1>2, <2>1, <2>2, <2>3 DEF CheckpointsTyped
<1>5. \A n : UnderVersion(n)' = UnderVersion(n)
  BY <1>1 DEF UnderVersion
<1>6. \A f : \A n : Covers(f, n)' <=> Covers(f, n)
  BY <1>1 DEF Covers
<1>7. Crossed0'
  BY <1>0, <1>1, <1>3, <1>6 DEF Crossed0
<1>8. LatestCovers'
  BY <1>0, <1>1, <1>6 DEF LatestCovers
<1>9. VersionsCover'
  <2>1. ASSUME NEW v \in writing', v.at = "latest" PROVE Covers(UnderVersion(v.save), v.save)'
    <3>1. PICK u \in writing : v.save = u.save /\ v.at = u.at
      BY <1>3
    <3>2. Covers(UnderVersion(v.save), v.save)
      BY <1>0, <2>1, <3>1 DEF VersionsCover
    <3>3. QED
      BY <1>1, <1>5, <3>2 DEF Covers
  <2>2. ASSUME NEW n \in taken' PROVE Covers(UnderVersion(n), n)'
    BY <1>0, <1>1, <1>5 DEF VersionsCover, Covers
  <2>3. QED
    BY <2>1, <2>2 DEF VersionsCover
<1>10. QED
  BY <1>4, <1>7, <1>8, <1>9 DEF CheckpointInv

LEMMA CheckpointKeeps == CheckpointInv /\ [CheckpointNext]_checkpointVars => CheckpointInv'
<1> SUFFICES ASSUME CheckpointInv, [CheckpointNext]_checkpointVars PROVE CheckpointInv'
  OBVIOUS
<1>0. \A w \in writing : w.at \in {"version", "latest"}
  BY DEF CheckpointInv, CheckpointsTyped, WriteRecord
<1>1. CASE ClearCheckpoints \/ ProcessCrashes
  BY <1>1, StartsOverKeeps DEF ClearCheckpoints, ProcessCrashes
<1>2. ASSUME NEW w \in writing, WriteDone(w) PROVE CheckpointInv'
  <2>1. UNCHANGED <<saved, checkpoints, version, life, together>>
    BY <1>2 DEF WriteDone
  <2>2. CASE w.at = "latest"
    <3>1. latest' = w.save /\ versioned' = versioned /\ writing' = writing \ {w} /\ taken' \in {taken, taken \cup {w.save}}
      BY <1>2, <2>2 DEF WriteDone, Stored
    <3>2. QED
      BY <2>1, <2>2, <3>1, WritesKeep DEF WritesOn
  <2>3. CASE w.at = "version"
    <3>1. /\ latest' = latest /\ versioned' = [versioned EXCEPT ![saved[w.save].version] = w.save]
          /\ writing' \subseteq (writing \ {w}) \cup {[w EXCEPT !.at = "latest"]} /\ taken' = taken
      BY <1>2, <2>3 DEF WriteDone, Stored
    <3>2. QED
      BY <2>1, <2>3, <3>1, WritesKeep DEF WritesOn
  <2>4. QED
    BY <1>0, <2>2, <2>3
<1>3. ASSUME NEW w \in writing, WriteFails(w) PROVE CheckpointInv'
  <2>1. UNCHANGED <<saved, checkpoints, version, life, together>> /\ writing' = writing \ {w} /\ taken' = taken
    BY <1>3 DEF WriteFails
  <2>2. CASE Stored(w) /\ w.at = "latest"
    <3>1. latest' = w.save /\ versioned' = versioned
      BY <2>2 DEF Stored
    <3>2. QED
      BY <2>1, <2>2, <3>1, WritesKeep DEF WritesOn
  <2>3. CASE Stored(w) /\ w.at = "version"
    <3>1. latest' = latest /\ versioned' = [versioned EXCEPT ![saved[w.save].version] = w.save]
      BY <2>3 DEF Stored
    <3>2. QED
      BY <2>1, <2>3, <3>1, WritesKeep DEF WritesOn
  <2>4. CASE UNCHANGED <<latest, versioned>>
    BY <2>1, <2>4, WritesKeep DEF WritesOn
  <2>5. QED
    BY <1>0, <1>3, <2>2, <2>3, <2>4 DEF WriteFails
<1>4. CASE UNCHANGED checkpointVars
  <2>1. UNCHANGED <<saved, checkpoints, version, latest, versioned, writing, life, taken, together>>
    BY <1>4 DEF checkpointVars
  <2>2. CheckpointsTyped'
    BY <2>1 DEF CheckpointInv, CheckpointsTyped
  <2>3. Crossed0' /\ LatestCovers' /\ VersionsCover'
    BY <2>1 DEF CheckpointInv, Crossed0, LatestCovers, VersionsCover, Covers, UnderVersion
  <2>4. QED
    BY <2>2, <2>3 DEF CheckpointInv
<1>5. QED
  BY <1>1, <1>2, <1>3, <1>4, SaveKeeps DEF CheckpointNext

\* In memory the last checkpoint that is not transient is found.
LEMMA RestoredIsLate ==
  ASSUME CheckpointInv, NEW n \in life.before + 1 .. Len(saved), ~saved[n].transient, ~(Len(saved) >= n + MaxCheckpoints)
  PROVE  Restored >= n
<1> DEFINE l == Len(saved)
           h == HowMany(l, life.before)
           I == {i \in 1 .. Len(checkpoints) : ~saved[checkpoints[i]].transient}
           k == n - l + h
<1>1. /\ l \in Nat /\ life.before \in Nat /\ h \in Nat /\ life.before <= l /\ Len(checkpoints) = h
      /\ \A i \in 1 .. h : checkpoints[i] = l - h + i
  BY SavesAreNumbered DEF CheckpointInv, CheckpointsTyped, Newest
<1>2. n \in Nat /\ n <= l /\ n >= life.before + 1 /\ l < n + MaxCheckpoints
  BY <1>1, CheckpointBounds
<1>3. k \in 1 .. h /\ l - h + k = n
  BY <1>1, <1>2, CheckpointBounds DEF HowMany
<1>4. Restored = IF checkpoints = <<>> THEN 0
                 ELSE checkpoints[IF (IF I # {} THEN Max(I) ELSE 0) = 0 THEN Len(checkpoints) ELSE (IF I # {} THEN Max(I) ELSE 0)]
  BY DEF Restored, SelectLastInSeq
<1> HIDE DEF h, k
<1>5. k \in I
  BY <1>1, <1>3
<1>6. I \in SUBSET Nat /\ \A i \in I : i <= h /\ i \in 1 .. h
  BY <1>1
<1> HIDE DEF I
<1>7. Max(I) \in I /\ \A i \in I : i <= Max(I)
  BY <1>1, <1>5, <1>6, GreatestIsMax
<1>8. Max(I) \in 1 .. h /\ k <= Max(I)
  BY <1>5, <1>6, <1>7
<1>9. checkpoints # <<>> /\ Max(I) # 0 /\ I # {}
  <2>1. Len(checkpoints) # 0
    BY <1>1, <1>3
  <2>2. Len(<<>>) = 0
    OBVIOUS
  <2>3. QED
    BY <1>5, <1>8, <2>1, <2>2
<1>10. Restored = checkpoints[Max(I)]
  BY <1>4, <1>9
<1>11. Restored = l - h + Max(I)
  BY <1>1, <1>8, <1>10
<1>12. QED
  BY <1>1, <1>3, <1>8, <1>11

LEMMA CheckpointsFound == CheckpointInv => TakenIsFound
<1> SUFFICES ASSUME CheckpointInv PROVE TakenIsFound
  OBVIOUS
<1>1. \A n \in taken : latest >= n \/ <<latest, n>> \in together
  BY DEF CheckpointInv, LatestCovers, Covers
<1>2. \A n \in taken : LET found == versioned[saved[n].version] IN found >= n \/ <<found, n>> \in together
  BY DEF CheckpointInv, VersionsCover, Covers, UnderVersion
<1>3. \A n \in life.before + 1 .. Len(saved) :
        saved[n].transient \/ Restored >= n \/ Len(saved) >= n + MaxCheckpoints
  BY RestoredIsLate
<1>4. QED
  BY <1>1, <1>2, <1>3 DEF TakenIsFound

LEMMA CheckpointTypes == CheckpointInv => CheckpointTypeOK
<1> SUFFICES ASSUME CheckpointInv PROVE CheckpointTypeOK
  OBVIOUS
<1> DEFINE l == Len(saved)
           h == HowMany(l, life.before)
<1>0. CheckpointsTyped
  BY DEF CheckpointInv
<1>1. /\ l \in Nat /\ l <= MaxSaves /\ life.before \in Nat /\ h \in Nat /\ life.before <= l
      /\ Len(checkpoints) = h /\ checkpoints \in Seq(Nat) /\ \A i \in 1 .. h : checkpoints[i] = l - h + i
  BY <1>0, SavesAreNumbered DEF CheckpointsTyped, Newest
<1>2. h <= MaxCheckpoints /\ h <= l - life.before
  BY <1>1, CheckpointBounds DEF HowMany
<1> HIDE DEF h
<1>3. \A i \in 1 .. h : checkpoints[i] \in Number
  BY <1>1, <1>2, CheckpointBounds DEF Number
<1>4. checkpoints \in Seq(Number)
  BY <1>1, <1>3
<1>5. checkpoints \in BoundedSeq(Number, MaxCheckpoints)
  BY <1>1, <1>2, <1>4, FitsIn, CheckpointBounds
<1>6. saved \in BoundedSeq([version : Number, transient : BOOLEAN], MaxSaves)
  BY <1>0, FitsIn, CheckpointBounds DEF CheckpointsTyped, SavedRecord
<1>7. version \in 0 .. MaxSaves /\ latest \in 0 .. MaxSaves /\ versioned \in [Number -> 0 .. MaxSaves] /\ taken \subseteq Number
  <2>1. version = l - life.before /\ latest \in 0 .. l /\ versioned \in [Number -> 0 .. l] /\ taken \subseteq 1 .. l
    BY <1>0 DEF CheckpointsTyped
  <2>2. 0 .. l \subseteq 0 .. MaxSaves /\ 1 .. l \subseteq Number
    BY <1>1, CheckpointBounds DEF Number
  <2>3. \A v \in Number : versioned[v] \in 0 .. MaxSaves
    BY <2>1, <2>2
  <2>4. versioned \in [Number -> 0 .. MaxSaves]
    BY <2>1, <2>3
  <2>5. version \in 0 .. MaxSaves
    BY <1>1, <2>1, CheckpointBounds
  <2>6. QED
    BY <2>1, <2>2, <2>4, <2>5
<1>8. life \in [ends : 0 .. MaxLives, before : 0 .. MaxSaves]
  BY <1>0, <1>1, CheckpointBounds DEF CheckpointsTyped
<1>9. writing \subseteq [save : Number, at : {"version", "latest"}, alive : BOOLEAN] /\ together \subseteq Number \X Number
  BY <1>0 DEF CheckpointsTyped, WriteRecord
<1>10. QED
  BY <1>5, <1>6, <1>7, <1>8, <1>9 DEF CheckpointTypeOK

CheckpointSpec == CheckpointInit /\ [][CheckpointNext]_checkpointVars

(* A checkpoint that was taken is found, or a later one: under its version, as *)
(* the latest, and in memory while it fits, for any number of saves, crashes   *)
(* and versions (SessionCheckpoint).                                           *)
THEOREM TakenCheckpointsAreFound == CheckpointSpec => []TakenIsFound
<1>1. CheckpointSpec => []CheckpointInv
  BY CheckpointStarts, CheckpointKeeps, PTL DEF CheckpointSpec
<1>2. QED
  BY <1>1, CheckpointsFound, PTL

-----------------------------------------------------------------------------
(* StateManager.                                                               *)

StateSpec == StateInit /\ [][StateNext]_stateVars

PersistRecord == [at : {"new", "mkdir", "open", "write", "done", "failed", "cut"}, state : Number0]
ReadRecord == [at : {"new", "read", "parse", "over"}, read : File]

StateTyped ==
  /\ content \in Number0 /\ changeNo \in Number0 /\ file \in File /\ deaths \in 0 .. MaxDeaths
  /\ persists \in [PersistNo -> PersistRecord] /\ reads \in [1 .. MaxReads -> ReadRecord]
  /\ mixed \subseteq PersistNo \X PersistNo /\ overlaps \subseteq PersistNo \X PersistNo

\* Calls are made in the order of their numbers, and those under way together meet.
Calls ==
  \A p \in PersistNo, q \in PersistNo :
    p < q =>
      /\ Is(p, "new") => Is(q, "new")
      /\ persists[p].at \in Waits /\ ~Is(q, "new") => <<p, q>> \in overlaps
\* Nobody writes unless it was called, and a torn file has a writer.
Written ==
  /\ file.by # 0 => ~Is(file.by, "new")
  /\ file.is = "torn" => file.by \in PersistNo

StateInv == StateTyped /\ Calls /\ Written /\ PersistedIsKept

LEMMA StateStarts == StateInit => StateInv
<1> SUFFICES ASSUME StateInit PROVE StateInv
  OBVIOUS
<1>1. 0 \in Number0 /\ 0 \in 0 .. MaxDeaths /\ NoRead \in File
  BY StateAssumption DEF Number0, File, NoRead
<1>2. StateTyped
  BY <1>1 DEF StateInit, StateTyped, PersistRecord, ReadRecord
<1>3. Calls /\ Written /\ PersistedIsKept
  BY DEF StateInit, Calls, Is, Waits, Written, PersistedIsKept, NoRead
<1>4. QED
  BY <1>2, <1>3 DEF StateInv

LEMMA StateKeeps == StateInv /\ [StateNext]_stateVars => StateInv'
<1> SUFFICES ASSUME StateInv, [StateNext]_stateVars PROVE StateInv'
  OBVIOUS
<1>0. StateTyped /\ Calls /\ Written /\ PersistedIsKept
  BY DEF StateInv
<1>0a. PersistNo \subseteq Nat /\ 0 \notin PersistNo
  BY DEF PersistNo
<1>1. CASE ChangeState
  <2>1. content' \in Number0 /\ changeNo' \in Number0 /\ UNCHANGED <<file, persists, reads, deaths, mixed, overlaps>>
    BY <1>0, <1>1, StateAssumption DEF ChangeState, StateTyped, Number0
  <2>2. QED
    BY <1>0, <2>1 DEF StateInv, StateTyped, Calls, Written, PersistedIsKept, Is, Writing
<1>2. ASSUME NEW p \in PersistNo, Persist(p) PROVE StateInv'
  <2> DEFINE met == {<<o, p>> : o \in {o \in PersistNo : persists[o].at \in Waits}}
  <2>1. /\ Is(p, "new") /\ (\A o \in 1 .. p - 1 : ~Is(o, "new")) /\ persists' = [persists EXCEPT ![p].at = "mkdir"]
        /\ overlaps' = overlaps \cup met /\ UNCHANGED <<content, changeNo, file, reads, deaths, mixed>>
    BY <1>2 DEF Persist, Goes
  <2>2. met \subseteq PersistNo \X PersistNo
    OBVIOUS
  <2>3. \A o \in PersistNo : persists[o].at \in Waits => <<o, p>> \in met
    OBVIOUS
  <2> HIDE DEF met
  <2>4. StateTyped'
    BY <1>0, <2>1, <2>2 DEF StateTyped, PersistRecord
  <2>5. \A q \in PersistNo : persists'[q].at = IF q = p THEN "mkdir" ELSE persists[q].at
    BY <1>0, <2>1 DEF StateTyped, PersistRecord
  <2>6. ASSUME NEW q \in PersistNo PROVE Is(q, "new")' => Is(q, "new")
    BY <2>1, <2>5 DEF Is
  <2>7. Calls'
    <3>1. SUFFICES ASSUME NEW o \in PersistNo, NEW q \in PersistNo, o < q
                   PROVE  /\ Is(o, "new")' => Is(q, "new")'
                          /\ persists'[o].at \in Waits /\ ~Is(q, "new")' => <<o, q>> \in overlaps'
      BY DEF Calls
    <3>2. CASE q = p
      <4>1. o \in 1 .. p - 1
        BY <1>0a, <3>1, <3>2 DEF PersistNo
      <4>2. ~Is(o, "new") /\ o # p /\ ~Is(o, "new")'
        BY <1>0a, <2>1, <2>6, <3>1, <3>2, <4>1
      <4>3. persists'[o].at \in Waits => <<o, q>> \in overlaps'
        BY <2>1, <2>3, <2>5, <3>2, <4>2
      <4>4. QED
        BY <4>2, <4>3
    <3>3. CASE q # p
      <4>1. Is(q, "new")' <=> Is(q, "new")
        BY <2>5, <3>3 DEF Is
      <4>2. CASE o = p
        <5>1. Is(q, "new")
          BY <1>0, <2>1, <3>1, <4>2 DEF Calls
        <5>2. QED
          BY <4>1, <5>1
      <4>3. CASE o # p
        <5>1. persists'[o].at = persists[o].at /\ (Is(o, "new")' <=> Is(o, "new"))
          BY <2>5, <4>3 DEF Is
        <5>2. QED
          BY <1>0, <2>1, <3>1, <4>1, <5>1 DEF Calls
      <4>4. QED
        BY <4>2, <4>3
    <3>4. QED
      BY <3>2, <3>3
  <2>8. file.by # p
    BY <1>0, <1>0a, <2>1 DEF Written
  <2>9. file.by \in 0 .. MaxPersists
    BY <1>0 DEF StateTyped, File
  <2>10. Written'
    <3>1. file.by # 0 => file.by \in PersistNo
      BY <2>9 DEF PersistNo
    <3>2. QED
      BY <1>0, <2>1, <2>6, <3>1 DEF Written
  <2>11. PersistedIsKept'
    <3>1. ASSUME NEW q \in PersistNo, Is(q, "done")' PROVE file'.by >= q \/ <<file'.by, q>> \in overlaps'
      <4>1. Is(q, "done")
        BY <2>5, <3>1 DEF Is
      <4>2. QED
        BY <1>0, <2>1, <4>1 DEF PersistedIsKept
    <3>2. file'.is = "torn" => persists'[file'.by].at \in {"write", "cut"} \/ file'.by \in Writing'
      BY <1>0, <2>1, <2>5, <2>8 DEF PersistedIsKept, Written, Writing
    <3>3. QED
      BY <3>1, <3>2 DEF PersistedIsKept
  <2>12. QED
    BY <2>4, <2>7, <2>10, <2>11 DEF StateInv
<1>3. ASSUME NEW p \in PersistNo, NEW to, persists' = [persists EXCEPT ![p] = to], to \in PersistRecord,
             persists[p].at \in Waits, to.at # "new", to.at # "done", UNCHANGED <<file, mixed, overlaps>>,
             Is(p, "write") => to.at = "cut",
             content' \in Number0, changeNo' \in Number0, reads' \in [1 .. MaxReads -> ReadRecord], deaths' \in 0 .. MaxDeaths
      PROVE  StateInv'
  <2>1. \A q \in PersistNo : persists'[q].at = IF q = p THEN to.at ELSE persists[q].at
    BY <1>0, <1>3 DEF StateTyped
  <2>2. StateTyped'
    BY <1>0, <1>3 DEF StateTyped
  <2>3. ASSUME NEW q \in PersistNo
        PROVE  (Is(q, "new")' <=> Is(q, "new")) /\ (persists'[q].at \in Waits => persists[q].at \in Waits) /\ (Is(q, "done")' => Is(q, "done"))
               /\ (persists[q].at \in {"write", "cut"} => persists'[q].at \in {"write", "cut"})
    BY <1>3, <2>1 DEF Is, Waits
  <2>4. Calls'
    BY <1>0, <1>3, <2>3 DEF Calls
  <2>5. file.by \in 0 .. MaxPersists /\ (file.by # 0 => file.by \in PersistNo)
    BY <1>0 DEF StateTyped, File, PersistNo
  <2>6. Written'
    BY <1>0, <1>3, <2>3, <2>5 DEF Written
  <2>7. PersistedIsKept'
    BY <1>0, <1>3, <2>3, <2>5 DEF PersistedIsKept, Writing, Written
  <2>8. QED
    BY <2>2, <2>4, <2>6, <2>7 DEF StateInv
<1>4. ASSUME NEW p \in PersistNo, DirectoryMade(p) PROVE StateInv'
  <2> DEFINE to == [at |-> "open", state |-> content]
  <2>1. to \in PersistRecord /\ to.at = "open"
    BY <1>0 DEF PersistRecord, StateTyped
  <2>2. /\ Is(p, "mkdir") /\ persists' = [persists EXCEPT ![p] = to]
        /\ UNCHANGED <<content, changeNo, file, reads, deaths, mixed, overlaps>>
    BY <1>4 DEF DirectoryMade
  <2> HIDE DEF to
  <2>3. QED
    BY <1>0, <1>3, <2>1, <2>2 DEF StateTyped, Waits, Is
<1>5. ASSUME NEW p \in PersistNo, PersistFails(p) PROVE StateInv'
  <2> DEFINE at == IF Is(p, "write") THEN "cut" ELSE "failed"
             to == [persists[p] EXCEPT !.at = at]
  <2>1. to \in PersistRecord /\ to.at = at /\ at \in {"cut", "failed"} /\ (Is(p, "write") => at = "cut")
    BY <1>0 DEF PersistRecord, StateTyped
  <2>2. /\ persists[p].at \in Waits /\ persists' = [persists EXCEPT ![p] = to]
        /\ UNCHANGED <<content, changeNo, file, reads, deaths, mixed, overlaps>>
    BY <1>5 DEF PersistFails, Goes
  <2> HIDE DEF to, at
  <2>3. QED
    BY <1>0, <1>3, <2>1, <2>2 DEF StateTyped
<1>6. ASSUME NEW p \in PersistNo, FileOpened(p) PROVE StateInv'
  <2> DEFINE more == {<<o, p>> : o \in {o \in PersistNo : Is(o, "write")}}
  <2>1. /\ Is(p, "open") /\ persists' = [persists EXCEPT ![p].at = "write"] /\ file' = [is |-> "torn", state |-> 0, by |-> p]
        /\ mixed' = mixed \cup more /\ UNCHANGED <<content, changeNo, reads, deaths, overlaps>>
    BY <1>6 DEF FileOpened, Goes
  <2>2. more \subseteq PersistNo \X PersistNo
    OBVIOUS
  <2> HIDE DEF more
  <2>3. file' \in File /\ file'.by = p /\ file'.is = "torn"
    BY <2>1, StateAssumption DEF File, PersistNo, Number0
  <2>4. StateTyped'
    BY <1>0, <2>1, <2>2, <2>3 DEF StateTyped, PersistRecord
  <2>5. \A q \in PersistNo : persists'[q].at = IF q = p THEN "write" ELSE persists[q].at
    BY <1>0, <2>1 DEF StateTyped, PersistRecord
  <2>6. ASSUME NEW q \in PersistNo
        PROVE  (Is(q, "new")' <=> Is(q, "new")) /\ (persists'[q].at \in Waits <=> persists[q].at \in Waits) /\ (Is(q, "done")' <=> Is(q, "done"))
    BY <2>1, <2>5 DEF Is, Waits
  <2>7. Calls'
    BY <1>0, <2>1, <2>6 DEF Calls
  <2>8. Written'
    BY <2>1, <2>3, <2>5 DEF Written, Is
  <2>9. PersistedIsKept'
    <3>1. ASSUME NEW q \in PersistNo, Is(q, "done")' PROVE p >= q \/ <<p, q>> \in overlaps
      <4>1. p \in Nat /\ q \in Nat
        BY <1>0a
      <4>2. CASE p < q
        BY <1>0, <2>1, <2>6, <3>1, <4>2 DEF Calls, Is, Waits
      <4>3. CASE ~(p < q)
        BY <4>1, <4>3
      <4>4. QED
        BY <4>2, <4>3
    <3>2. QED
      BY <2>1, <2>3, <2>5, <3>1 DEF PersistedIsKept
  <2>10. QED
    BY <2>4, <2>7, <2>8, <2>9 DEF StateInv
<1>7. ASSUME NEW p \in PersistNo, FileWritten(p) PROVE StateInv'
  <2>1. /\ Is(p, "write") /\ persists' = [persists EXCEPT ![p].at = "done"]
        /\ UNCHANGED <<content, changeNo, reads, deaths, mixed, overlaps>>
        /\ \/ file' = [is |-> "whole", state |-> persists[p].state, by |-> p]
           \/ p \in Writing /\ file' = [is |-> "torn", state |-> 0, by |-> p]
    BY <1>7 DEF FileWritten, Goes
  <2>2. file' \in File /\ file'.by = p /\ (file'.is = "torn" => p \in Writing)
    BY <1>0, <2>1, StateAssumption DEF File, PersistNo, Number0, StateTyped, PersistRecord
  <2>3. StateTyped'
    BY <1>0, <2>1, <2>2 DEF StateTyped, PersistRecord
  <2>4. \A q \in PersistNo : persists'[q].at = IF q = p THEN "done" ELSE persists[q].at
    BY <1>0, <2>1 DEF StateTyped, PersistRecord
  <2>5. ASSUME NEW q \in PersistNo
        PROVE  (Is(q, "new")' <=> Is(q, "new")) /\ (persists'[q].at \in Waits => persists[q].at \in Waits) /\ (Is(q, "done")' => q = p \/ Is(q, "done"))
    BY <2>1, <2>4 DEF Is, Waits
  <2>6. Calls'
    BY <1>0, <2>1, <2>5 DEF Calls
  <2>7. Written'
    BY <2>2, <2>4 DEF Written, Is
  <2>8. PersistedIsKept'
    <3>1. ASSUME NEW q \in PersistNo, Is(q, "done")' PROVE p >= q \/ <<p, q>> \in overlaps
      <4>1. p \in Nat /\ q \in Nat
        BY <1>0a
      <4>2. CASE p < q
        BY <1>0, <2>1, <2>5, <3>1, <4>1, <4>2 DEF Calls, Is, Waits
      <4>3. CASE ~(p < q)
        BY <4>1, <4>3
      <4>4. QED
        BY <4>2, <4>3
    <3>2. Writing' = Writing
      BY <2>1 DEF Writing
    <3>3. QED
      BY <2>1, <2>2, <3>1, <3>2 DEF PersistedIsKept
  <2>9. QED
    BY <2>3, <2>6, <2>7, <2>8 DEF StateInv
<1>8. ASSUME NEW r \in DOMAIN reads, Load(r) \/ FileRead(r) \/ Loaded(r) PROVE StateInv'
  <2>1. r \in 1 .. MaxReads /\ reads[r] \in ReadRecord /\ file \in File
    BY <1>0, <1>8 DEF StateTyped
  <2>2. UNCHANGED <<changeNo, file, persists, deaths, mixed, overlaps>>
    BY <1>8 DEF Load, FileRead, Loaded
  <2>3. reads' \in [1 .. MaxReads -> ReadRecord]
    <3>1. CASE Load(r) \/ Loaded(r)
      BY <1>0, <2>1, <3>1 DEF Load, Loaded, StateTyped, ReadRecord
    <3>2. CASE FileRead(r)
      BY <1>0, <2>1, <3>2 DEF FileRead, StateTyped, ReadRecord
    <3>3. QED
      BY <1>8, <3>1, <3>2
  <2>4. content' \in Number0
    <3>1. reads[r].read.state \in Number0
      BY <2>1 DEF ReadRecord, File
    <3>2. QED
      BY <1>0, <1>8, <3>1 DEF Load, FileRead, Loaded, StateTyped
  <2>5. QED
    BY <1>0, <2>2, <2>3, <2>4 DEF StateInv, StateTyped, Calls, Written, PersistedIsKept, Is, Writing
<1>9. CASE ProcessEnds
  <2>1. /\ deaths < MaxDeaths /\ deaths' = deaths + 1 /\ content' = 0 /\ UNCHANGED <<changeNo, file, mixed, overlaps>>
        /\ persists' = [p \in PersistNo |->
             CASE Is(p, "write") -> [persists[p] EXCEPT !.at = "cut"]
               [] persists[p].at \in {"mkdir", "open"} -> [persists[p] EXCEPT !.at = "failed"]
               [] OTHER -> persists[p]]
        /\ reads' = [r \in DOMAIN reads |-> IF reads[r].at \in {"read", "parse"} THEN [reads[r] EXCEPT !.at = "over"] ELSE reads[r]]
    BY <1>9 DEF ProcessEnds
  <2>2. ASSUME NEW q \in PersistNo
        PROVE  /\ persists'[q] \in PersistRecord /\ (Is(q, "new")' <=> Is(q, "new")) /\ persists'[q].at \notin Waits
               /\ (Is(q, "done")' <=> Is(q, "done"))
               /\ (persists[q].at \in {"write", "cut"} => persists'[q].at \in {"write", "cut"})
    <3>1. persists[q] \in PersistRecord
      BY <1>0 DEF StateTyped
    <3>2. CASE Is(q, "write")
      <4>1. persists'[q] = [persists[q] EXCEPT !.at = "cut"]
        BY <2>1, <3>2 DEF Is
      <4>2. QED
        BY <3>1, <3>2, <4>1 DEF Is, Waits, PersistRecord
    <3>3. CASE persists[q].at \in {"mkdir", "open"}
      <4>1. persists'[q] = [persists[q] EXCEPT !.at = "failed"]
        BY <2>1, <3>3 DEF Is
      <4>2. QED
        BY <3>1, <3>3, <4>1 DEF Is, Waits, PersistRecord
    <3>4. CASE ~Is(q, "write") /\ persists[q].at \notin {"mkdir", "open"}
      <4>1. persists'[q] = persists[q]
        BY <2>1, <3>4
      <4>2. QED
        BY <3>1, <3>4, <4>1 DEF Is, Waits, PersistRecord
    <3>5. QED
      BY <3>2, <3>3, <3>4
  <2>3. persists' \in [PersistNo -> PersistRecord]
    BY <2>1, <2>2
  <2>4. reads' \in [1 .. MaxReads -> ReadRecord]
    BY <1>0, <2>1 DEF StateTyped, ReadRecord
  <2>5. 0 \in Number0 /\ deaths' \in 0 .. MaxDeaths
    BY <1>0, <2>1, StateAssumption DEF Number0, StateTyped
  <2>6. StateTyped'
    BY <1>0, <2>1, <2>3, <2>4, <2>5 DEF StateTyped
  <2>7. Calls'
    BY <1>0, <2>1, <2>2 DEF Calls
  <2>8. file.by \in 0 .. MaxPersists /\ (file.by # 0 => file.by \in PersistNo)
    BY <1>0 DEF StateTyped, File, PersistNo
  <2>9. Written'
    BY <1>0, <2>1, <2>2, <2>8 DEF Written
  <2>10. PersistedIsKept'
    BY <1>0, <2>1, <2>2, <2>8 DEF PersistedIsKept, Writing, Written
  <2>11. QED
    BY <2>6, <2>7, <2>9, <2>10 DEF StateInv
<1>10. CASE UNCHANGED stateVars
  BY <1>0, <1>10 DEF stateVars, StateInv, StateTyped, Calls, Written, PersistedIsKept, Is, Writing
<1>11. QED
  BY <1>1, <1>2, <1>4, <1>5, <1>6, <1>7, <1>8, <1>9, <1>10 DEF StateNext

LEMMA StateTypes == StateInv => StateTypeOK
BY DEF StateInv, StateTyped, StateTypeOK, PersistRecord, ReadRecord

(* Once a persist() has returned the file holds its state or a later call's,   *)
(* but for calls that overlapped it, and it can be read unless its writer is   *)
(* at it, was cut off or wrote beside another; for any number of calls, reads  *)
(* and ends of the process (StateManager.persist).                             *)
THEOREM PersistedStateIsKept == StateSpec => []PersistedIsKept
<1>1. StateInv => PersistedIsKept
  BY DEF StateInv
<1> QED
  BY <1>1, StateStarts, StateKeeps, PTL DEF StateSpec

-----------------------------------------------------------------------------
(* The workflow registry.                                                     *)

RegistrySpec == RegistryInit /\ [][RegistryNext]_registryVars

InOrder(list) == \A i \in 1 .. Len(list) : \A j \in 1 .. Len(list) : i < j => list[i].priority <= list[j].priority
Distinct(list) == \A i \in 1 .. Len(list) : \A j \in 1 .. Len(list) : list[i].no = list[j].no => i = j
\* What stands in the list now stood no more than `gone` places further up, and
\* no more than `come` places further down, or is the step of that number.
Shifted(old, list, no, gone, come) ==
  \A k \in 1 .. Len(list) :
    \/ list[k].no = no /\ come = 1
    \/ \E i \in 1 .. Len(old) : list[k] = old[i] /\ i <= k + gone /\ k <= i + come

LEMMA StepsAreTyped ==
  ASSUME NEW list \in Seq(Step), NEW i \in 1 .. Len(list)
  PROVE  /\ list[i] \in Step /\ list[i].no \in 1 .. MaxSteps /\ list[i].no \in Nat
         /\ list[i].priority \in Nat /\ list[i].name \in StepName
<1>1. list[i] \in Step
  BY LenProperties
<1>2. QED
  BY <1>1, RegistryAssumption DEF Step

\* The sort is by priority, and stable.
AheadIn(list) ==
  [i \in 1 .. Len(list) |->
    {j \in 1 .. Len(list) : \/ list[j].priority < list[i].priority
                            \/ list[j].priority = list[i].priority /\ j < i}]

LEMMA PrioritySorts ==
  ASSUME NEW list \in Seq(Step)
  PROVE  /\ ByPriority(list) \in Seq(Step) /\ Len(ByPriority(list)) = Len(list)
         /\ AheadIn(list) \in [1 .. Len(list) -> SUBSET (1 .. Len(list))]
         /\ \E Q \in [1 .. Len(list) -> 1 .. Len(list)] : Sorts(list, ByPriority(list), AheadIn(list), Q)
<1> DEFINE n == Len(list)
           A == AheadIn(list)
           r == ByPriority(list)
<1>1. n \in Nat /\ DOMAIN list = 1 .. n
  BY LenProperties
<1>2. \A i \in 1 .. n : list[i].priority \in Nat
  BY StepsAreTyped
<1>3. A \in [1 .. n -> SUBSET (1 .. n)]
  BY DEF AheadIn
<1>4. Ordered(n, A)
  BY <1>1, <1>2 DEF Ordered, AheadIn
<1>5. Ranked(list, r, A)
  <2> DEFINE Ahead(i) == {j \in DOMAIN list : \/ list[j].priority < list[i].priority
                                              \/ list[j].priority = list[i].priority /\ j < i}
  <2>1. r = [k \in DOMAIN list |-> list[CHOOSE i \in DOMAIN list : Cardinality(Ahead(i)) = k - 1]]
    BY DEF ByPriority
  <2>2. \A i \in DOMAIN list : Ahead(i) = A[i]
    BY <1>1 DEF AheadIn
  <2> HIDE DEF Ahead, r, A
  <2>3. DOMAIN r = DOMAIN list /\ r = [k \in DOMAIN r |-> r[k]]
    BY <2>1
  <2>4. ASSUME NEW k \in DOMAIN list, NEW i \in DOMAIN list,
               \A j \in DOMAIN list : Cardinality(A[j]) = k - 1 <=> j = i
        PROVE  r[k] = list[i]
    <3>1. \A j \in DOMAIN list : Cardinality(Ahead(j)) = k - 1 <=> j = i
      BY <2>2, <2>4
    <3>2. (CHOOSE j \in DOMAIN list : Cardinality(Ahead(j)) = k - 1) = i
      BY <3>1
    <3>3. QED
      BY <2>1, <3>2
  <2>5. QED
    BY <2>3, <2>4 DEF Ranked
<1> HIDE DEF A, r
<1>6. QED
  BY <1>3, <1>4, <1>5, RanksSort DEF A, r

LEMMA SortedInOrder ==
  ASSUME NEW list \in Seq(Step)
  PROVE  InOrder(ByPriority(list)) /\ (Distinct(list) => Distinct(ByPriority(list)))
<1> DEFINE n == Len(list)
           r == ByPriority(list)
<1>1. PICK Q \in [1 .. n -> 1 .. n] : Sorts(list, r, AheadIn(list), Q)
  BY PrioritySorts
<1>2. r \in Seq(Step) /\ Len(r) = n /\ n \in Nat
  BY PrioritySorts, LenProperties
<1> HIDE DEF r
<1>3. ASSUME NEW k \in 1 .. n PROVE r[k] = list[Q[k]] /\ Q[k] \in 1 .. n
  BY <1>1 DEF Sorts
<1>4. ASSUME NEW k \in 1 .. n, NEW l \in 1 .. n, k < l PROVE r[k].priority <= r[l].priority
  <2>1. Q[k] \in AheadIn(list)[Q[l]]
    BY <1>1, <1>4 DEF Sorts, Arranges
  <2>2. list[Q[k]].priority \in Nat /\ list[Q[l]].priority \in Nat
    BY <1>3, StepsAreTyped
  <2>3. list[Q[k]].priority <= list[Q[l]].priority
    <3>1. \A i \in 1 .. n : \A j \in 1 .. n : j \in AheadIn(list)[i] =>
            list[j].priority < list[i].priority \/ list[j].priority = list[i].priority
      BY DEF AheadIn
    <3>2. Q[k] \in 1 .. n /\ Q[l] \in 1 .. n
      BY <1>3
    <3>3. list[Q[k]].priority < list[Q[l]].priority \/ list[Q[k]].priority = list[Q[l]].priority
      BY <2>1, <3>1, <3>2
    <3>4. QED
      BY <2>2, <3>3
  <2>4. QED
    BY <1>3, <2>3
<1>5. ASSUME Distinct(list), NEW k \in 1 .. n, NEW l \in 1 .. n, r[k].no = r[l].no PROVE k = l
  <2>1. Q[k] = Q[l]
    BY <1>3, <1>5 DEF Distinct
  <2>2. QED
    BY <1>1, <2>1 DEF Sorts, Arranges
<1>6. QED
  BY <1>2, <1>4, <1>5 DEF InOrder, Distinct, r

LEMMA AheadWhereInOrder ==
  ASSUME NEW p \in Nat, NEW q \in Nat, NEW j \in Nat, NEW i \in Nat, j < i => p <= q, i < j => q <= p, i = j => p = q
  PROVE  (p < q \/ (p = q /\ j < i)) <=> j < i
OBVIOUS

\* One step is put among those in order: the others stay next to where they were.
LEMMA OneIsPutIn ==
  ASSUME NEW old \in Seq(Step), InOrder(old), NEW list \in Seq(Step), NEW f \in 1 .. Len(list), NEW gone \in {0, 1},
         Len(list) = Len(old) + 1 - gone, gone = 0 => f = Len(list),
         \A i \in 1 .. Len(list) : i # f => i \in 1 .. Len(old) /\ list[i] = old[i]
  PROVE  Shifted(old, ByPriority(list), list[f].no, gone, 1)
<1> DEFINE n == Len(list)
           r == ByPriority(list)
           A == AheadIn(list)
<1>1. PICK Q \in [1 .. n -> 1 .. n] : Sorts(list, r, A, Q)
  BY PrioritySorts
<1>2. r \in Seq(Step) /\ Len(r) = n /\ n \in Nat /\ f \in Nat /\ Len(old) \in Nat
  BY PrioritySorts, LenProperties
<1>2a. A \in [1 .. n -> SUBSET (1 .. n)]
  BY PrioritySorts
<1> HIDE DEF r
<1>3. ASSUME NEW k \in 1 .. n, Q[k] # f
      PROVE  \E i \in 1 .. Len(old) : r[k] = old[i] /\ i <= k + gone /\ k <= i + 1
  <2> DEFINE i == Q[k]
  <2>1. i \in 1 .. n /\ i \in Nat /\ i \in 1 .. Len(old) /\ r[k] = list[i] /\ list[i] = old[i] /\ Cardinality(A[i]) = k - 1
    <3>1. i \in 1 .. n /\ i # f
      BY <1>3
    <3>3. r[k] = list[i]
      BY <1>1 DEF Sorts
    <3>7. \A j \in 1 .. Len(list) : j # f => j \in 1 .. Len(old) /\ list[j] = old[j]
      OBVIOUS
    <3>2. i \in 1 .. Len(old) /\ list[i] = old[i] /\ i \in Nat
      <4> HIDE DEF i
      <4>1. QED
        BY <1>2, <3>1, <3>7
    <3>4. Arranges(n, A, Q)
      BY <1>1 DEF Sorts
    <3> HIDE DEF A
    <3>5. Cardinality(A[i]) = k - 1
      BY <3>1, <3>4 DEF Arranges
    <3>6. QED
      BY <3>1, <3>2, <3>3, <3>5
  <2> HIDE DEF i
  <2>2. ASSUME NEW j \in 1 .. n, j # f PROVE j \in A[i] <=> j < i
    <3>1. j \in 1 .. Len(old) /\ list[j] = old[j] /\ j \in Nat
      BY <2>2
    <3>2. list[j].priority \in Nat /\ list[i].priority \in Nat
      BY <2>1, StepsAreTyped
    <3>3. j < i => list[j].priority <= list[i].priority
      BY <2>1, <3>1 DEF InOrder
    <3>4. i < j => list[i].priority <= list[j].priority
      BY <2>1, <3>1 DEF InOrder
    <3>5. j \in A[i] <=> (list[j].priority < list[i].priority \/ (list[j].priority = list[i].priority /\ j < i))
      BY <2>1 DEF AheadIn
    <3>6. (list[j].priority < list[i].priority \/ (list[j].priority = list[i].priority /\ j < i)) <=> j < i
      <4> DEFINE p == list[j].priority
                 q == list[i].priority
      <4>1. p \in Nat /\ q \in Nat /\ j \in Nat /\ i \in Nat
        BY <2>1, <3>1, <3>2
      <4>2. (j < i => p <= q) /\ (i < j => q <= p) /\ (i = j => p = q)
        BY <3>3, <3>4
      <4> HIDE DEF p, q
      <4>3. (p < q \/ (p = q /\ j < i)) <=> j < i
        BY <4>1, <4>2, AheadWhereInOrder
      <4>4. QED
        BY <4>3 DEF p, q
    <3>7. QED
      BY <3>5, <3>6
  <2>3. A[i] \in SUBSET (1 .. n) /\ i - 1 \in Nat /\ k - 1 \in Nat
    BY <1>2a, <2>1
  <2>4. IsFiniteSet(1 .. n) /\ IsFiniteSet(1 .. i - 1) /\ Cardinality(1 .. i - 1) = i - 1
    BY <1>2, <2>3, UpToSize
  <2>5. IsFiniteSet(A[i])
    BY <2>3, <2>4, FS_Subset
  <2>6. Cardinality(A[i] \cup {f}) <= k /\ Cardinality((1 .. i - 1) \cup {f}) <= i /\ IsFiniteSet(A[i] \cup {f}) /\ IsFiniteSet((1 .. i - 1) \cup {f})
    <3> HIDE DEF A
    <3>1. /\ Cardinality(A[i] \cup {f}) = IF f \in A[i] THEN Cardinality(A[i]) ELSE Cardinality(A[i]) + 1
          /\ IsFiniteSet(A[i] \cup {f})
      BY <2>5, FS_AddElement
    <3> DEFINE U == 1 .. i - 1
    <3>2. IsFiniteSet(U) /\ Cardinality(U) = i - 1
      BY <2>4
    <3> HIDE DEF U
    <3>3. /\ Cardinality(U \cup {f}) = IF f \in U THEN Cardinality(U) ELSE Cardinality(U) + 1
          /\ IsFiniteSet(U \cup {f})
      BY <3>2, FS_AddElement
    <3>4. QED
      BY <2>1, <2>3, <3>1, <3>2, <3>3 DEF U
  <2>7. A[i] \in SUBSET ((1 .. i - 1) \cup {f}) /\ 1 .. i - 1 \in SUBSET (A[i] \cup {f})
    <3>1. ASSUME NEW j \in A[i] PROVE j \in (1 .. i - 1) \cup {f}
      <4>1. j \in 1 .. n
        BY <2>3
      <4>2. j # f => j < i
        BY <2>2, <4>1
      <4>3. QED
        BY <2>1, <4>1, <4>2
    <3>2. ASSUME NEW j \in 1 .. i - 1 PROVE j \in A[i] \cup {f}
      <4>1. j \in 1 .. n /\ j < i
        BY <1>2, <2>1
      <4>2. QED
        BY <2>2, <4>1
    <3>3. QED
      BY <3>1, <3>2
  <2>8. Cardinality(A[i]) <= Cardinality((1 .. i - 1) \cup {f})
    <3> HIDE DEF A
    <3>1. QED
      BY <2>6, <2>7, FS_Subset
  <2>9. k <= i + 1
    <3>1. Cardinality((1 .. i - 1) \cup {f}) \in Nat
      BY <2>6, FS_CardinalityType
    <3>2. QED
      BY <2>1, <2>3, <2>6, <2>8, <3>1
  <2>10. CASE gone = 1
    <3>1. Cardinality(1 .. i - 1) <= Cardinality(A[i] \cup {f})
      <4> HIDE DEF A
      <4>1. QED
        BY <2>6, <2>7, FS_Subset
    <3>2. Cardinality(A[i] \cup {f}) \in Nat
      BY <2>6, FS_CardinalityType
    <3>3. i <= k + 1
      BY <2>1, <2>4, <2>6, <3>1, <3>2
    <3>4. QED
      BY <2>1, <2>9, <2>10, <3>3
  <2>11. CASE gone = 0
    <3>1. f \notin 1 .. i - 1
      BY <1>2, <2>1, <2>11
    <3>2. 1 .. i - 1 \in SUBSET A[i]
      BY <2>7, <3>1
    <3>3. Cardinality(1 .. i - 1) <= Cardinality(A[i])
      <4> HIDE DEF A
      <4>1. QED
        BY <2>5, <3>2, FS_Subset
    <3>4. i <= k
      BY <2>1, <2>4, <3>3
    <3>5. QED
      BY <2>1, <2>9, <2>11, <3>4
  <2>12. QED
    BY <2>10, <2>11
<1>4. ASSUME NEW k \in 1 .. n, Q[k] = f PROVE r[k].no = list[f].no
  BY <1>1, <1>4 DEF Sorts
<1>5. QED
  BY <1>2, <1>3, <1>4 DEF Shifted, r

-----------------------------------------------------------------------------
(* The execution: what it left behind, and what it will run again.            *)

Behind(a, at, left) == {n \in left : \E i \in 1 .. Len(a) : i <= at /\ a[i].no = n}
Again(a, at, done) == {n \in done : \E i \in 1 .. Len(a) : i > at /\ a[i].no = n}

LEMMA OneElementMore ==
  ASSUME NEW S, IsFiniteSet(S), NEW x, NEW T, T \in SUBSET (S \cup {x})
  PROVE  IsFiniteSet(T) /\ Cardinality(T) \in Nat /\ Cardinality(S) \in Nat /\ Cardinality(T) <= Cardinality(S) + 1
<1>1. IsFiniteSet(S \cup {x}) /\ Cardinality(S \cup {x}) <= Cardinality(S) + 1 /\ Cardinality(S) \in Nat
  BY FS_AddElement, FS_CardinalityType
<1>2. IsFiniteSet(T) /\ Cardinality(T) <= Cardinality(S \cup {x})
  BY <1>1, FS_Subset
<1>3. Cardinality(T) \in Nat /\ Cardinality(S \cup {x}) \in Nat
  BY <1>1, <1>2, FS_CardinalityType
<1>4. QED
  BY <1>1, <1>2, <1>3

LEMMA NumbersAreFew ==
  ASSUME NEW S \in SUBSET (1 .. MaxSteps)
  PROVE  IsFiniteSet(S) /\ Cardinality(S) \in Nat
<1>1. IsFiniteSet(1 .. MaxSteps)
  BY RegistryAssumption, UpToSize
<1>2. QED
  BY <1>1, FS_Subset, FS_CardinalityType

LEMMA OneIsAdded ==
  ASSUME NEW ran \in Seq(1 .. MaxSteps), NEW x \in 1 .. MaxSteps
  PROVE  /\ Append(ran, x) \in Seq(1 .. MaxSteps) /\ Len(Append(ran, x)) = Len(ran) + 1 /\ Len(ran) \in Nat
         /\ ToSet(Append(ran, x)) = ToSet(ran) \cup {x} /\ ToSet(ran) \in SUBSET (1 .. MaxSteps)
         /\ \A i \in 1 .. Len(ran) : Append(ran, x)[i] = ran[i]
         /\ Append(ran, x)[Len(ran) + 1] = x
<1>1. /\ Append(ran, x) \in Seq(1 .. MaxSteps) /\ Len(Append(ran, x)) = Len(ran) + 1 /\ Len(ran) \in Nat
      /\ \A i \in 1 .. Len(ran) : Append(ran, x)[i] = ran[i]
      /\ Append(ran, x)[Len(ran) + 1] = x
  BY AppendProperties, LenProperties
<1>2. DOMAIN ran = 1 .. Len(ran) /\ DOMAIN Append(ran, x) = 1 .. Len(ran) + 1 /\ \A i \in 1 .. Len(ran) : ran[i] \in 1 .. MaxSteps
  BY <1>1, LenProperties
<1> DEFINE r == Append(ran, x)
<1> HIDE DEF r
<1>3. ToSet(r) = ToSet(ran) \cup {x}
  <2>1. ASSUME NEW n \in ToSet(r) PROVE n \in ToSet(ran) \cup {x}
    <3>1. PICK i \in 1 .. Len(ran) + 1 : r[i] = n
      BY <1>2, <2>1 DEF ToSet, r
    <3>2. CASE i \in 1 .. Len(ran)
      BY <1>1, <1>2, <3>1, <3>2 DEF ToSet, r
    <3>3. CASE i = Len(ran) + 1
      BY <1>1, <3>1, <3>3 DEF r
    <3>4. QED
      BY <1>1, <3>2, <3>3
  <2>2. ASSUME NEW n \in ToSet(ran) PROVE n \in ToSet(r)
    <3>1. PICK i \in 1 .. Len(ran) : ran[i] = n
      BY <1>2, <2>2 DEF ToSet
    <3>2. i \in 1 .. Len(ran) + 1 /\ r[i] = n
      BY <1>1, <3>1 DEF r
    <3>3. QED
      BY <1>2, <3>2 DEF ToSet, r
  <2>3. x \in ToSet(r)
    <3>1. Len(ran) + 1 \in 1 .. Len(ran) + 1 /\ r[Len(ran) + 1] = x
      BY <1>1 DEF r
    <3>2. QED
      BY <1>2, <3>1 DEF ToSet, r
  <2>4. QED
    BY <2>1, <2>2, <2>3
<1>4. ToSet(ran) \in SUBSET (1 .. MaxSteps)
  BY <1>2 DEF ToSet
<1>5. QED
  BY <1>1, <1>3, <1>4 DEF r

\* The next step is run.
LEMMA NextIsRun ==
  ASSUME NEW a \in Seq(Step), Distinct(a), NEW at \in Nat, at < Len(a), NEW ran \in Seq(1 .. MaxSteps),
         NEW members \in SUBSET (1 .. MaxSteps), NEW gone \in Nat, NEW come \in Nat,
         Cardinality(Behind(a, at, members \ ToSet(ran))) <= gone,
         Len(ran) + Cardinality(Again(a, at, ToSet(ran))) <= Cardinality(ToSet(ran)) + come
  PROVE  /\ Cardinality(Behind(a, at + 1, members \ ToSet(Append(ran, a[at + 1].no)))) <= gone
         /\ Len(Append(ran, a[at + 1].no)) + Cardinality(Again(a, at + 1, ToSet(Append(ran, a[at + 1].no))))
              <= Cardinality(ToSet(Append(ran, a[at + 1].no))) + come
<1> DEFINE x == a[at + 1].no
           r == Append(ran, x)
           R == ToSet(ran)
           B0 == Behind(a, at, members \ R)
           B1 == Behind(a, at + 1, members \ ToSet(r))
           A0 == Again(a, at, R)
           A1 == Again(a, at + 1, ToSet(r))
<1>1. Len(a) \in Nat /\ at + 1 \in 1 .. Len(a)
  BY LenProperties
<1>2. x \in 1 .. MaxSteps
  BY <1>1, StepsAreTyped
<1>3. Len(r) = Len(ran) + 1 /\ Len(ran) \in Nat /\ ToSet(r) = R \cup {x} /\ R \in SUBSET (1 .. MaxSteps)
  BY <1>2, OneIsAdded
<1>4. \A i \in 1 .. Len(a) : i \in Nat /\ (a[i].no = x <=> i = at + 1)
  BY <1>1 DEF Distinct
<1> HIDE DEF x, r, R
<1>5. B1 \in SUBSET B0
  BY <1>3, <1>4 DEF Behind
<1>6. A1 \in SUBSET (A0 \ {x})
  BY <1>3, <1>4 DEF Again
<1>7. B0 \in SUBSET (1 .. MaxSteps) /\ A0 \in SUBSET (1 .. MaxSteps)
  BY <1>3 DEF Behind, Again
<1>8. x \in R => x \in A0
  BY <1>1, <1>4 DEF Again
<1> HIDE DEF A0, A1, B0, B1
<1>9. IsFiniteSet(B0) /\ IsFiniteSet(A0) /\ IsFiniteSet(R) /\ Cardinality(B0) \in Nat /\ Cardinality(A0) \in Nat /\ Cardinality(R) \in Nat
  BY <1>3, <1>7, NumbersAreFew
<1>10. Cardinality(B1) <= gone
  <2>1. IsFiniteSet(B1) /\ Cardinality(B1) <= Cardinality(B0) /\ Cardinality(B1) \in Nat
    BY <1>5, <1>9, FS_Subset, FS_CardinalityType
  <2>2. Cardinality(B0) <= gone
    BY DEF B0, R
  <2>3. QED
    BY <1>9, <2>1, <2>2
<1>11. Len(r) + Cardinality(A1) <= Cardinality(ToSet(r)) + come
  <2>1. /\ IsFiniteSet(A0 \ {x}) /\ Cardinality(A0 \ {x}) = IF x \in A0 THEN Cardinality(A0) - 1 ELSE Cardinality(A0)
    BY <1>9, FS_RemoveElement
  <2>2. Cardinality(A1) <= Cardinality(A0 \ {x}) /\ IsFiniteSet(A1)
    BY <1>6, <2>1, FS_Subset
  <2>3. Cardinality(A1) \in Nat
    BY <2>2, FS_CardinalityType
  <2>4. Cardinality(R \cup {x}) = IF x \in R THEN Cardinality(R) ELSE Cardinality(R) + 1
    BY <1>9, FS_AddElement
  <2>5. Len(ran) + Cardinality(A0) <= Cardinality(R) + come
    BY DEF A0, R
  <2>6. CASE x \in R
    <3>1. Cardinality(A1) <= Cardinality(A0) - 1 /\ Cardinality(R \cup {x}) = Cardinality(R)
      BY <1>8, <2>1, <2>2, <2>4, <2>6
    <3>2. QED
      BY <1>3, <1>9, <2>3, <2>5, <3>1
  <2>7. CASE x \notin R
    <3>1. Cardinality(A1) <= Cardinality(A0) /\ Cardinality(R \cup {x}) = Cardinality(R) + 1
      <4>1. Cardinality(A0 \ {x}) <= Cardinality(A0)
        BY <1>9, <2>1
      <4>2. Cardinality(A0 \ {x}) \in Nat
        BY <2>1, FS_CardinalityType
      <4>3. QED
        BY <1>9, <2>2, <2>3, <2>4, <2>7, <4>1, <4>2
    <3>2. QED
      BY <1>3, <1>9, <2>3, <2>5, <3>1
  <2>8. QED
    BY <2>6, <2>7
<1>12. QED
  BY <1>10, <1>11 DEF A1, B1, r, x

\* At the end of the array nothing is ahead.
LEMMA EndIsBehind ==
  ASSUME NEW a \in Seq(Step), NEW at \in Nat, at >= Len(a), NEW left,
         \A n \in left : \E i \in 1 .. Len(a) : a[i].no = n
  PROVE  Behind(a, at, left) = left
<1>1. Len(a) \in Nat
  BY LenProperties
<1>2. ASSUME NEW n \in left PROVE \E i \in 1 .. Len(a) : i <= at /\ a[i].no = n
  <2>1. PICK i \in 1 .. Len(a) : a[i].no = n
    OBVIOUS
  <2>2. i <= at
    BY <1>1
  <2>3. QED
    BY <2>1, <2>2
<1>3. QED
  BY <1>2 DEF Behind

LEMMA CountedInNumbers ==
  ASSUME NEW a, NEW at, NEW S \in SUBSET (1 .. MaxSteps)
  PROVE  Cardinality(Behind(a, at, S)) \in Nat /\ Cardinality(Again(a, at, S)) \in Nat
<1>1. Behind(a, at, S) \in SUBSET (1 .. MaxSteps) /\ Again(a, at, S) \in SUBSET (1 .. MaxSteps)
  BY DEF Behind, Again
<1>2. QED
  BY <1>1, NumbersAreFew

\* The array is edited while a step runs.
LEMMA EditCostsOne ==
  ASSUME NEW old \in Seq(Step), NEW new \in Seq(Step), NEW no, NEW gone \in {0, 1}, NEW come \in {0, 1},
         Shifted(old, new, no, gone, come), NEW at \in Nat,
         NEW members \in SUBSET (1 .. MaxSteps), NEW R \in SUBSET (1 .. MaxSteps), no \notin members, no \notin R
  PROVE  /\ Cardinality(Behind(new, at, (members \cap Numbers(new)) \ R))
              <= Cardinality(Behind(old, at, members \ R)) + gone
         /\ Cardinality(Again(new, at, R)) <= Cardinality(Again(old, at, R)) + come
<1> DEFINE B0 == Behind(old, at, members \ R)
           B1 == Behind(new, at, (members \cap Numbers(new)) \ R)
           A0 == Again(old, at, R)
           A1 == Again(new, at, R)
<1>1. Len(old) \in Nat /\ Len(new) \in Nat
  BY LenProperties
<1>2. B0 \in SUBSET (1 .. MaxSteps) /\ A0 \in SUBSET (1 .. MaxSteps) /\ B1 \in SUBSET (1 .. MaxSteps) /\ A1 \in SUBSET (1 .. MaxSteps)
  BY DEF Behind, Again
<1>3. ASSUME NEW n \in members \cup R, NEW k \in 1 .. Len(new), new[k].no = n
      PROVE  \E i \in 1 .. Len(old) : old[i].no = n /\ i <= k + gone /\ k <= i + come
  BY <1>3 DEF Shifted
<1>4. ASSUME NEW n \in B1 PROVE n \in B0 \/ (gone = 1 /\ n = old[at + 1].no)
  <2>1. PICK k \in 1 .. Len(new) : k <= at /\ new[k].no = n
    BY DEF Behind
  <2>2. n \in members \ R
    BY DEF Behind
  <2>3. PICK i \in 1 .. Len(old) : old[i].no = n /\ i <= k + gone
    BY <1>3, <2>1, <2>2
  <2>4. CASE i <= at
    BY <2>2, <2>3, <2>4 DEF Behind
  <2>5. CASE ~(i <= at)
    BY <1>1, <2>1, <2>3, <2>5
  <2>6. QED
    BY <2>4, <2>5
<1>5. ASSUME NEW n \in A1 PROVE n \in A0 \/ (come = 1 /\ n = old[at].no)
  <2>1. PICK k \in 1 .. Len(new) : k > at /\ new[k].no = n
    BY DEF Again
  <2>2. n \in R
    BY DEF Again
  <2>3. PICK i \in 1 .. Len(old) : old[i].no = n /\ k <= i + come
    BY <1>3, <2>1, <2>2
  <2>4. CASE i > at
    BY <2>2, <2>3, <2>4 DEF Again
  <2>5. CASE ~(i > at)
    BY <1>1, <2>1, <2>3, <2>5
  <2>6. QED
    BY <2>4, <2>5
<1> HIDE DEF A0, A1, B0, B1
<1>6. /\ IsFiniteSet(B0) /\ Cardinality(B0) \in Nat /\ IsFiniteSet(A0) /\ Cardinality(A0) \in Nat
      /\ Cardinality(B1) \in Nat /\ Cardinality(A1) \in Nat
  BY <1>2, NumbersAreFew
<1>7. Cardinality(B1) <= Cardinality(B0) + gone
  <2>1. CASE gone = 1
    <3>1. B1 \in SUBSET (B0 \cup {old[at + 1].no})
      BY <1>4
    <3>2. QED
      BY <1>6, <2>1, <3>1, OneElementMore
  <2>2. CASE gone = 0
    <3>1. B1 \in SUBSET B0
      BY <1>4, <2>2
    <3>2. Cardinality(B1) <= Cardinality(B0)
      BY <1>6, <3>1, FS_Subset
    <3>3. QED
      BY <1>6, <2>2, <3>2
  <2>3. QED
    BY <2>1, <2>2
<1>8. Cardinality(A1) <= Cardinality(A0) + come
  <2>1. CASE come = 1
    <3>1. A1 \in SUBSET (A0 \cup {old[at].no})
      BY <1>5
    <3>2. QED
      BY <1>6, <2>1, <3>1, OneElementMore
  <2>2. CASE come = 0
    <3>1. A1 \in SUBSET A0
      BY <1>5, <2>2
    <3>2. Cardinality(A1) <= Cardinality(A0)
      BY <1>6, <3>1, FS_Subset
    <3>3. QED
      BY <1>6, <2>2, <3>2
  <2>3. QED
    BY <2>1, <2>2
<1>9. QED
  BY <1>6, <1>7, <1>8 DEF A0, A1, B0, B1

WalkRecord == [doing : {"nothing", "step", "done", "ended"}, apart : BOOLEAN, array : Seq(Step), at : Nat,
               ran : Seq(1 .. MaxSteps), members : SUBSET (1 .. MaxSteps), gone : Nat, come : Nat]
NumberedTo(list, n) == \A i \in 1 .. Len(list) : list[i].no <= n
\* The execution is at its place in the array a.
FairWalk(a, at, ran, members, gone, come) ==
  /\ \A n \in members : \E i \in 1 .. Len(a) : a[i].no = n
  /\ Cardinality(Behind(a, at, members \ ToSet(ran))) <= gone
  /\ Len(ran) + Cardinality(Again(a, at, ToSet(ran))) <= Cardinality(ToSet(ran)) + come
  /\ gone + come = 0 => ran = [i \in 1 .. at |-> a[i].no]
Iterated(w, a) == IF w.apart THEN w.array ELSE a
WalkIsFair(w, a, n) ==
  /\ w \in WalkRecord
  /\ Distinct(w.array) /\ NumberedTo(w.array, n) /\ ToSet(w.ran) \subseteq 1 .. n /\ w.members \subseteq 1 .. n
  /\ w.doing = "nothing" => ~w.apart /\ w.at = 0 /\ w.ran = <<>> /\ w.gone = 0 /\ w.come = 0
  /\ w.doing = "step" => FairWalk(Iterated(w, a), w.at, w.ran, w.members, w.gone, w.come)
  /\ Len(w.ran) <= Cardinality(ToSet(w.ran)) + w.come
  /\ w.doing = "done" => Cardinality(w.members \ ToSet(w.ran)) <= w.gone
RegistryInv ==
  /\ steps \in Seq(Step) /\ stepNo \in 0 .. MaxSteps /\ edition \in Nat
  /\ InOrder(steps) /\ Distinct(steps) /\ NumberedTo(steps, stepNo)
  /\ WalkIsFair(walk, steps, stepNo)

LEMMA NoStepsYet ==
  /\ <<>> \in Seq(Step) /\ InOrder(<<>>) /\ Distinct(<<>>) /\ \A n : NumberedTo(<<>>, n)
  /\ <<>> \in Seq(1 .. MaxSteps) /\ ToSet(<<>>) = {} /\ Len(<<>>) = 0
<1>1. <<>> \in Seq(Step) /\ <<>> \in Seq(1 .. MaxSteps) /\ Len(<<>>) = 0 /\ DOMAIN <<>> = {}
  OBVIOUS
<1>2. 1 .. 0 = {}
  OBVIOUS
<1>3. InOrder(<<>>) /\ Distinct(<<>>) /\ \A n : NumberedTo(<<>>, n)
  BY <1>1, <1>2 DEF InOrder, Distinct, NumberedTo
<1>4. ToSet(<<>>) = {}
  BY <1>1 DEF ToSet
<1>5. QED
  BY <1>1, <1>3, <1>4

LEMMA RegistryStarts == RegistryInit => RegistryInv
<1> SUFFICES ASSUME RegistryInit PROVE RegistryInv
  OBVIOUS
<1>1. /\ steps = <<>> /\ stepNo = 0 /\ edition = 0
      /\ walk = [doing |-> "nothing", apart |-> FALSE, array |-> <<>>, at |-> 0,
                 ran |-> <<>>, members |-> {}, gone |-> 0, come |-> 0]
  BY DEF RegistryInit
<1>2. walk \in WalkRecord
  BY <1>1, NoStepsYet DEF WalkRecord
<1>3. /\ ~walk.apart /\ walk.array = <<>> /\ walk.at = 0 /\ walk.ran = <<>> /\ walk.members = {}
      /\ walk.gone = 0 /\ walk.come = 0 /\ walk.doing = "nothing"
  BY <1>1
<1>4. WalkIsFair(walk, steps, stepNo)
  <2>1. Distinct(walk.array) /\ NumberedTo(walk.array, stepNo)
    BY <1>3, NoStepsYet
  <2>2. ToSet(walk.ran) = {} /\ Len(walk.ran) = 0
    BY <1>3, NoStepsYet
  <2>3. Len(walk.ran) <= Cardinality(ToSet(walk.ran)) + walk.come
    BY <1>3, <2>2, FS_EmptySet
  <2>4. QED
    BY <1>2, <1>3, <2>1, <2>2, <2>3 DEF WalkIsFair
<1>5. 0 \in 0 .. MaxSteps /\ 0 \in Nat
  BY RegistryAssumption
<1>6. QED
  BY <1>1, <1>4, <1>5, NoStepsYet DEF RegistryInv

LEMMA NumbersOf ==
  ASSUME NEW list \in Seq(Step)
  PROVE  \A n : n \in Numbers(list) <=> \E i \in 1 .. Len(list) : list[i].no = n
<1>1. DOMAIN list = 1 .. Len(list)
  BY LenProperties
<1>2. QED
  BY <1>1 DEF Numbers

\* A longer history numbers no less.
LEMMA MoreAreNumbered ==
  ASSUME NEW w, NEW a, NEW n \in Nat, NEW m \in Nat, n <= m, WalkIsFair(w, a, n), NEW b,
         w.doing = "step" => w.apart \/ b = a
  PROVE  WalkIsFair(w, b, m)
<1>1. w \in WalkRecord /\ w.array \in Seq(Step)
  BY DEF WalkIsFair, WalkRecord
<1>2. NumberedTo(w.array, m)
  <2>1. ASSUME NEW i \in 1 .. Len(w.array) PROVE w.array[i].no <= m
    <3>1. w.array[i].no \in Nat
      BY <1>1, StepsAreTyped
    <3>2. w.array[i].no <= n
      BY DEF WalkIsFair, NumberedTo
    <3>3. QED
      BY <3>1, <3>2
  <2>2. QED
    BY <2>1 DEF NumberedTo
<1>3. ToSet(w.ran) \subseteq 1 .. m /\ w.members \subseteq 1 .. m
  <2>1. \A i \in 1 .. n : i \in 1 .. m
    OBVIOUS
  <2>2. QED
    BY <2>1 DEF WalkIsFair
<1>4. w.doing = "step" => Iterated(w, b) = Iterated(w, a)
  BY DEF Iterated
<1>5. QED
  BY <1>1, <1>2, <1>3, <1>4 DEF WalkIsFair

Recounts(v, w, m, g, c) ==
  /\ v \in WalkRecord /\ v.members = m /\ v.gone = g /\ v.come = c
  /\ v.doing = w.doing /\ v.apart = w.apart /\ v.array = w.array /\ v.at = w.at /\ v.ran = w.ran
LEMMA EditedRecord ==
  ASSUME NEW w \in WalkRecord, NEW m \in SUBSET (1 .. MaxSteps), NEW g \in Nat, NEW c \in Nat
  PROVE  Recounts([w EXCEPT !.members = m, !.gone = g, !.come = c], w, m, g, c)
BY DEF WalkRecord, Recounts

\* Whoever edits the array at most takes one step out and puts one in.
LEMMA EditKeeps ==
  ASSUME RegistryInv, NEW list \in Seq(Step), InOrder(list), Distinct(list), NEW gone \in {0, 1}, NEW come \in {0, 1},
         gone + come # 0, stepNo + come <= MaxSteps, NumberedTo(list, stepNo + come),
         Shifted(steps, list, stepNo + 1, gone, come), Edit(list, gone, come)
  PROVE  RegistryInv'
<1>1. /\ steps \in Seq(Step) /\ stepNo \in Nat /\ MaxSteps \in Nat /\ edition \in Nat /\ WalkIsFair(walk, steps, stepNo)
      /\ stepNo <= MaxSteps
  BY RegistryAssumption DEF RegistryInv
<1>2. steps' = list /\ stepNo' = stepNo + come /\ edition' = edition + 1
  BY DEF Edit
<1>3. stepNo' \in 0 .. MaxSteps /\ stepNo' \in Nat /\ stepNo <= stepNo' /\ edition' \in Nat
  BY <1>1, <1>2
<1>4. CASE walk.apart \/ walk.doing # "step"
  <2>1. walk' = walk
    BY <1>4 DEF Edit
  <2>2. walk.doing = "step" => walk.apart \/ list = steps
    BY <1>4
  <2>3. WalkIsFair(walk, list, stepNo + come)
    BY <1>1, <1>2, <1>3, <2>2, MoreAreNumbered
  <2>4. QED
    BY <1>2, <1>3, <2>1, <2>3 DEF RegistryInv
<1>5. CASE ~walk.apart /\ walk.doing = "step"
  <2> DEFINE m == walk.members \cap Numbers(list)
             g == walk.gone + gone
             c == walk.come + come
             v == [walk EXCEPT !.members = m, !.gone = g, !.come = c]
             R == ToSet(walk.ran)
  <2>1. walk' = v
    BY <1>5 DEF Edit
  <2>2. /\ walk \in WalkRecord /\ walk.gone \in Nat /\ walk.come \in Nat /\ walk.at \in Nat /\ walk.ran \in Seq(1 .. MaxSteps)
        /\ walk.members \subseteq 1 .. stepNo /\ R \subseteq 1 .. stepNo /\ walk.array \in Seq(Step)
        /\ Distinct(walk.array) /\ NumberedTo(walk.array, stepNo)
    BY <1>1 DEF WalkIsFair, WalkRecord
  <2>3. FairWalk(steps, walk.at, walk.ran, walk.members, walk.gone, walk.come)
    BY <1>1, <1>5 DEF WalkIsFair, Iterated
  <2>4. g \in Nat /\ c \in Nat /\ g + c # 0 /\ m \in SUBSET (1 .. MaxSteps)
    <3>1. gone \in Nat /\ come \in Nat
      OBVIOUS
    <3>2. g \in Nat /\ c \in Nat
      BY <2>2, <3>1
    <3>3. \A x \in Nat : \A y \in Nat : (x + gone) + (y + come) # 0
      BY <3>1
    <3>4. g + c # 0
      BY <2>2, <3>3
    <3>5. \A n \in 1 .. stepNo : n \in 1 .. MaxSteps
      BY <1>1
    <3>6. m \in SUBSET (1 .. MaxSteps)
      BY <2>2, <3>5
    <3>7. QED
      BY <3>2, <3>4, <3>6
  <2>5. \A n \in 1 .. stepNo : n \in 1 .. MaxSteps /\ n \in 1 .. stepNo' /\ n # stepNo + 1
    BY <1>1, <1>2, <1>3
  <2>6. walk.members \in SUBSET (1 .. MaxSteps) /\ R \in SUBSET (1 .. MaxSteps) /\ stepNo + 1 \notin walk.members /\ stepNo + 1 \notin R
    BY <2>2, <2>5
  <2>7. /\ v \in WalkRecord /\ v.members = m /\ v.gone = g /\ v.come = c
        /\ v.doing = walk.doing /\ v.apart = walk.apart /\ v.array = walk.array /\ v.at = walk.at /\ v.ran = walk.ran
    <3>1. walk \in WalkRecord /\ m \in SUBSET (1 .. MaxSteps) /\ g \in Nat /\ c \in Nat
      BY <2>2, <2>4
    <3> HIDE DEF m, g, c
    <3>2. Recounts(v, walk, m, g, c)
      BY <3>1, EditedRecord
    <3> HIDE DEF v
    <3>3. QED
      BY <3>2 DEF Recounts
  <2>8. /\ Cardinality(Behind(list, walk.at, m \ R)) <= Cardinality(Behind(steps, walk.at, walk.members \ R)) + gone
        /\ Cardinality(Again(list, walk.at, R)) <= Cardinality(Again(steps, walk.at, R)) + come
        /\ Cardinality(Behind(steps, walk.at, walk.members \ R)) \in Nat /\ Cardinality(Again(steps, walk.at, R)) \in Nat
        /\ Cardinality(Behind(list, walk.at, m \ R)) \in Nat /\ Cardinality(Again(list, walk.at, R)) \in Nat
    <3> DEFINE no == stepNo + 1
               mem == walk.members
               at == walk.at
    <3>1. Shifted(steps, list, no, gone, come) /\ at \in Nat /\ mem \in SUBSET (1 .. MaxSteps) /\ R \in SUBSET (1 .. MaxSteps)
          /\ no \notin mem /\ no \notin R /\ steps \in Seq(Step)
      BY <1>1, <2>2, <2>6
    <3>2. m = mem \cap Numbers(list)
      OBVIOUS
    <3> HIDE DEF R, m, no, mem, at, v, g, c
    <3>3. /\ Cardinality(Behind(list, at, (mem \cap Numbers(list)) \ R)) <= Cardinality(Behind(steps, at, mem \ R)) + gone
          /\ Cardinality(Again(list, at, R)) <= Cardinality(Again(steps, at, R)) + come
          /\ Cardinality(Behind(steps, at, mem \ R)) \in Nat /\ Cardinality(Again(steps, at, R)) \in Nat
          /\ Cardinality(Behind(list, at, (mem \cap Numbers(list)) \ R)) \in Nat /\ Cardinality(Again(list, at, R)) \in Nat
      <4> DEFINE l0 == steps
      <4>1. Shifted(l0, list, no, gone, come) /\ l0 \in Seq(Step)
        BY <3>1
      <4> HIDE DEF l0
      <4>2. /\ Cardinality(Behind(list, at, (mem \cap Numbers(list)) \ R)) <= Cardinality(Behind(l0, at, mem \ R)) + gone
            /\ Cardinality(Again(list, at, R)) <= Cardinality(Again(l0, at, R)) + come
        BY <3>1, <4>1, EditCostsOne, Zenon
      <4>3. /\ Cardinality(Behind(l0, at, mem \ R)) \in Nat /\ Cardinality(Again(l0, at, R)) \in Nat
            /\ Cardinality(Behind(list, at, (mem \cap Numbers(list)) \ R)) \in Nat /\ Cardinality(Again(list, at, R)) \in Nat
        <5>1. mem \ R \in SUBSET (1 .. MaxSteps) /\ (mem \cap Numbers(list)) \ R \in SUBSET (1 .. MaxSteps)
          BY <3>1
        <5>2. QED
          BY <3>1, <5>1, CountedInNumbers
      <4>4. QED
        BY <4>2, <4>3 DEF l0
    <3>4. QED
      BY <3>2, <3>3 DEF mem, at
  <2>9. FairWalk(list, walk.at, walk.ran, m, g, c)
    <3>1. \A n \in m : \E i \in 1 .. Len(list) : list[i].no = n
      BY NumbersOf
    <3>2. /\ Cardinality(Behind(steps, walk.at, walk.members \ R)) <= walk.gone
          /\ Len(walk.ran) + Cardinality(Again(steps, walk.at, R)) <= Cardinality(R) + walk.come
      BY <2>3 DEF FairWalk
    <3>3. Cardinality(R) \in Nat /\ Len(walk.ran) \in Nat
      BY <2>2, <2>6, NumbersAreFew, LenProperties
    <3> DEFINE b0 == Cardinality(Behind(steps, walk.at, walk.members \ R))
               b1 == Cardinality(Behind(list, walk.at, m \ R))
               a0 == Cardinality(Again(steps, walk.at, R))
               a1 == Cardinality(Again(list, walk.at, R))
               k == Cardinality(R)
               l == Len(walk.ran)
    <3>4. b1 <= b0 + gone /\ a1 <= a0 + come /\ b0 <= walk.gone /\ l + a0 <= k + walk.come
          /\ b0 \in Nat /\ b1 \in Nat /\ a0 \in Nat /\ a1 \in Nat /\ k \in Nat /\ l \in Nat
      BY <2>8, <3>2, <3>3
    <3> HIDE DEF b0, b1, a0, a1, k, l, m, R
    <3>5. b1 <= g /\ l + a1 <= k + c
      <4>1. gone \in Nat /\ come \in Nat
        OBVIOUS
      <4> DEFINE x == walk.gone
                 y == walk.come
      <4>2. x \in Nat /\ y \in Nat /\ b0 <= x /\ l + a0 <= k + y
        BY <2>2, <3>4
      <4> HIDE DEF x, y
      <4>3. b1 <= x + gone
        BY <3>4, <4>1, <4>2
      <4>4. l + a1 <= k + (y + come)
        BY <3>4, <4>1, <4>2
      <4>5. QED
        BY <4>3, <4>4 DEF x, y
    <3> HIDE DEF g, c
    <3>6. QED
      BY <2>4, <3>1, <3>5 DEF FairWalk, b1, a1, k, l, R
  <2> HIDE DEF v, m, g, c
  <2>10. Iterated(v, list) = list
    BY <1>5, <2>7 DEF Iterated
  <2>11. Len(walk.ran) <= Cardinality(R) + c
    <3>1. Len(walk.ran) <= Cardinality(R) + walk.come
      BY <1>1 DEF WalkIsFair
    <3>2. Cardinality(R) \in Nat /\ Len(walk.ran) \in Nat
      BY <2>2, <2>6, NumbersAreFew, LenProperties
    <3>3. c >= walk.come
      BY <2>2 DEF c
    <3> HIDE DEF R
    <3>4. QED
      BY <2>2, <2>4, <3>1, <3>2, <3>3
  <2>12. m \subseteq 1 .. stepNo' /\ R \subseteq 1 .. stepNo'
    BY <2>2, <2>5 DEF m
  <2>13. NumberedTo(walk.array, stepNo')
    <3>0. \A x \in Nat : x <= stepNo => x <= stepNo'
      BY <1>1, <1>3
    <3>1. ASSUME NEW i \in 1 .. Len(walk.array) PROVE walk.array[i].no <= stepNo'
      <4>1. walk.array[i].no \in Nat /\ walk.array[i].no <= stepNo
        BY <2>2, StepsAreTyped DEF NumberedTo
      <4>2. QED
        BY <3>0, <4>1
    <3>2. QED
      BY <3>1 DEF NumberedTo
  <2>14. WalkIsFair(v, list, stepNo')
    BY <1>5, <2>2, <2>7, <2>9, <2>10, <2>11, <2>12, <2>13 DEF WalkIsFair
  <2>15. QED
    BY <1>2, <1>3, <2>1, <2>14 DEF RegistryInv
<1>6. QED
  BY <1>4, <1>5

LEMMA NewStepIsTyped ==
  ASSUME RegistryInv, stepNo < MaxSteps, NEW name \in StepName, NEW p \in Nat
  PROVE  /\ NewStep(name, p) \in Step /\ NewStep(name, p).no = stepNo + 1
         /\ stepNo \in Nat /\ stepNo + 1 <= MaxSteps /\ stepNo + 1 \in Nat
<1>1. stepNo \in Nat /\ stepNo + 1 <= MaxSteps /\ stepNo + 1 \in 1 .. MaxSteps
  BY RegistryAssumption DEF RegistryInv
<1>2. QED
  BY <1>1 DEF NewStep, Step

\* The step of the next number stands in the list, and the others have lower ones.
LEMMA NumberedAndDistinct ==
  ASSUME NEW n \in Nat, NEW old \in Seq(Step), Distinct(old), NumberedTo(old, n), NEW list \in Seq(Step),
         NEW f \in 1 .. Len(list), list[f].no = n + 1,
         \A i \in 1 .. Len(list) : i # f => i \in 1 .. Len(old) /\ list[i] = old[i]
  PROVE  Distinct(list) /\ NumberedTo(list, n + 1)
<1>1. ASSUME NEW i \in 1 .. Len(list), i # f PROVE i \in 1 .. Len(old) /\ list[i].no = old[i].no /\ list[i].no \in Nat /\ list[i].no <= n
  <2>1. i \in 1 .. Len(old) /\ list[i] = old[i]
    BY <1>1
  <2>2. old[i].no \in Nat /\ old[i].no <= n
    BY <2>1, StepsAreTyped DEF NumberedTo
  <2>3. QED
    BY <2>1, <2>2
<1>2. NumberedTo(list, n + 1)
  <2>1. ASSUME NEW i \in 1 .. Len(list) PROVE list[i].no <= n + 1
    <3>1. CASE i = f
      BY <3>1
    <3>2. CASE i # f
      BY <1>1, <3>2
    <3>3. QED
      BY <3>1, <3>2
  <2>2. QED
    BY <2>1 DEF NumberedTo
<1>3. ASSUME NEW i \in 1 .. Len(list), NEW j \in 1 .. Len(list), list[i].no = list[j].no PROVE i = j
  <2>1. CASE i = f /\ j # f
    BY <1>1, <1>3, <2>1
  <2>2. CASE i # f /\ j = f
    BY <1>1, <1>3, <2>2
  <2>3. CASE i # f /\ j # f
    <3>1. i \in 1 .. Len(old) /\ j \in 1 .. Len(old) /\ old[i].no = old[j].no
      BY <1>1, <1>3, <2>3
    <3>2. QED
      BY <3>1 DEF Distinct
  <2>4. QED
    BY <2>1, <2>2, <2>3
<1>4. QED
  BY <1>2, <1>3 DEF Distinct

LEMMA SortedIsNumbered ==
  ASSUME NEW list \in Seq(Step), NEW n, NumberedTo(list, n)
  PROVE  NumberedTo(ByPriority(list), n)
<1> DEFINE r == ByPriority(list)
<1>1. PICK Q \in [1 .. Len(list) -> 1 .. Len(list)] : Sorts(list, r, AheadIn(list), Q)
  BY PrioritySorts
<1>2. Len(r) = Len(list)
  BY PrioritySorts
<1> HIDE DEF r
<1>3. ASSUME NEW i \in 1 .. Len(r) PROVE r[i].no <= n
  <2>1. Q[i] \in 1 .. Len(list) /\ r[i] = list[Q[i]]
    BY <1>1, <1>2 DEF Sorts
  <2>2. QED
    BY <2>1 DEF NumberedTo
<1>4. QED
  BY <1>3 DEF NumberedTo, r

\* A new step is put at place f and the list is sorted.
LEMMA PutInKeeps ==
  ASSUME RegistryInv, stepNo < MaxSteps, NEW list \in Seq(Step), NEW f \in 1 .. Len(list), NEW gone \in {0, 1},
         Len(list) = Len(steps) + 1 - gone, gone = 0 => f = Len(list), list[f].no = stepNo + 1,
         \A i \in 1 .. Len(list) : i # f => i \in 1 .. Len(steps) /\ list[i] = steps[i],
         Edit(ByPriority(list), gone, 1)
  PROVE  RegistryInv'
<1>1. steps \in Seq(Step) /\ InOrder(steps) /\ Distinct(steps) /\ NumberedTo(steps, stepNo) /\ stepNo \in Nat /\ stepNo + 1 <= MaxSteps
  BY RegistryAssumption DEF RegistryInv
<1> DEFINE old == steps
           no == stepNo
<1>2. /\ old \in Seq(Step) /\ InOrder(old) /\ Distinct(old) /\ NumberedTo(old, no) /\ no \in Nat
      /\ \A i \in 1 .. Len(list) : i # f => i \in 1 .. Len(old) /\ list[i] = old[i]
      /\ Len(list) = Len(old) + 1 - gone /\ list[f].no = no + 1
  BY <1>1
<1> HIDE DEF old, no
<1>3. Distinct(list) /\ NumberedTo(list, no + 1)
  BY <1>2, NumberedAndDistinct
<1>4. Shifted(old, ByPriority(list), list[f].no, gone, 1)
  BY <1>2, OneIsPutIn
<1>5. ByPriority(list) \in Seq(Step) /\ InOrder(ByPriority(list)) /\ Distinct(ByPriority(list)) /\ NumberedTo(ByPriority(list), no + 1)
  BY <1>3, PrioritySorts, SortedInOrder, SortedIsNumbered
<1> DEFINE r == ByPriority(list)
<1>6. Shifted(steps, r, stepNo + 1, gone, 1) /\ NumberedTo(r, stepNo + 1) /\ Edit(r, gone, 1)
  BY <1>2, <1>4, <1>5 DEF old, no
<1>7. r \in Seq(Step) /\ InOrder(r) /\ Distinct(r)
  BY <1>5
<1>8. gone + 1 # 0
  OBVIOUS
<1> HIDE DEF r
<1>9. QED
  BY <1>1, <1>6, <1>7, <1>8, EditKeeps

LEMMA AddStepKeeps ==
  ASSUME RegistryInv, NEW name \in StepName, NEW p \in Nat, AddStep(name, p)
  PROVE  RegistryInv'
<1> DEFINE s == NewStep(name, p)
           list == Append(steps, s)
<1>1. stepNo < MaxSteps /\ Edit(ByPriority(list), 0, 1)
  BY DEF AddStep
<1>2. s \in Step /\ s.no = stepNo + 1
  BY <1>1, NewStepIsTyped
<1>3. steps \in Seq(Step) /\ Len(steps) \in Nat
  BY LenProperties DEF RegistryInv
<1> HIDE DEF s
<1>4. /\ list \in Seq(Step) /\ Len(list) = Len(steps) + 1
      /\ \A i \in 1 .. Len(steps) : list[i] = steps[i]
      /\ list[Len(steps) + 1] = s
  BY <1>2, <1>3, AppendProperties
<1> DEFINE f == Len(list)
<1> HIDE DEF list
<1>5. f \in 1 .. Len(list) /\ list[f].no = stepNo + 1
  BY <1>2, <1>3, <1>4
<1>6. \A i \in 1 .. Len(list) : i # f => i \in 1 .. Len(steps) /\ list[i] = steps[i]
  BY <1>3, <1>4
<1>7. Len(list) = Len(steps) + 1 - 0 /\ f = Len(list)
  BY <1>3, <1>4
<1> HIDE DEF f
<1>8. QED
  BY <1>1, <1>4, <1>5, <1>6, <1>7, PutInKeeps

LEMMA FirstIsNamed ==
  ASSUME RegistryInv, NEW name, Named(name) # {}
  PROVE  First(name) \in 1 .. Len(steps) /\ steps[First(name)].priority \in Nat
<1>1. steps \in Seq(Step) /\ DOMAIN steps = 1 .. Len(steps)
  BY LenProperties DEF RegistryInv
<1>2. Named(name) \in SUBSET Nat /\ Named(name) \in SUBSET (1 .. Len(steps))
  BY <1>1 DEF Named
<1>3. \E i \in Named(name) : \A j \in Named(name) : i <= j
  BY <1>2, LeastNumber
<1>4. First(name) \in Named(name)
  BY <1>3 DEF First
<1>5. QED
  BY <1>1, <1>2, <1>4, StepsAreTyped

LEMMA ReplaceStepKeeps ==
  ASSUME RegistryInv, NEW name, NEW new \in StepName, NEW p \in Nat, ReplaceStep(name, new, p)
  PROVE  RegistryInv'
<1> DEFINE s == NewStep(new, p)
           f == First(name)
           list == [steps EXCEPT ![f] = s]
<1>1. stepNo < MaxSteps /\ Edit(ByPriority(list), 1, 1) /\ Named(name) # {}
  BY DEF ReplaceStep
<1>2. s \in Step /\ s.no = stepNo + 1
  BY <1>1, NewStepIsTyped
<1>3. f \in 1 .. Len(steps)
  BY <1>1, FirstIsNamed
<1>4. steps \in Seq(Step) /\ Len(steps) \in Nat
  BY LenProperties DEF RegistryInv
<1> HIDE DEF s, f
<1>5. /\ list \in Seq(Step) /\ Len(list) = Len(steps) /\ list[f] = s
      /\ \A i \in 1 .. Len(steps) : i # f => list[i] = steps[i]
  BY <1>2, <1>3, <1>4, ExceptSeq
<1> HIDE DEF list
<1>6. /\ f \in 1 .. Len(list) /\ Len(list) = Len(steps) + 1 - 1 /\ list[f].no = stepNo + 1
      /\ \A i \in 1 .. Len(list) : i # f => i \in 1 .. Len(steps) /\ list[i] = steps[i]
  BY <1>2, <1>3, <1>4, <1>5
<1>7. QED
  BY <1>1, <1>5, <1>6, PutInKeeps

LEMMA InsertBetweenKeeps ==
  ASSUME RegistryInv, NEW after, NEW before, NEW name \in StepName, InsertBetween(after, before, name)
  PROVE  RegistryInv'
<1> DEFINE p == (steps[First(after)].priority + steps[First(before)].priority) \div 2
<1>1. steps[First(after)].priority \in Nat /\ steps[First(before)].priority \in Nat
  BY FirstIsNamed DEF InsertBetween
<1>2. p \in Nat
  BY <1>1
<1>3. AddStep(name, p)
  BY DEF InsertBetween
<1> HIDE DEF p
<1>4. QED
  BY <1>2, <1>3, AddStepKeeps

LEMMA RemoveStepKeeps ==
  ASSUME RegistryInv, NEW name, RemoveStep(name)
  PROVE  RegistryInv'
<1> DEFINE f == First(name)
           old == steps
           list == RemoveAt(old, f)
<1>1. Named(name) # {} /\ Edit(list, 1, 0)
  BY DEF RemoveStep
<1>2. f \in 1 .. Len(old)
  BY <1>1, FirstIsNamed
<1>3. old \in Seq(Step) /\ Len(old) \in Nat /\ InOrder(old) /\ Distinct(old) /\ NumberedTo(old, stepNo) /\ stepNo \in Nat /\ stepNo <= MaxSteps
  BY LenProperties, RegistryAssumption DEF RegistryInv
<1> HIDE DEF f, old
<1>4. list \in Seq(Step) /\ IsWithout(list, old, f)
  BY <1>2, <1>3, OneIsTakenOut
<1> HIDE DEF list
<1>5. Len(list) = Len(old) - 1 /\ Len(list) \in Nat
  BY <1>4, LenProperties DEF IsWithout
<1>6. ASSUME NEW j \in 1 .. Len(list) PROVE j \in Nat /\ Past(f, j) \in 1 .. Len(old) /\ list[j] = old[Past(f, j)]
  BY <1>4, <1>5 DEF IsWithout
<1>7. ASSUME NEW j \in 1 .. Len(list), NEW k \in 1 .. Len(list)
      PROVE  /\ Past(f, j) = Past(f, k) => j = k
             /\ j < k => Past(f, j) < Past(f, k)
             /\ Past(f, j) <= j + 1 /\ Past(f, j) >= j
  <2>1. f \in Nat /\ j \in Nat /\ k \in Nat
    BY <1>2, <1>3
  <2>2. QED
    BY <2>1, PastIsMonotone
<1>8. InOrder(list)
  BY <1>3, <1>6, <1>7 DEF InOrder
<1>9. Distinct(list)
  BY <1>3, <1>6, <1>7 DEF Distinct
<1>10. NumberedTo(list, stepNo)
  BY <1>3, <1>6 DEF NumberedTo
<1>11. Shifted(old, list, stepNo + 1, 1, 0)
  <2>1. ASSUME NEW k \in 1 .. Len(list) PROVE \E i \in 1 .. Len(old) : list[k] = old[i] /\ i <= k + 1 /\ k <= i + 0
    <3>1. Past(f, k) \in 1 .. Len(old) /\ list[k] = old[Past(f, k)] /\ Past(f, k) <= k + 1 /\ k <= Past(f, k) + 0
      BY <1>3, <1>6, <1>7
    <3>2. QED
      BY <3>1
  <2>2. QED
    BY <2>1 DEF Shifted
<1>12. stepNo + 0 <= MaxSteps /\ NumberedTo(list, stepNo + 0) /\ 1 + 0 # 0
  BY <1>3, <1>10
<1>13. Shifted(steps, list, stepNo + 1, 1, 0)
  BY <1>11 DEF old
<1>14. QED
  BY <1>1, <1>4, <1>8, <1>9, <1>12, <1>13, EditKeeps

GoneOn(v, w, x) ==
  /\ v \in WalkRecord /\ v.doing = "step" /\ v.at = w.at + 1 /\ v.ran = Append(w.ran, x)
  /\ v.apart = w.apart /\ v.array = w.array /\ v.members = w.members /\ v.gone = w.gone /\ v.come = w.come
StoppedAt(v, w, how) ==
  /\ v \in WalkRecord /\ v.doing = how /\ v.array = <<>> /\ v.at = w.at /\ v.ran = w.ran
  /\ v.apart = w.apart /\ v.members = w.members /\ v.gone = w.gone /\ v.come = w.come

LEMMA GoneOnRecord ==
  ASSUME NEW w \in WalkRecord, NEW x \in 1 .. MaxSteps
  PROVE  GoneOn([w EXCEPT !.doing = "step", !.at = @ + 1, !.ran = Append(@, x)], w, x)
<1>1. Append(w.ran, x) \in Seq(1 .. MaxSteps) /\ w.at + 1 \in Nat
  BY OneIsAdded DEF WalkRecord
<1>2. QED
  BY <1>1 DEF GoneOn, WalkRecord

LEMMA StoppedRecord ==
  ASSUME NEW w \in WalkRecord, NEW how \in {"done", "ended"}
  PROVE  StoppedAt([w EXCEPT !.doing = how, !.array = <<>>], w, how)
BY NoStepsYet DEF StoppedAt, WalkRecord

LEMMA AdvanceIsFair ==
  ASSUME NEW n \in Nat, n <= MaxSteps, steps \in Seq(Step), Distinct(steps), NumberedTo(steps, n), NEW w \in WalkRecord,
         Distinct(w.array), NumberedTo(w.array, n), ToSet(w.ran) \subseteq 1 .. n, w.members \subseteq 1 .. n,
         Len(w.ran) <= Cardinality(ToSet(w.ran)) + w.come,
         FairWalk(Iterated(w, steps), w.at, w.ran, w.members, w.gone, w.come)
  PROVE  WalkIsFair(Advance(w), steps, n)
<1> DEFINE a == Iterated(w, steps)
           v == Advance(w)
           R == ToSet(w.ran)
<1>1. /\ w.array \in Seq(Step) /\ w.at \in Nat /\ w.ran \in Seq(1 .. MaxSteps) /\ w.gone \in Nat /\ w.come \in Nat
      /\ w.members \in SUBSET (1 .. MaxSteps)
  BY DEF WalkRecord
<1>2. a \in Seq(Step) /\ Distinct(a) /\ NumberedTo(a, n) /\ Len(a) \in Nat
  <2>1. a \in Seq(Step) /\ Distinct(a) /\ NumberedTo(a, n)
    BY <1>1 DEF Iterated
  <2>2. QED
    BY <2>1, LenProperties
<1>3. CASE w.at >= Len(a)
  <2>1. v = [w EXCEPT !.doing = "done", !.array = <<>>]
    BY <1>3 DEF Advance, Iterated
  <2>2. StoppedAt(v, w, "done")
    BY <2>1, StoppedRecord
  <2> HIDE DEF v, a
  <2>3. \A m \in w.members \ R : \E i \in 1 .. Len(a) : a[i].no = m
    BY DEF FairWalk, a
  <2>4. Behind(a, w.at, w.members \ R) = w.members \ R
    <3> DEFINE left == w.members \ R
    <3> HIDE DEF left, R
    <3>1. \A m \in left : \E i \in 1 .. Len(a) : a[i].no = m
      BY <2>3 DEF left
    <3>2. Behind(a, w.at, left) = left
      BY <1>1, <1>2, <1>3, <3>1, EndIsBehind
    <3>3. QED
      BY <3>2 DEF left
  <2>5. Cardinality(w.members \ R) <= w.gone
    BY <2>4 DEF FairWalk, a
  <2>6. QED
    BY <2>2, <2>5, NoStepsYet DEF StoppedAt, WalkIsFair, v
<1>4. CASE ~(w.at >= Len(a))
  <2> DEFINE x == a[w.at + 1].no
             r == Append(w.ran, x)
  <2>1. w.at < Len(a) /\ w.at + 1 \in 1 .. Len(a)
    BY <1>1, <1>2, <1>4
  <2>2. x \in 1 .. MaxSteps /\ x \in 1 .. n
    <3>1. x \in 1 .. MaxSteps
      BY <1>2, <2>1, StepsAreTyped
    <3>2. x <= n
      BY <1>2, <2>1 DEF NumberedTo
    <3>3. QED
      BY <3>1, <3>2
  <2>3. v = [w EXCEPT !.doing = "step", !.at = @ + 1, !.ran = Append(@, x)]
    BY <1>4 DEF Advance, Iterated
  <2>4. GoneOn(v, w, x)
    <3> HIDE DEF x, v
    <3>1. QED
      BY <2>2, <2>3, GoneOnRecord
  <2>5. /\ Len(r) = Len(w.ran) + 1 /\ Len(w.ran) \in Nat /\ ToSet(r) = R \cup {x} /\ r \in Seq(1 .. MaxSteps)
        /\ \A i \in 1 .. Len(w.ran) : r[i] = w.ran[i]
        /\ r[Len(w.ran) + 1] = x
    <3> HIDE DEF x
    <3>1. QED
      BY <1>1, <2>2, OneIsAdded
  <2>6. /\ Cardinality(Behind(a, w.at, w.members \ R)) <= w.gone
        /\ Len(w.ran) + Cardinality(Again(a, w.at, R)) <= Cardinality(R) + w.come
        /\ \A m \in w.members : \E i \in 1 .. Len(a) : a[i].no = m
    BY DEF FairWalk
  <2>7. /\ Cardinality(Behind(a, w.at + 1, w.members \ ToSet(r))) <= w.gone
        /\ Len(r) + Cardinality(Again(a, w.at + 1, ToSet(r))) <= Cardinality(ToSet(r)) + w.come
    <3> DEFINE at == w.at
               ran == w.ran
               mem == w.members
               g == w.gone
               c == w.come
    <3>1. /\ at \in Nat /\ ran \in Seq(1 .. MaxSteps) /\ g \in Nat /\ c \in Nat /\ mem \in SUBSET (1 .. MaxSteps) /\ at < Len(a)
          /\ Cardinality(Behind(a, at, mem \ ToSet(ran))) <= g
          /\ Len(ran) + Cardinality(Again(a, at, ToSet(ran))) <= Cardinality(ToSet(ran)) + c
      BY <1>1, <2>1, <2>6
    <3> HIDE DEF at, ran, mem, g, c, a, v
    <3>2. /\ Cardinality(Behind(a, at + 1, mem \ ToSet(Append(ran, a[at + 1].no)))) <= g
          /\ Len(Append(ran, a[at + 1].no)) + Cardinality(Again(a, at + 1, ToSet(Append(ran, a[at + 1].no))))
               <= Cardinality(ToSet(Append(ran, a[at + 1].no))) + c
      BY <1>2, <3>1, NextIsRun
    <3>3. QED
      BY <3>2 DEF at, ran, mem, g, c
  <2>8. ASSUME w.gone + w.come = 0 PROVE r = [i \in 1 .. w.at + 1 |-> a[i].no]
    <3>1. w.ran = [i \in 1 .. w.at |-> a[i].no]
      BY <2>8 DEF FairWalk
    <3> HIDE DEF a, v
    <3>2. Len(w.ran) = w.at /\ \A i \in 1 .. w.at : w.ran[i] = a[i].no
      BY <1>1, <3>1
    <3>3. r \in [1 .. w.at + 1 -> 1 .. MaxSteps]
      <4> HIDE DEF r
      <4>1. QED
        BY <2>5, <3>2, LenProperties
    <3>4. \A i \in 1 .. w.at + 1 : r[i] = a[i].no
      <4>1. \A i \in 1 .. w.at + 1 : i \in 1 .. w.at \/ i = w.at + 1
        BY <1>1
      <4>2. r[w.at + 1] = a[w.at + 1].no
        BY <2>5, <3>2
      <4>3. \A i \in 1 .. w.at : r[i] = a[i].no
        <5> HIDE DEF r
        <5>1. QED
          BY <2>5, <3>2
      <4> HIDE DEF r, x
      <4>4. QED
        BY <4>1, <4>2, <4>3
    <3> HIDE DEF r, x
    <3>5. QED
      BY <3>3, <3>4
  <2>9. FairWalk(a, w.at + 1, r, w.members, w.gone, w.come)
    <3> HIDE DEF a, r, x, v
    <3>1. QED
      BY <2>6, <2>7, <2>8 DEF FairWalk
  <2>10. Len(r) <= Cardinality(ToSet(r)) + w.come
    <3> DEFINE k == Cardinality(Again(a, w.at + 1, ToSet(r)))
               l == Cardinality(ToSet(r))
               m == Len(r)
    <3>0. ToSet(r) \in SUBSET (1 .. MaxSteps)
      <4>1. R \in SUBSET (1 .. MaxSteps)
        BY <1>1, <2>2, OneIsAdded
      <4> HIDE DEF x, R, r
      <4>2. QED
        BY <2>2, <2>5, <4>1
    <3>1. k \in Nat /\ l \in Nat /\ m \in Nat /\ m + k <= l + w.come
      <4>1. m \in Nat
        <5> HIDE DEF r
        <5>1. QED
          BY <2>5, LenProperties
      <4> HIDE DEF a, r, x, v
      <4>2. k \in Nat
        BY <3>0, CountedInNumbers
      <4>3. l \in Nat
        BY <3>0, NumbersAreFew
      <4>4. m + k <= l + w.come
        BY <2>7
      <4>5. QED
        BY <4>1, <4>2, <4>3, <4>4
    <3> HIDE DEF k, l, m
    <3>2. m <= l + w.come
      BY <1>1, <3>1
    <3>3. QED
      BY <3>2 DEF l, m
  <2>11. ToSet(r) \subseteq 1 .. n
    <3> HIDE DEF a, r, x, v
    <3>1. QED
      BY <2>2, <2>5
  <2>12. Iterated(v, steps) = a
    <3> HIDE DEF x, v
    <3>1. QED
      BY <2>4 DEF Iterated, GoneOn
  <2> HIDE DEF a, v, x
  <2>13. QED
    BY <2>4, <2>9, <2>10, <2>11, <2>12 DEF GoneOn, WalkIsFair, v
<1>5. QED
  BY <1>3, <1>4

LEMMA MembersRecord ==
  ASSUME NEW w \in WalkRecord, NEW m \in SUBSET (1 .. MaxSteps)
  PROVE  Recounts([w EXCEPT !.members = m], w, m, w.gone, w.come)
BY DEF WalkRecord, Recounts

LEMMA ExecuteStepsKeeps ==
  ASSUME RegistryInv, ExecuteSteps
  PROVE  RegistryInv'
<1> DEFINE m == Numbers(steps)
           w == [walk EXCEPT !.members = m]
<1>1. walk.doing = "nothing" /\ walk' = Advance(w) /\ UNCHANGED <<steps, stepNo, edition>>
  BY DEF ExecuteSteps
<1>2. /\ steps \in Seq(Step) /\ Distinct(steps) /\ NumberedTo(steps, stepNo) /\ stepNo \in Nat /\ stepNo <= MaxSteps
      /\ WalkIsFair(walk, steps, stepNo)
  BY RegistryAssumption DEF RegistryInv
<1>3. \A k : k \in m <=> \E i \in 1 .. Len(steps) : steps[i].no = k
  BY <1>2, NumbersOf
<1>4. m \in SUBSET (1 .. MaxSteps) /\ m \subseteq 1 .. stepNo
  <2>1. ASSUME NEW k \in m PROVE k \in 1 .. MaxSteps /\ k \in 1 .. stepNo
    <3>1. PICK i \in 1 .. Len(steps) : steps[i].no = k
      BY <1>3
    <3>2. steps[i].no \in 1 .. MaxSteps /\ steps[i].no <= stepNo
      BY <1>2, StepsAreTyped DEF NumberedTo
    <3>3. QED
      BY <1>2, <3>1, <3>2
  <2>2. QED
    BY <2>1
<1>5. /\ walk \in WalkRecord /\ ~walk.apart /\ walk.at = 0 /\ walk.ran = <<>> /\ walk.gone = 0 /\ walk.come = 0
      /\ Distinct(walk.array) /\ NumberedTo(walk.array, stepNo)
  BY <1>1, <1>2 DEF WalkIsFair
<1> HIDE DEF m
<1>6. Recounts(w, walk, m, walk.gone, walk.come)
  BY <1>4, <1>5, MembersRecord
<1> HIDE DEF w
<1>7. /\ w \in WalkRecord /\ ~w.apart /\ w.at = 0 /\ w.ran = <<>> /\ w.gone = 0 /\ w.come = 0 /\ w.members = m
      /\ w.array = walk.array
  BY <1>5, <1>6 DEF Recounts
<1>8. FairWalk(steps, 0, <<>>, m, 0, 0)
  <2>1. Behind(steps, 0, m \ ToSet(<<>>)) = {}
    <3>1. \A i \in 1 .. Len(steps) : ~(i <= 0)
      BY <1>2, LenProperties
    <3>2. QED
      BY <3>1 DEF Behind
  <2>2. Again(steps, 0, ToSet(<<>>)) = {}
    BY NoStepsYet DEF Again
  <2>3. <<>> = [i \in 1 .. 0 |-> steps[i].no]
    OBVIOUS
  <2>4. Cardinality({}) = 0
    BY FS_EmptySet
  <2>5. /\ Cardinality(Behind(steps, 0, m \ ToSet(<<>>))) <= 0
        /\ Len(<<>>) + Cardinality(Again(steps, 0, ToSet(<<>>))) <= Cardinality(ToSet(<<>>)) + 0
    <3>1. Len(<<>>) = 0 /\ ToSet(<<>>) = {}
      BY NoStepsYet
    <3> DEFINE e == <<>>
               b == Behind(steps, 0, m \ ToSet(e))
               g == Again(steps, 0, ToSet(e))
    <3>2. b = {} /\ g = {} /\ Len(e) = 0 /\ ToSet(e) = {}
      BY <2>1, <2>2, <3>1
    <3> HIDE DEF b, g, e
    <3>3. Cardinality(b) <= 0 /\ Len(e) + Cardinality(g) <= Cardinality(ToSet(e)) + 0
      BY <2>4, <3>2
    <3>4. QED
      BY <3>3 DEF b, g, e
  <2>6. QED
    BY <1>3, <2>3, <2>5 DEF FairWalk
<1>9. Iterated(w, steps) = steps
  BY <1>7 DEF Iterated
<1>10. ToSet(w.ran) \subseteq 1 .. stepNo /\ Len(w.ran) <= Cardinality(ToSet(w.ran)) + w.come
  <2> DEFINE r == w.ran
             c == w.come
  <2>1. ToSet(r) = {} /\ Len(r) = 0 /\ c = 0
    BY <1>7, NoStepsYet
  <2> HIDE DEF r, c
  <2>2. ToSet(r) \subseteq 1 .. stepNo /\ Len(r) <= Cardinality(ToSet(r)) + c
    BY <2>1, FS_EmptySet
  <2>3. QED
    BY <2>2 DEF r, c
<1>11. FairWalk(Iterated(w, steps), w.at, w.ran, w.members, w.gone, w.come)
  BY <1>7, <1>8, <1>9
<1>12. WalkIsFair(Advance(w), steps, stepNo)
  BY <1>2, <1>4, <1>5, <1>7, <1>10, <1>11, AdvanceIsFair
<1>13. QED
  BY <1>1, <1>12 DEF RegistryInv

LEMMA StepReturnsKeeps ==
  ASSUME RegistryInv, StepReturns
  PROVE  RegistryInv'
<1>1. walk.doing = "step" /\ walk' = Advance(walk) /\ UNCHANGED <<steps, stepNo, edition>>
  BY DEF StepReturns
<1>2. /\ steps \in Seq(Step) /\ Distinct(steps) /\ NumberedTo(steps, stepNo) /\ stepNo \in Nat /\ stepNo <= MaxSteps
      /\ WalkIsFair(walk, steps, stepNo)
  BY RegistryAssumption DEF RegistryInv
<1> DEFINE w == walk
<1>3. /\ w \in WalkRecord /\ Distinct(w.array) /\ NumberedTo(w.array, stepNo) /\ ToSet(w.ran) \subseteq 1 .. stepNo
      /\ w.members \subseteq 1 .. stepNo /\ Len(w.ran) <= Cardinality(ToSet(w.ran)) + w.come
      /\ FairWalk(Iterated(w, steps), w.at, w.ran, w.members, w.gone, w.come)
  BY <1>1, <1>2 DEF WalkIsFair
<1> HIDE DEF w
<1>4. WalkIsFair(Advance(w), steps, stepNo)
  BY <1>2, <1>3, AdvanceIsFair
<1>5. QED
  BY <1>1, <1>4 DEF RegistryInv, w

LEMMA StepEndsWalkKeeps ==
  ASSUME RegistryInv, StepEndsWalk
  PROVE  RegistryInv'
<1>1. walk.doing = "step" /\ walk' = [walk EXCEPT !.doing = "ended", !.array = <<>>] /\ UNCHANGED <<steps, stepNo, edition>>
  BY DEF StepEndsWalk
<1>2. WalkIsFair(walk, steps, stepNo) /\ walk \in WalkRecord
  BY DEF RegistryInv, WalkIsFair
<1> DEFINE v == walk'
<1>3. StoppedAt(v, walk, "ended")
  BY <1>1, <1>2, StoppedRecord
<1> HIDE DEF v
<1>4. WalkIsFair(v, steps, stepNo)
  BY <1>2, <1>3, NoStepsYet DEF StoppedAt, WalkIsFair
<1>5. QED
  BY <1>1, <1>4 DEF RegistryInv, v

Parted(v, w, a) ==
  /\ v \in WalkRecord /\ v.apart /\ v.array = a /\ v.doing = w.doing /\ v.at = w.at /\ v.ran = w.ran
  /\ v.members = w.members /\ v.gone = w.gone /\ v.come = w.come
LEMMA PartedRecord ==
  ASSUME NEW w \in WalkRecord, NEW a \in Seq(Step)
  PROVE  Parted([w EXCEPT !.apart = TRUE, !.array = a], w, a)
BY DEF WalkRecord, Parted

LEMMA ResetKeeps ==
  ASSUME RegistryInv, ResetRegistry
  PROVE  RegistryInv'
<1>1. steps' = <<>> /\ edition' = 0 /\ stepNo' = stepNo
  BY DEF ResetRegistry
<1>2. /\ steps \in Seq(Step) /\ Distinct(steps) /\ NumberedTo(steps, stepNo) /\ stepNo \in Nat
      /\ WalkIsFair(walk, steps, stepNo) /\ walk \in WalkRecord
  BY RegistryAssumption DEF RegistryInv, WalkIsFair
<1>3. WalkIsFair(walk', <<>>, stepNo)
  <2>1. CASE walk.doing = "step" /\ ~walk.apart
    <3> DEFINE v == walk'
    <3>1. Parted(v, walk, steps)
      BY <1>2, <2>1, PartedRecord DEF ResetRegistry
    <3> HIDE DEF v
    <3>2. Iterated(v, <<>>) = Iterated(walk, steps)
      BY <2>1, <3>1 DEF Iterated, Parted
    <3>3. WalkIsFair(v, <<>>, stepNo)
      BY <1>2, <2>1, <3>1, <3>2 DEF Parted, WalkIsFair
    <3>4. QED
      BY <3>3 DEF v
  <2>2. CASE ~(walk.doing = "step" /\ ~walk.apart)
    <3>1. walk' = walk
      BY <2>2 DEF ResetRegistry
    <3>2. stepNo <= stepNo
      BY <1>2
    <3>3. WalkIsFair(walk, <<>>, stepNo)
      BY <1>2, <2>2, <3>2, MoreAreNumbered
    <3>4. QED
      BY <3>1, <3>3
  <2>3. QED
    BY <2>1, <2>2
<1>4. InOrder(steps') /\ Distinct(steps') /\ NumberedTo(steps', stepNo) /\ steps' \in Seq(Step)
  BY <1>1, NoStepsYet
<1>5. QED
  BY <1>1, <1>3, <1>4 DEF RegistryInv

LEMMA RegistryKeeps == RegistryInv /\ [RegistryNext]_registryVars => RegistryInv'
<1> SUFFICES ASSUME RegistryInv, [RegistryNext]_registryVars PROVE RegistryInv'
  OBVIOUS
<1>1. \A p \in Urgency : p \in Nat
  BY RegistryAssumption
<1>2. CASE \E name \in StepName, p \in Urgency : AddStep(name, p)
  BY <1>1, <1>2, AddStepKeeps
<1>3. CASE \E name \in StepName : RemoveStep(name)
  BY <1>3, RemoveStepKeeps
<1>4. CASE \E name, new \in StepName, p \in Urgency : ReplaceStep(name, new, p)
  BY <1>1, <1>4, ReplaceStepKeeps
<1>5. CASE \E after, before, name \in StepName : InsertBetween(after, before, name)
  BY <1>5, InsertBetweenKeeps
<1>6. CASE ResetRegistry
  BY <1>6, ResetKeeps
<1>7. CASE ExecuteSteps
  BY <1>7, ExecuteStepsKeeps
<1>8. CASE StepReturns
  BY <1>8, StepReturnsKeeps
<1>9. CASE StepEndsWalk
  BY <1>9, StepEndsWalkKeeps
<1>10. CASE UNCHANGED registryVars
  BY <1>10 DEF registryVars, RegistryInv
<1>11. QED
  BY <1>2, <1>3, <1>4, <1>5, <1>6, <1>7, <1>8, <1>9, <1>10 DEF RegistryNext

LEMMA RegistryTypes == RegistryInv => RegistryTypeOK
<1> SUFFICES ASSUME RegistryInv PROVE RegistryTypeOK
  OBVIOUS
<1>1. steps \in Seq(Step) /\ stepNo \in 0 .. MaxSteps /\ edition \in Nat /\ walk \in WalkRecord
  BY DEF RegistryInv, WalkIsFair
<1>2. QED
  BY <1>1 DEF RegistryTypeOK, WalkRecord

LEMMA StepsRunOnce == RegistryInv => EachStepOnce
<1> SUFFICES ASSUME RegistryInv PROVE EachStepOnce
  OBVIOUS
<1>1. steps \in Seq(Step) /\ InOrder(steps) /\ WalkIsFair(walk, steps, stepNo) /\ DOMAIN steps = 1 .. Len(steps)
  BY LenProperties DEF RegistryInv
<1>2. \A i, j \in DOMAIN steps : i < j => steps[i].priority <= steps[j].priority
  BY <1>1 DEF InOrder
<1>3. Len(walk.ran) <= Cardinality(ToSet(walk.ran)) + walk.come
  BY <1>1 DEF WalkIsFair
<1>4. walk.doing = "done" => Cardinality(walk.members \ ToSet(walk.ran)) <= walk.gone
  BY <1>1 DEF WalkIsFair
<1>5. ASSUME walk.doing = "step", walk.gone + walk.come = 0
      PROVE  LET array == IF walk.apart THEN walk.array ELSE steps IN
             walk.ran = [i \in 1 .. walk.at |-> array[i].no]
  <2>1. walk.ran = [i \in 1 .. walk.at |-> Iterated(walk, steps)[i].no]
    BY <1>1, <1>5 DEF WalkIsFair, FairWalk
  <2>2. QED
    BY <2>1 DEF Iterated
<1>6. QED
  BY <1>2, <1>3, <1>4, <1>5 DEF EachStepOnce

(* An execution runs each step that is there all along, and runs none twice,   *)
(* but for what removals and additions meanwhile cost it, one step at most     *)
(* each; without either it goes by the array, which is in order of priority    *)
(* (WorkflowRegistry).                                                         *)
THEOREM StepsAreRunOnce == RegistrySpec => []EachStepOnce
<1>1. RegistryInit => RegistryInv
  BY RegistryStarts
<1>2. RegistryInv /\ [RegistryNext]_registryVars => RegistryInv'
  BY RegistryKeeps
<1>3. RegistryInv => EachStepOnce
  BY StepsRunOnce
<1>4. QED
  BY <1>1, <1>2, <1>3, PTL DEF RegistrySpec

-----------------------------------------------------------------------------
(* InterruptionController.                                                     *)

ControllerSpec == ControllerInit /\ [][ControllerNext]_controllerVars

ControllerTyped ==
  /\ mode \in {"running", "paused", "cancelled"} /\ slot \in Loop \cup {NoLoop}
  /\ loops \in [Loop -> {"free", "waiting", "forgotten"}] /\ pauses \in 0 .. MaxPauses

ControllerInv == ControllerTyped /\ WaitersAreKnown

LEMMA ControllerStarts == ControllerInit => ControllerInv
BY TurnAssumption DEF ControllerInit, ControllerInv, ControllerTyped, WaitersAreKnown

LEMMA ControllerKeeps == ControllerInv /\ [ControllerNext]_controllerVars => ControllerInv'
<1> SUFFICES ASSUME ControllerInv, [ControllerNext]_controllerVars PROVE ControllerInv'
  OBVIOUS
<1> USE TurnAssumption DEF ControllerInv, ControllerTyped, WaitersAreKnown
<1>1. CASE PauseLoop
  BY <1>1 DEF PauseLoop, Pausing
<1>2. CASE ResumeLoop \/ CancelLoop
  BY <1>2 DEF ResumeLoop, CancelLoop, Settled
<1>3. CASE ResetController
  BY <1>3 DEF ResetController, Pausing, Forgets
<1>4. ASSUME NEW l \in Loop, WaitForResume(l) PROVE ControllerInv'
  BY <1>4 DEF WaitForResume, Forgets
<1>5. CASE UNCHANGED controllerVars
  BY <1>5 DEF controllerVars
<1>6. QED
  BY <1>1, <1>2, <1>3, <1>4, <1>5 DEF ControllerNext

(* Whoever waits for a paused loop holds the slot of the promise to resume,    *)
(* and the loop is paused, for any callers and any order of pauses, resumes,   *)
(* cancels and resets (InterruptionController).                                *)
THEOREM WaitersHoldTheSlot == ControllerSpec => []WaitersAreKnown
<1>1. ControllerInv => WaitersAreKnown
  BY DEF ControllerInv
<1> QED
  BY <1>1, ControllerStarts, ControllerKeeps, PTL DEF ControllerSpec

-----------------------------------------------------------------------------
(* TurnManager.                                                                *)

TurnSpec == TurnInit /\ [][TurnNext]_turnVars

Outcome == {"data", "error"}
\* The places whose calls have a result.
Settlings == IF doing \in {"onToolCall", "tool"} THEN place - 1 ELSE place
\* Results of the calls up to a place.
Booked(r, n) ==
  /\ r \in Seq(ToSet(asked) \X Outcome) /\ Len(r) <= n
  /\ \A i \in DOMAIN r : \E p \in 1 .. n : r[i][1] = asked[p]
  /\ IsInjective(asked) => Len(r) = n /\ \A i \in 1 .. n : r[i][1] = asked[i]
\* A call that failed though its tool worked.
Excused(r, good, b, now) ==
  \A i \in DOMAIN r : \A p \in good :
    asked[p] = r[i][1] /\ r[i][2] = "error" =>
      <<"onToolResult", p>> \in b \/ (\E q \in p + 1 .. now : asked[q] = asked[p])
\* What ends a turn in an error.
Fatal == {"onError", "null", "data"}
NothingEnded(b) == \A x \in b : x[1] \notin Fatal
Mishap == (Hook \cup {"null", "data"}) \X Nat
Running == doing \notin {"requestError", "over"}
Noted(r, n) == r \in Seq(ToSet(asked) \X Outcome) /\ Len(r) <= n
\* The tool messages answer the first calls, in their order.
RepliesAnswer(said) == IsInjective(asked) => \A i \in 1 .. Len(said) - 1 : said[i + 1][1] = asked[i]

TurnTyped ==
  /\ hooks \subseteq Hook /\ asked \in CallLists \cup {<<>>} /\ place \in 0 .. Len(asked)
  /\ doing \in {"nothing", "request", "tool", "requestError", "over"} \cup Hook
  /\ failure \in BOOLEAN /\ worked \subseteq 1 .. place /\ broke \subseteq Mishap
  /\ Len(replies) <= Len(asked) + 1

EndsRight ==
  /\ failure <=> \E x \in broke : x[1] \in Fatal
  /\ failure => Len(replies) = 1 \/ <<"data", Len(replies)>> \in broke
  /\ RepliesAnswer(replies)
  /\ IsInjective(asked) => failure \/ Len(replies) = Len(asked) + 1

InTurn ==
  /\ doing \in {"nothing", "request"} => asked = <<>> /\ place = 0
  /\ doing \in {"onToolCall", "tool"} => place > 0 /\ place \notin worked
  /\ doing \in {"onToolResult", "onError"} => place > 0 /\ \E i \in DOMAIN results : results[i][1] = asked[place]
  /\ Running => replies = <<>> /\ ~failure /\ NothingEnded(broke) /\ Booked(results, Settlings)
  /\ ~Running /\ asked # <<>> => EndsRight

TurnInv == TurnTyped /\ Noted(results, place) /\ Excused(results, worked, broke, place) /\ InTurn

LEMMA AskedInOrder ==
  ASSUME TurnInv
  PROVE  asked \in Seq(ToSet(asked)) /\ DOMAIN asked = 1 .. Len(asked) /\ Len(asked) \in Nat
         /\ \A i \in 1 .. Len(asked) : asked[i] \in ToSet(asked)
<1>1. asked \in Seq(ToSet(asked))
  <2>1. CASE asked \in CallLists
    BY <2>1, TurnAssumption
  <2>2. CASE asked = <<>>
    BY <2>2
  <2>3. QED
    BY <2>1, <2>2 DEF TurnInv, TurnTyped
<1> HIDE DEF TurnInv
<1>2. QED
  BY <1>1

LEMMA PutSettles ==
  ASSUME TurnInv, doing \in {"onToolCall", "tool", "onToolResult"}, NEW outcome \in Outcome
  PROVE  LET new == Put(asked[place], outcome) IN
         /\ Booked(new, place)
         /\ \E i \in DOMAIN new : new[i][1] = asked[place]
         /\ \A i \in DOMAIN new : /\ new[i][1] = asked[place] => new[i][2] = outcome
                                  /\ new[i][1] # asked[place] => i \in DOMAIN results /\ new[i] = results[i]
<1> DEFINE id == asked[place]
           T == ToSet(asked) \X Outcome
           new == Put(id, outcome)
<1>1. place \in 1 .. Len(asked) /\ id \in ToSet(asked) /\ Len(asked) \in Nat
  BY AskedInOrder DEF TurnInv, TurnTyped, InTurn
<1>0. Booked(results, Settlings)
  BY DEF TurnInv, InTurn, Running
<1>2. results \in Seq(T) /\ DOMAIN results = 1 .. Len(results) /\ Len(results) \in Nat
  BY <1>0 DEF Booked
<1>3. \A i \in 1 .. Len(results) : results[i] \in T
  BY <1>2
<1>4. \A i \in DOMAIN results : \E p \in 1 .. Settlings : results[i][1] = asked[p]
  BY <1>0 DEF Booked
<1>5. Settlings \in {place, place - 1} /\ Len(results) <= Settlings
  BY <1>0 DEF Settlings, Booked
<1>6. CASE \E i \in DOMAIN results : results[i][1] = id
  <2>1. new = [i \in DOMAIN results |-> IF results[i][1] = id THEN <<id, outcome>> ELSE results[i]]
    BY <1>6 DEF Put
  <2>2. new \in Seq(T) /\ Len(new) = Len(results) /\ DOMAIN new = DOMAIN results
    <3>1. \A i \in 1 .. Len(results) : new[i] \in T
      BY <1>1, <1>2, <1>3, <2>1
    <3>2. new \in [1 .. Len(results) -> T]
      BY <1>2, <2>1, <3>1
    <3> HIDE DEF new, T
    <3>3. QED
      BY <1>2, <3>2, IsSequence
  <2>3. \A i \in DOMAIN new : new[i] = IF results[i][1] = id THEN <<id, outcome>> ELSE results[i]
    BY <2>1
  <2>4. \A i \in DOMAIN new : new[i][1] = results[i][1]
    BY <2>2, <2>3
  <2>5. IsInjective(asked) => Settlings = place
    <3>1. SUFFICES ASSUME IsInjective(asked) PROVE Settlings = place
      OBVIOUS
    <3>2. PICK i \in DOMAIN results : results[i][1] = id
      BY <1>6
    <3>3. PICK p \in 1 .. Settlings : results[i][1] = asked[p]
      BY <1>4
    <3>4. p \in DOMAIN asked /\ place \in DOMAIN asked
      BY <1>1, <1>5, AskedInOrder
    <3>5. p = place
      BY <3>1, <3>2, <3>3, <3>4 DEF IsInjective
    <3>6. QED
      BY <1>5, <3>5, <1>1
  <2>6. IsInjective(asked) => Len(results) = Settlings /\ \A i \in 1 .. Settlings : results[i][1] = asked[i]
    BY <1>0 DEF Booked
  <2> HIDE DEF new
  <2>7. Booked(new, place)
    <3>1. \A i \in DOMAIN new : \E p \in 1 .. place : new[i][1] = asked[p]
      BY <1>1, <1>4, <1>5, <2>2, <2>4
    <3>2. Len(new) <= place
      BY <1>1, <1>2, <1>5, <2>2
    <3>3. IsInjective(asked) => Len(new) = place
      BY <2>2, <2>5, <2>6
    <3>4. ASSUME IsInjective(asked), NEW i \in 1 .. place PROVE new[i][1] = asked[i]
      <4>1. i \in DOMAIN new /\ results[i][1] = asked[i]
        BY <1>2, <2>2, <2>5, <2>6, <3>4
      <4>2. QED
        BY <4>1, <2>4
    <3>5. QED
      BY <2>2, <3>1, <3>2, <3>3, <3>4 DEF Booked
  <2>8. \E i \in DOMAIN new : new[i][1] = id
    BY <1>6, <2>2, <2>4
  <2>9. \A i \in DOMAIN new : /\ new[i][1] = id => new[i][2] = outcome
                              /\ new[i][1] # id => i \in DOMAIN results /\ new[i] = results[i]
    BY <2>2, <2>3, <2>4
  <2>10. QED
    BY <2>7, <2>8, <2>9 DEF new
<1>7. CASE ~ \E i \in DOMAIN results : results[i][1] = id
  <2>1. new = Append(results, <<id, outcome>>)
    BY <1>7 DEF Put
  <2>2. new \in Seq(T) /\ Len(new) = Len(results) + 1 /\ DOMAIN new = 1 .. Len(results) + 1
    BY <2>1, <1>1, <1>2
  <2>3. \A i \in 1 .. Len(results) : new[i] = results[i]
    BY <2>1, <1>2
  <2>4. new[Len(results) + 1] = <<id, outcome>>
    BY <2>1, <1>2
  <2>5. Settlings = place - 1
    <3>1. doing # "onToolResult"
      BY <1>7 DEF TurnInv, InTurn
    <3>2. QED
      BY <3>1 DEF Settlings
  <2>6. IsInjective(asked) => Len(results) = Settlings /\ \A i \in 1 .. Settlings : results[i][1] = asked[i]
    BY <1>0 DEF Booked
  <2> HIDE DEF new
  <2>7. Booked(new, place)
    <3>1. \A i \in DOMAIN new : \E p \in 1 .. place : new[i][1] = asked[p]
      <4>1. TAKE i \in DOMAIN new
      <4>2. CASE i = Len(results) + 1
        BY <1>1, <2>4, <4>2
      <4>3. CASE i # Len(results) + 1
        <5>1. i \in 1 .. Len(results)
          BY <1>2, <2>2, <4>3
        <5>2. PICK p \in 1 .. Settlings : results[i][1] = asked[p]
          BY <5>1, <1>2, <1>4
        <5>3. QED
          BY <5>1, <5>2, <2>3, <2>5, <1>1
      <4>4. QED
        BY <4>2, <4>3
    <3>2. ASSUME IsInjective(asked), NEW i \in 1 .. place PROVE new[i][1] = asked[i]
      <4>1. Len(results) = place - 1
        BY <2>5, <2>6, <3>2
      <4>2. CASE i = place
        BY <4>1, <4>2, <2>4, <1>1
      <4>3. CASE i # place
        BY <4>1, <4>3, <2>3, <2>5, <2>6, <1>1, <3>2
      <4>4. QED
        BY <4>2, <4>3
    <3>3. IsInjective(asked) => Len(new) = place
      BY <2>2, <2>5, <2>6, <1>1
    <3>4. Len(new) <= place
      BY <2>2, <2>5, <1>5, <1>1, <1>2
    <3>5. QED
      BY <2>2, <3>1, <3>2, <3>3, <3>4 DEF Booked
  <2>8. Len(results) + 1 \in DOMAIN new /\ new[Len(results) + 1][1] = id
    BY <2>2, <2>4, <1>2
  <2>9. ASSUME NEW i \in DOMAIN new
        PROVE  /\ new[i][1] = id => new[i][2] = outcome
               /\ new[i][1] # id => i \in DOMAIN results /\ new[i] = results[i]
    <3>1. CASE i = Len(results) + 1
      BY <3>1, <2>4
    <3>2. CASE i # Len(results) + 1
      <4>1. i \in DOMAIN results /\ new[i] = results[i]
        BY <1>2, <2>2, <2>3, <3>2
      <4>2. new[i][1] # id
        BY <4>1, <1>7
      <4>3. QED
        BY <4>1, <4>2
    <3>3. QED
      BY <3>1, <3>2
  <2>10. QED
    BY <2>7, <2>8, <2>9 DEF new
<1>8. QED
  BY <1>6, <1>7

LEMMA PutExcuses ==
  ASSUME TurnInv, doing \in {"onToolCall", "tool", "onToolResult"}, NEW outcome \in Outcome,
         NEW good, good \subseteq worked \cup {place}, NEW b, broke \subseteq b,
         outcome = "error" /\ place \in good => <<"onToolResult", place>> \in b,
         NEW now \in {place, place + 1}
  PROVE  Excused(Put(asked[place], outcome), good, b, now)
<1> DEFINE new == Put(asked[place], outcome)
<1>1. /\ \A i \in DOMAIN new : /\ new[i][1] = asked[place] => new[i][2] = outcome
                               /\ new[i][1] # asked[place] => i \in DOMAIN results /\ new[i] = results[i]
  BY PutSettles
<1> HIDE DEF new
<1>2. SUFFICES ASSUME NEW i \in DOMAIN new, NEW p \in good, asked[p] = new[i][1], new[i][2] = "error"
               PROVE  <<"onToolResult", p>> \in b \/ (\E q \in p + 1 .. now : asked[q] = asked[p])
  BY DEF Excused, new
<1>3. place \in Nat /\ p \in 1 .. place /\ place > 0
  BY DEF TurnInv, TurnTyped, InTurn
<1>4. CASE p = place
  BY <1>1, <1>2, <1>4
<1>5. CASE p # place
  <2>1. p \in worked /\ p + 1 \in Nat /\ p + 1 <= place
    BY <1>3, <1>5
  <2>2. CASE asked[p] = asked[place]
    <3>1. place \in p + 1 .. now
      BY <1>3, <2>1
    <3>2. QED
      BY <2>2, <3>1
  <2>3. CASE asked[p] # asked[place]
    <3>1. i \in DOMAIN results /\ new[i] = results[i]
      BY <1>1, <1>2, <2>3
    <3>2. <<"onToolResult", p>> \in broke \/ (\E q \in p + 1 .. place : asked[q] = asked[p])
      BY <1>2, <2>1, <3>1 DEF TurnInv, Excused
    <3>3. p + 1 .. place \subseteq p + 1 .. now
      BY <1>3
    <3>4. QED
      BY <3>2, <3>3
  <2>4. QED
    BY <2>2, <2>3
<1>6. QED
  BY <1>4, <1>5

\* The assistant's message, and the tool messages after it.
LEMMA SaidInOrder ==
  ASSUME NEW S, NEW t \in Seq(S)
  PROVE  LET said == Append(<<>>, "assistant") \o t IN
         Len(said) = Len(t) + 1 /\ \A i \in 1 .. Len(t) : said[i + 1] = t[i]
<1> DEFINE T == {"assistant"} \cup S
           head == Append(<<>>, "assistant")
           said == head \o t
<1>1. t \in Seq(T) /\ Len(t) \in Nat
  OBVIOUS
<1>2. head \in Seq(T) /\ Len(head) = 1
  OBVIOUS
<1> HIDE DEF head, T
<1>3. /\ Len(said) = Len(head) + Len(t)
      /\ \A i \in 1 .. Len(head) + Len(t) : said[i] = IF i <= Len(head) THEN head[i] ELSE t[i - Len(head)]
  BY <1>1, <1>2, ConcatProperties
<1> HIDE DEF said
<1>4. ASSUME NEW i \in 1 .. Len(t) PROVE said[i + 1] = t[i]
  <2>1. i + 1 \in 1 .. Len(head) + Len(t) /\ ~(i + 1 <= Len(head)) /\ i + 1 - Len(head) = i
    BY <1>1, <1>2, <1>3
  <2>2. QED
    BY <1>3, <2>1
<1>5. QED
  BY <1>1, <1>2, <1>3, <1>4 DEF said, head

\* Messages of a turn whose calls have been settled, up to a place.
LEMMA RepliesInOrder ==
  ASSUME TurnInv, NEW r, Booked(r, Len(asked)), NEW n \in 0 .. Len(r)
  PROVE  LET said == Append(<<>>, "assistant") \o SubSeq(r, 1, n) IN Len(said) = n + 1 /\ RepliesAnswer(said)
<1> DEFINE T == ToSet(asked) \X Outcome
           t == SubSeq(r, 1, n)
           said == Append(<<>>, "assistant") \o t
<1>1. Len(asked) \in Nat /\ r \in Seq(T) /\ Len(r) \in Nat /\ Len(r) <= Len(asked)
  BY AskedInOrder DEF Booked
<1>2. n \in Nat /\ n <= Len(r)
  BY <1>1
<1>3. t \in Seq(T) /\ Len(t) = n /\ \A i \in 1 .. n : t[i] = r[i]
  <2> HIDE DEF T
  <2>1. \A i \in 1 .. n : r[i] \in T
    BY <1>1, <1>2
  <2>2. QED
    BY <1>1, <1>2, <2>1
<1> HIDE DEF t, T
<1>4. Len(said) = n + 1 /\ \A i \in 1 .. n : said[i + 1] = t[i]
  BY <1>3, SaidInOrder
<1> HIDE DEF said
<1>5. ASSUME IsInjective(asked), NEW i \in 1 .. Len(said) - 1 PROVE said[i + 1][1] = asked[i]
  <2>1. i \in 1 .. n
    BY <1>2, <1>4
  <2>2. i \in 1 .. Len(asked)
    BY <1>1, <1>2, <2>1
  <2>3. r[i][1] = asked[i]
    BY <1>5, <2>2 DEF Booked
  <2>4. said[i + 1] = r[i]
    BY <1>3, <1>4, <2>1
  <2>5. QED
    BY <2>3, <2>4
<1>6. QED
  BY <1>4, <1>5 DEF RepliesAnswer, said, t

LEMMA MoreExcuses ==
  ASSUME NEW r, NEW good, NEW b, NEW c, b \subseteq c, NEW n, Excused(r, good, b, n)
  PROVE  Excused(r, good, c, n)
BY DEF Excused

LEMMA TurnStarts == TurnInit => TurnInv
<1> SUFFICES ASSUME TurnInit PROVE TurnInv
  OBVIOUS
<1> USE DEF TurnInit
<1>1. TurnTyped
  <2>1. failure \in BOOLEAN /\ asked \in CallLists \cup {<<>>} /\ hooks \subseteq Hook
    BY Zenon
  <2>2. place \in 0 .. Len(asked) /\ Len(replies) <= Len(asked) + 1
    OBVIOUS
  <2>3. QED
    BY <2>1, <2>2 DEF TurnTyped
<1>2. Booked(results, Settlings) /\ Noted(results, place)
  BY DEF Booked, Noted, Settlings
<1>3. QED
  BY <1>1, <1>2 DEF TurnInv, InTurn, Running, Excused, NothingEnded

\* The turn ends in an error, whose cause is known.
LEMMA ErrorEnds ==
  ASSUME TurnInv, NEW said, EndsInError(said), UNCHANGED <<hooks, asked>>,
         Noted(results', place), worked' \subseteq 1 .. place, broke' \subseteq Mishap,
         Excused(results', worked', broke', place), \E x \in broke' : x[1] \in Fatal,
         Len(said) \in 1 .. Len(asked) + 1, Len(said) = 1 \/ <<"data", Len(said)>> \in broke', RepliesAnswer(said)
  PROVE  TurnInv'
<1>1. /\ failure' = TRUE /\ doing' \in {"requestError", "over"} /\ replies' = said
      /\ place' = place /\ hooks' = hooks /\ asked' = asked
  BY DEF EndsInError
<1>2. TurnTyped'
  <2>1. failure' \in BOOLEAN /\ Len(replies') <= Len(asked') + 1
    BY <1>1, AskedInOrder
  <2>2. TurnTyped
    BY DEF TurnInv
  <2>3. QED
    BY <1>1, <2>1, <2>2 DEF TurnTyped
<1>3. Noted(results, place)' /\ Excused(results, worked, broke, place)'
  BY <1>1 DEF Noted, Excused
<1>4. EndsRight'
  <2>1. RepliesAnswer(replies)'
    BY <1>1 DEF RepliesAnswer
  <2>2. QED
    BY <1>1, <2>1 DEF EndsRight
<1>5. InTurn'
  BY <1>1, <1>4 DEF InTurn, Running
<1>6. QED
  BY <1>2, <1>3, <1>5 DEF TurnInv

\* The next call, or the end.
LEMMA NextCallKeeps ==
  ASSUME TurnInv, doing \in {"onToolCall", "tool", "onToolResult", "onError"}, UNCHANGED <<hooks, asked>>,
         NEW b, NextCall(asked, results', place, b), Booked(results', place),
         worked' \subseteq 1 .. place, b \subseteq Mishap, NothingEnded(b),
         Excused(results', worked', b, place), Excused(results', worked', b, place + 1)
  PROVE  TurnInv'
<1>1. Len(asked) \in Nat /\ DOMAIN asked = 1 .. Len(asked) /\ place \in 1 .. Len(asked)
  BY AskedInOrder DEF TurnInv, TurnTyped, InTurn
<1>2. replies = <<>> /\ ~failure /\ hooks' = hooks /\ asked' = asked
  BY DEF TurnInv, InTurn, Running
<1>3. CASE place < Len(asked)
  <2>1. place' = place + 1 /\ doing' \in {"onToolCall", "tool"} /\ replies' = replies /\ broke' = b /\ failure' = failure
    BY <1>3 DEF NextCall, Or
  <2>2. TurnTyped'
    <3>1. TurnTyped
      BY DEF TurnInv
    <3>2. place' \in 0 .. Len(asked') /\ worked' \subseteq 1 .. place' /\ broke' \subseteq Mishap
      BY <1>1, <1>2, <1>3, <2>1
    <3>3. QED
      BY <1>2, <2>1, <3>1, <3>2 DEF TurnTyped, Hook
  <2>3. Settlings' = place
    BY <1>1, <2>1 DEF Settlings
  <2>4. Booked(results, Settlings)' /\ Noted(results, place)'
    <3>1. Booked(results, Settlings)'
      BY <1>2, <2>3 DEF Booked
    <3>2. Noted(results, place)'
      BY <1>1, <1>2, <2>1 DEF Booked, Noted
    <3>3. QED
      BY <3>1, <3>2
  <2>5. place' > 0 /\ place' \notin worked'
    BY <1>1, <2>1
  <2>6. replies' = <<>> /\ ~failure' /\ NothingEnded(broke')
    BY <1>2, <2>1
  <2>7. InTurn'
    BY <2>1, <2>4, <2>5, <2>6 DEF InTurn, Running, NothingEnded
  <2>8. Excused(results, worked, broke, place)'
    BY <1>2, <2>1 DEF Excused
  <2>9. QED
    BY <2>2, <2>4, <2>7, <2>8 DEF TurnInv
<1>4. CASE ~(place < Len(asked))
  <2> DEFINE head == Append(<<>>, "assistant")
  <2>1. place = Len(asked)
    <3>0. \A n \in Nat : \A p \in 1 .. n : ~(p < n) => p = n
      OBVIOUS
    <3>1. QED
      BY <1>1, <1>4, <3>0, Zenon
  <2>2. \/ doing' = "over" /\ replies' = head \o results' /\ broke' = b /\ place' = place /\ failure' = failure
        \/ \E i \in DOMAIN results' : /\ EndsInError(head \o SubSeq(results', 1, i - 1))
                                      /\ broke' = b \cup {<<"data", i>>}
    BY <1>2, <1>4, Zenon DEF NextCall, TurnEnds
  <2>3. Booked(results', Len(asked)) /\ Noted(results', place)
    BY <2>1 DEF Booked, Noted
  <2>4. results' \in Seq(ToSet(asked) \X Outcome) /\ Len(results') \in Nat /\ DOMAIN results' = 1 .. Len(results')
        /\ Len(results') <= Len(asked)
    BY <2>3 DEF Booked
  <2>5. CASE doing' = "over" /\ replies' = head \o results' /\ broke' = b /\ place' = place /\ failure' = failure
    <3>1. SubSeq(results', 1, Len(results')) = results'
      BY <2>4
    <3>2. Len(replies') = Len(results') + 1 /\ RepliesAnswer(replies')
      <4>1. Len(results') \in 0 .. Len(results')
        BY <2>4
      <4>2. Len(head \o SubSeq(results', 1, Len(results'))) = Len(results') + 1
            /\ RepliesAnswer(head \o SubSeq(results', 1, Len(results')))
        BY <2>3, <4>1, RepliesInOrder
      <4> HIDE DEF head
      <4>3. QED
        BY <2>5, <3>1, <4>2
    <3> HIDE DEF head
    <3>3. TurnTyped'
      <4>1. TurnTyped
        BY DEF TurnInv
      <4>2. worked' \subseteq 1 .. place' /\ broke' \subseteq Mishap /\ Len(replies') <= Len(asked') + 1
        BY <1>1, <1>2, <2>4, <2>5, <3>2
      <4>3. QED
        BY <1>2, <2>5, <4>1, <4>2 DEF TurnTyped
    <3>4. ~failure' /\ NothingEnded(broke')
      BY <1>2, <2>5
    <3>5. RepliesAnswer(replies)'
      BY <1>2, <3>2 DEF RepliesAnswer
    <3>6. IsInjective(asked') => Len(replies') = Len(asked') + 1
      BY <1>2, <2>3, <3>2 DEF Booked
    <3>7. EndsRight'
      BY <3>4, <3>5, <3>6 DEF EndsRight, NothingEnded
    <3>8. InTurn'
      BY <2>5, <3>7 DEF InTurn, Running
    <3>9. Noted(results, place)' /\ Excused(results, worked, broke, place)'
      BY <1>2, <2>3, <2>5 DEF Noted, Excused
    <3>10. QED
      BY <3>3, <3>8, <3>9 DEF TurnInv
  <2>6. ASSUME NEW i \in DOMAIN results', EndsInError(head \o SubSeq(results', 1, i - 1)), broke' = b \cup {<<"data", i>>}
        PROVE  TurnInv'
    <3> DEFINE said == head \o SubSeq(results', 1, i - 1)
    <3>1. i \in Nat /\ i - 1 \in 0 .. Len(results') /\ (i - 1) + 1 = i /\ i \in 1 .. Len(asked) + 1
      BY <1>1, <2>4
    <3>2. Len(said) = (i - 1) + 1 /\ RepliesAnswer(said)
      BY <2>3, <3>1, RepliesInOrder
    <3>3. broke' \subseteq Mishap /\ <<"data", i>> \in broke' /\ b \subseteq broke'
      BY <2>6, <3>1 DEF Mishap
    <3>4. \E x \in broke' : x[1] \in Fatal
      BY <3>3 DEF Fatal
    <3>5. Excused(results', worked', broke', place)
      BY <3>3, MoreExcuses
    <3>6. EndsInError(said)
      BY <2>6
    <3> HIDE DEF said
    <3>7. Len(said) \in 1 .. Len(asked) + 1 /\ <<"data", Len(said)>> \in broke'
      BY <3>1, <3>2, <3>3
    <3>8. QED
      BY <1>2, <2>3, <3>2, <3>3, <3>4, <3>5, <3>6, <3>7, ErrorEnds
  <2>7. QED
    BY <2>2, <2>5, <2>6
<1>5. QED
  BY <1>3, <1>4

LEMMA TurnKeeps == TurnInv /\ [TurnNext]_turnVars => TurnInv'
<1> SUFFICES ASSUME TurnInv, [TurnNext]_turnVars PROVE TurnInv'
  OBVIOUS
<1>0. Len(asked) \in Nat /\ DOMAIN asked = 1 .. Len(asked) /\ place \in 0 .. Len(asked) /\ worked \subseteq 1 .. place
  BY AskedInOrder DEF TurnInv, TurnTyped
<1>1. CASE ExecuteTurn
  BY <1>1 DEF ExecuteTurn, TurnInv, TurnTyped, Noted, InTurn, Running, Booked, Excused, NothingEnded, Settlings
<1>2. CASE RequestFails
  <2>1. /\ doing = "request" /\ failure' = TRUE /\ doing' \in {"requestError", "over"} /\ replies' = replies
        /\ UNCHANGED <<hooks, asked, place, results, worked, broke>>
    BY <1>2 DEF RequestFails, EndsInError
  <2>2. asked = <<>>
    BY <2>1 DEF TurnInv, InTurn
  <2>3. InTurn'
    BY <2>1, <2>2 DEF InTurn, Running
  <2>4. TurnTyped'
    BY <2>1 DEF TurnInv, TurnTyped
  <2>5. Noted(results, place)' /\ Excused(results, worked, broke, place)'
    BY <2>1 DEF TurnInv, Noted, Excused
  <2>6. QED
    BY <2>3, <2>4, <2>5 DEF TurnInv
<1>3. CASE ToolCallHookReturns
  <2>1. doing = "onToolCall" /\ doing' = "tool" /\ UNCHANGED <<hooks, asked, place, results, replies, failure, worked, broke>>
    BY <1>3 DEF ToolCallHookReturns
  <2>2. Settlings' = Settlings /\ Booked(results, Settlings)
    BY <2>1 DEF Settlings, TurnInv, InTurn, Running
  <2>3. Booked(results, Settlings)'
    BY <2>1, <2>2 DEF Booked
  <2>4. InTurn'
    BY <2>1, <2>3 DEF TurnInv, InTurn, Running, NothingEnded
  <2>5. TurnTyped'
    BY <2>1 DEF TurnInv, TurnTyped
  <2>6. Noted(results, place)' /\ Excused(results, worked, broke, place)'
    BY <2>1 DEF TurnInv, Noted, Excused
  <2>7. QED
    BY <2>4, <2>5, <2>6 DEF TurnInv
<1>4. CASE RequestErrorHookOver
  <2>1. doing = "requestError" /\ doing' = "over" /\ UNCHANGED <<hooks, asked, place, results, replies, failure, worked, broke>>
    BY <1>4 DEF RequestErrorHookOver
  <2>2. EndsRight' <=> EndsRight
    BY <2>1 DEF EndsRight, RepliesAnswer
  <2>3. InTurn'
    BY <2>1, <2>2 DEF TurnInv, InTurn, Running
  <2>4. TurnTyped'
    BY <2>1 DEF TurnInv, TurnTyped
  <2>5. Noted(results, place)' /\ Excused(results, worked, broke, place)'
    BY <2>1 DEF TurnInv, Noted, Excused
  <2>6. QED
    BY <2>3, <2>4, <2>5 DEF TurnInv
<1>5. ASSUME NEW list \in CallLists, RequestAnswered(list) PROVE TurnInv'
  <2>1. doing = "request" /\ asked' = list /\ NextCall(list, <<>>, 0, broke) /\ UNCHANGED <<hooks, results, worked>>
    BY <1>5 DEF RequestAnswered
  <2>2. /\ asked = <<>> /\ place = 0 /\ replies = <<>> /\ ~failure /\ NothingEnded(broke)
        /\ results = <<>> /\ worked = {}
    <3>1. place = 0 /\ Len(results) <= 0 /\ results \in Seq(ToSet(asked) \X Outcome)
      BY <2>1 DEF TurnInv, InTurn, Noted
    <3>2. results = <<>>
      BY <3>1
    <3>3. QED
      BY <1>0, <2>1, <3>1, <3>2 DEF TurnInv, InTurn, Running
  <2>3. list \in Seq(ToSet(list)) /\ Len(list) \in Nat
    BY TurnAssumption
  <2>4. hooks \subseteq Hook /\ broke \subseteq Mishap
    BY DEF TurnInv, TurnTyped
  <2>5. CASE 0 < Len(list)
    <3>1. place' = 1 /\ doing' \in {"onToolCall", "tool"} /\ replies' = <<>> /\ broke' = broke /\ failure' = failure
      BY <2>1, <2>2, <2>5 DEF NextCall, Or
    <3>2. Settlings' = 0
      BY <3>1 DEF Settlings
    <3>3. results' = <<>> /\ worked' = {} /\ failure' = FALSE /\ hooks' = hooks
      BY <2>1, <2>2, <3>1
    <3>4. TurnTyped'
      <4>1. failure' \in BOOLEAN /\ hooks' \subseteq Hook /\ broke' \subseteq Mishap
        BY <2>4, <3>1, <3>3, Zenon
      <4>2. place' \in 0 .. Len(asked') /\ worked' \subseteq 1 .. place' /\ Len(replies') <= Len(asked') + 1
        BY <2>1, <2>3, <2>5, <3>1, <3>3
      <4>3. QED
        BY <2>1, <3>1, <4>1, <4>2 DEF TurnTyped, Hook
    <3>5. Booked(results, Settlings)' /\ Noted(results, place)'
      BY <3>1, <3>2, <3>3 DEF Booked, Noted
    <3>6. InTurn'
      BY <2>2, <3>1, <3>3, <3>5 DEF InTurn, Running, NothingEnded
    <3>7. Excused(results, worked, broke, place)'
      BY <3>3 DEF Excused
    <3>8. QED
      BY <3>4, <3>5, <3>6, <3>7 DEF TurnInv
  <2>6. CASE ~(0 < Len(list))
    <3>1. list = <<>>
      BY <2>3, <2>6
    <3>2. TurnEnds(<<>>, broke) /\ DOMAIN <<>> = {}
      BY <2>1, <2>6 DEF NextCall
    <3>3. doing' = "over" /\ replies' = Append(replies, "assistant") \o <<>> /\ broke' = broke /\ UNCHANGED <<place, failure>>
      BY <3>2 DEF TurnEnds
    <3>4. place' = 0 /\ asked' = <<>> /\ results' = <<>> /\ worked' = {} /\ hooks' = hooks /\ failure' = FALSE
      BY <2>1, <2>2, <3>1, <3>3
    <3>5. Len(replies') <= 1
      BY <2>2, <3>3
    <3>6. TurnTyped'
      <4>1. failure' \in BOOLEAN /\ hooks' \subseteq Hook /\ broke' \subseteq Mishap
        BY <2>4, <3>3, <3>4, Zenon
      <4>2. place' \in 0 .. Len(asked') /\ worked' \subseteq 1 .. place' /\ Len(replies') <= Len(asked') + 1
        BY <3>4, <3>5
      <4>3. QED
        BY <3>3, <3>4, <4>1, <4>2 DEF TurnTyped
    <3>7. Noted(results, place)' /\ Excused(results, worked, broke, place)'
      BY <3>4 DEF Noted, Excused
    <3>8. InTurn'
      BY <3>3, <3>4 DEF InTurn, Running
    <3>9. QED
      BY <3>6, <3>7, <3>8 DEF TurnInv
  <2>7. QED
    BY <2>5, <2>6
<1>6. CASE HookReturns
  <2>1. /\ doing \in {"onToolResult", "onError"} /\ NextCall(asked, results, place, broke)
        /\ UNCHANGED <<hooks, asked, results, worked>>
    BY <1>6 DEF HookReturns
  <2>2. Booked(results, place) /\ NothingEnded(broke)
    BY <2>1 DEF TurnInv, Settlings, InTurn, Running
  <2>3. Excused(results, worked, broke, place)
    BY DEF TurnInv
  <2>4. Excused(results, worked, broke, place + 1)
    <3>1. ASSUME NEW p \in worked PROVE p + 1 .. place \subseteq p + 1 .. place + 1
      BY <1>0
    <3>2. QED
      BY <2>3, <3>1 DEF Excused
  <2>5. broke \subseteq Mishap
    BY DEF TurnInv, TurnTyped
  <2>6. results' = results /\ worked' = worked
    BY <2>1
  <2>7. QED
    BY <1>0, <2>1, <2>2, <2>3, <2>4, <2>5, <2>6, NextCallKeeps
<1>7. ASSUME NEW w, w \subseteq worked \cup {place}, NEW b, broke \subseteq b, b \subseteq Mishap,
             doing \in {"onToolCall", "tool", "onToolResult"}, NEW outcome \in Outcome,
             outcome = "error" /\ place \in w => <<"onToolResult", place>> \in b, NothingEnded(b),
             results' = Put(asked[place], outcome), worked' = w, UNCHANGED <<hooks, asked>>,
             \/ doing' \in {"onToolResult", "onError"} /\ broke' = b /\ UNCHANGED <<place, replies, failure>>
             \/ NextCall(asked, results', place, b)
      PROVE  TurnInv'
  <2>1. Booked(results', place) /\ \E i \in DOMAIN results' : results'[i][1] = asked[place]
    BY <1>7, PutSettles
  <2>2. place \in 1 .. Len(asked) /\ replies = <<>> /\ ~failure
    BY <1>0, <1>7 DEF TurnInv, InTurn, Running
  <2>3. worked' \subseteq 1 .. place
    BY <1>0, <1>7, <2>2
  <2>4. Excused(results', w, b, place) /\ Excused(results', w, b, place + 1)
    BY <1>7, PutExcuses
  <2>5. CASE doing' \in {"onToolResult", "onError"} /\ broke' = b /\ UNCHANGED <<place, replies, failure>>
    <3>1. Settlings' = place
      BY <2>5 DEF Settlings
    <3>2. TurnTyped'
      <4>1. TurnTyped
        BY DEF TurnInv
      <4>2. QED
        BY <4>1, <1>7, <2>3, <2>5 DEF TurnTyped, Hook
    <3>3. Booked(results, Settlings)' /\ Noted(results, place)'
      BY <1>7, <2>1, <2>5, <3>1 DEF Booked, Noted
    <3>4. InTurn'
      <4>1. place' > 0 /\ (\E i \in DOMAIN results' : results'[i][1] = asked'[place'])
        BY <1>7, <2>1, <2>2, <2>5
      <4>2. replies' = <<>> /\ ~failure' /\ NothingEnded(broke')
        BY <1>7, <2>2, <2>5, Zenon
      <4>3. QED
        BY <2>5, <3>3, <4>1, <4>2 DEF InTurn, Running, NothingEnded
    <3>5. Excused(results, worked, broke, place)'
      BY <1>7, <2>4, <2>5 DEF Excused
    <3>6. QED
      BY <3>2, <3>3, <3>4, <3>5 DEF TurnInv
  <2>6. CASE NextCall(asked, results', place, b)
    BY <1>7, <2>1, <2>3, <2>4, <2>6, NextCallKeeps
  <2>7. QED
    BY <1>7, <2>5, <2>6
<1>8. broke \subseteq Mishap
  BY DEF TurnInv, TurnTyped
\* Nothing was thrown, which throws in the catch.
<1>9. ASSUME NEW b, broke \subseteq b, b \subseteq Mishap, NEW x \in Fatal, doing \in {"onToolCall", "tool", "onToolResult", "onError"},
             EndsInError(Append(replies, "assistant")), broke' = b \cup {<<x, place>>}, x \in Hook \cup {"null", "data"},
             UNCHANGED <<hooks, asked, results, worked>>
      PROVE  TurnInv'
  <2>1. place \in 1 .. Len(asked) /\ place \in Nat /\ replies = <<>>
    BY <1>0, <1>9 DEF TurnInv, InTurn, Running
  <2>2. broke' \subseteq Mishap /\ <<x, place>> \in broke' /\ broke \subseteq broke'
    BY <1>9, <2>1 DEF Mishap
  <2>3. \E y \in broke' : y[1] \in Fatal
    BY <1>9, <2>2
  <2> DEFINE said == Append(replies, "assistant")
  <2>4. Len(said) = 1
    BY <2>1
  <2>5. EndsInError(said)
    BY <1>9
  <2> HIDE DEF said
  <2>6. RepliesAnswer(said) /\ Len(said) \in 1 .. Len(asked) + 1
    BY <1>0, <2>4 DEF RepliesAnswer
  <2>7. results' = results /\ worked' = worked /\ hooks' = hooks /\ asked' = asked
    BY <1>9
  <2>8. Noted(results', place) /\ worked' \subseteq 1 .. place
    BY <1>0, <2>7 DEF TurnInv
  <2>9. Excused(results', worked', broke', place)
    BY <2>2, <2>7, MoreExcuses DEF TurnInv
  <2>10. QED
    BY <2>2, <2>3, <2>4, <2>5, <2>6, <2>7, <2>8, <2>9, ErrorEnds
<1>10. ASSUME NEW good \in BOOLEAN, ToolReturns(good) PROVE TurnInv'
  <2> DEFINE outcome == IF good THEN "data" ELSE "error"
             w == IF good THEN worked \cup {place} ELSE worked
  <2>1. /\ doing = "tool" /\ results' = Put(asked[place], outcome) /\ worked' = w
        /\ UNCHANGED <<hooks, asked>>
    BY <1>10 DEF ToolReturns, Settle
  <2>2. \/ doing' \in {"onToolResult", "onError"} /\ broke' = broke /\ UNCHANGED <<place, replies, failure>>
        \/ NextCall(asked, results', place, broke)
    BY <1>10 DEF ToolReturns
  <2>3. NothingEnded(broke) /\ place \notin worked
    BY <2>1 DEF TurnInv, InTurn, Running
  <2>4. outcome \in Outcome /\ w \subseteq worked \cup {place} /\ (outcome = "error" /\ place \in w => <<"onToolResult", place>> \in broke)
    BY <2>3 DEF Outcome
  <2> HIDE DEF outcome, w
  <2>5. QED
    BY <1>7, <1>8, <2>1, <2>2, <2>3, <2>4
<1>11. ASSUME NEW b, Caught(b), broke \subseteq b, b \subseteq Mishap, NothingEnded(b), UNCHANGED <<hooks, asked, worked>>,
              doing \in {"onToolCall", "tool", "onToolResult"}, place \in worked => <<"onToolResult", place>> \in b
       PROVE  TurnInv'
  <2>1. CASE /\ results' = Put(asked[place], "error")
             /\ \/ doing' \in {"onToolResult", "onError"} /\ broke' = b /\ UNCHANGED <<place, replies, failure>>
                \/ NextCall(asked, results', place, b)
    <3>1. "error" \in Outcome /\ worked \subseteq worked \cup {place} /\ worked' = worked
      BY <1>11 DEF Outcome
    <3>2. QED
      BY <1>7, <1>11, <2>1, <3>1
  <2>2. CASE EndsInError(Append(replies, "assistant")) /\ broke' = b \cup {<<"null", place>>} /\ UNCHANGED results
    <3>1. "null" \in Fatal /\ "null" \in Hook \cup {"null", "data"}
      BY DEF Fatal
    <3>2. QED
      BY <1>9, <1>11, <2>2, <3>1
  <2>3. QED
    BY <1>11, <2>1, <2>2 DEF Caught, Settle
<1>12. CASE ToolThrows
  <2>1. doing = "tool" /\ Caught(broke) /\ UNCHANGED <<hooks, asked, worked>>
    BY <1>12 DEF ToolThrows
  <2>2. NothingEnded(broke) /\ place \notin worked
    BY <2>1 DEF TurnInv, InTurn, Running
  <2>3. QED
    BY <1>8, <1>11, <2>1, <2>2
<1>13. CASE HookThrows
  <2> DEFINE b == broke \cup {<<doing, place>>}
  <2>1. doing \in {"onToolCall", "onToolResult"} /\ Caught(b) /\ UNCHANGED <<hooks, asked, worked>>
    BY <1>13 DEF HookThrows
  <2>2. NothingEnded(broke) /\ (doing = "onToolCall" => place \notin worked)
    BY <2>1 DEF TurnInv, InTurn, Running
  <2>3. b \subseteq Mishap /\ NothingEnded(b) /\ broke \subseteq b /\ (place \in worked => <<"onToolResult", place>> \in b)
    BY <1>0, <1>8, <2>1, <2>2 DEF NothingEnded, Fatal, Mishap, Hook
  <2> HIDE DEF b
  <2>4. QED
    BY <1>11, <2>1, <2>3
<1>14. CASE ErrorHookThrows
  <2>1. /\ doing = "onError" /\ EndsInError(Append(replies, "assistant")) /\ broke' = broke \cup {<<"onError", place>>}
        /\ UNCHANGED <<hooks, asked, results, worked>>
    BY <1>14 DEF ErrorHookThrows
  <2>2. "onError" \in Fatal /\ "onError" \in Hook \cup {"null", "data"} /\ broke \subseteq broke
    BY DEF Fatal, Hook
  <2>3. QED
    BY <1>8, <1>9, <2>1, <2>2
<1>15. CASE UNCHANGED turnVars
  <2>1. UNCHANGED <<hooks, doing, asked, place, results, replies, failure, worked, broke>>
    BY <1>15 DEF turnVars
  <2>2. TurnTyped' /\ Noted(results, place)' /\ Excused(results, worked, broke, place)'
    BY <2>1 DEF TurnInv, TurnTyped, Noted, Excused
  <2>3. (EndsRight' <=> EndsRight) /\ (Booked(results, Settlings)' <=> Booked(results, Settlings))
    BY <2>1 DEF EndsRight, RepliesAnswer, Booked, Settlings
  <2>4. InTurn'
    BY <2>1, <2>3 DEF TurnInv, InTurn, Running, NothingEnded
  <2>5. QED
    BY <2>2, <2>4 DEF TurnInv
<1>16. QED
  BY <1>1, <1>2, <1>3, <1>4, <1>5, <1>6, <1>10, <1>12, <1>13, <1>14, <1>15 DEF TurnNext

LEMMA TurnTypes == TurnInv /\ ControllerInv => TurnTypeOK
<1> SUFFICES ASSUME TurnInv, ControllerInv PROVE TurnTypeOK
  OBVIOUS
<1>1. DOMAIN asked = 1 .. Len(asked) /\ Len(asked) \in Nat
  BY AskedInOrder
<1>2. Len(results) <= Len(asked) /\ worked \subseteq DOMAIN asked
  <2>1. place \in 0 .. Len(asked) /\ worked \subseteq 1 .. place
    BY DEF TurnInv, TurnTyped
  <2>2. Len(results) <= place /\ Len(results) \in Nat
    BY DEF TurnInv, Noted
  <2>3. QED
    BY <1>1, <2>1, <2>2
<1>3. QED
  BY <1>2 DEF TurnTypeOK, TurnInv, TurnTyped, Mishap, ControllerInv, ControllerTyped

(* A turn without an error has answered each call it was asked for, in order.  *)
(* One that ends in an error had its error hook throw, a tool or hook throw    *)
(* nothing, or a result that cannot be written down, and has answered the      *)
(* calls before that one or none; and no call whose tool worked is reported as *)
(* failed unless the hook told of its result threw or the id came again: for   *)
(* any lists of calls, hooks and failures (TurnManager.executeTurn).           *)
THEOREM TurnsAnswerCalls == TurnSpec => []TurnAnswersCalls
<1>1. TurnInv => TurnAnswersCalls
  BY DEF TurnInv, InTurn, Running, EndsRight, RepliesAnswer, Fatal, Excused, TurnAnswersCalls
<1> QED
  BY <1>1, TurnStarts, TurnKeeps, PTL DEF TurnSpec

-----------------------------------------------------------------------------
(* The parts together: a step of the machines is a step of one part.          *)

LEMMA PartsStart ==
  Init => /\ ResilienceInit /\ BreakerInit /\ RunnerInit /\ ExecutorInit /\ BucketInit /\ ScheduleInit
          /\ PollerInit /\ TriggersInit /\ LimiterInit /\ ArtifactInit /\ ManagerInit
          /\ CheckpointInit /\ RegistryInit /\ StateInit /\ TurnInit /\ ControllerInit
BY DEF Init

LEMMA PartsStep ==
  [Next]_<<focus, serving, timed, shared, perAgent>> =>
    /\ [ResilienceNext]_resilienceVars /\ [BreakerNext]_breakerVars /\ [RunnerNext]_runnerVars
    /\ [ExecutorNext]_executorVars /\ [BucketNext]_bucketVars
    /\ [ScheduleNext]_scheduleVars /\ [PollerNext]_pollerVars /\ [TriggersNext]_triggerVars
    /\ [LimiterNext]_limiterVars /\ [ArtifactNext]_artifactVars /\ [ManagerNext]_managerVars
    /\ [CheckpointNext]_checkpointVars
    /\ [RegistryNext]_registryVars /\ [StateNext]_stateVars /\ [TurnNext]_turnVars /\ [ControllerNext]_controllerVars
BY DEF Next, Serve, KeepTime, Share, ServeAgent, serving, timed, shared, perAgent

LEMMA PartsOfTheMachines ==
  Spec => /\ BucketSpec /\ ScheduleSpec /\ PollerSpec /\ TriggersSpec /\ LimiterSpec /\ ArtifactSpec /\ ManagerSpec
          /\ CheckpointSpec /\ RegistrySpec /\ StateSpec /\ TurnSpec /\ ControllerSpec
BY PartsStart, PartsStep, PTL DEF Spec, BucketSpec, ScheduleSpec, PollerSpec, TriggersSpec, LimiterSpec, ArtifactSpec, ManagerSpec,
   CheckpointSpec, RegistrySpec, StateSpec, TurnSpec, ControllerSpec

ServingInv == ResilienceInv /\ BreakerInv /\ RunnerInv /\ ExecutorInv /\ BucketInv
TimedInv == ScheduleInv /\ PollerInv /\ TriggersInv
SharedInv == LimiterInv /\ ArtifactInv /\ ManagerInv /\ CheckpointInv
PerAgentInv == RegistryInv /\ StateInv /\ TurnInv /\ ControllerInv

\* Each part keeps its invariant, whichever part runs.
LEMMA MachinesKeepTheirInvariants == Spec => [](ServingInv /\ TimedInv /\ SharedInv /\ PerAgentInv)
<1>1. Init => ServingInv /\ TimedInv /\ SharedInv /\ PerAgentInv
  BY PartsStart, ResilienceStarts, BreakerStarts, RunnerStarts, ExecutorStarts, BucketStarts, ScheduleStarts, PollerStarts,
     TriggersStarts, LimiterStarts, ArtifactsStart, ManagerStarts, CheckpointStarts, RegistryStarts, StateStarts, TurnStarts,
     ControllerStarts DEF ServingInv, TimedInv, SharedInv, PerAgentInv
<1>2. ServingInv /\ [Next]_<<focus, serving, timed, shared, perAgent>> => ServingInv'
  BY PartsStep, ResilienceKeeps, BreakerKeeps, RunnerKeeps, ExecutorKeeps, BucketKeeps DEF ServingInv
<1>3. TimedInv /\ [Next]_<<focus, serving, timed, shared, perAgent>> => TimedInv'
  BY PartsStep, ScheduleKeeps, PollerKeeps, TriggersKeep DEF TimedInv
<1>4. SharedInv /\ [Next]_<<focus, serving, timed, shared, perAgent>> => SharedInv'
  BY PartsStep, LimiterKeeps, ArtifactsKeep, ManagerKeeps, CheckpointKeeps DEF SharedInv
<1>5. PerAgentInv /\ [Next]_<<focus, serving, timed, shared, perAgent>> => PerAgentInv'
  BY PartsStep, RegistryKeeps, StateKeeps, TurnKeeps, ControllerKeeps DEF PerAgentInv
<1>6. QED
  BY <1>1, <1>2, <1>3, <1>4, <1>5, PTL DEF Spec

(* Types of all the parts.                                                     *)
THEOREM MachinesAreTyped == Spec => []TypeOK
<1>1. ServingInv /\ TimedInv /\ SharedInv /\ PerAgentInv => TypeOK
  BY ResilienceTypes, BreakerTypes, RunnerTypes, ExecutorTypes, BucketTypes, ScheduleTypes, PollerTypes, TriggersTypes,
     LimiterTypes, ArtifactTypes, ManagerTypes, CheckpointTypes, RegistryTypes, StateTypes, TurnTypes
     DEF TypeOK, ServingInv, TimedInv, SharedInv, PerAgentInv
<1>2. QED
  BY <1>1, MachinesKeepTheirInvariants, PTL

(* A poller skips no item, and repeats one only when its polls overlap; only a *)
(* stray timer runs a workflow that is not registered; a dropped event repeats *)
(* one that was answered, or whose transform threw; an execution runs each     *)
(* step once, but for changes meanwhile; a turn answers the calls it was asked *)
(* for, or ends in an error of a known cause; and what was kept is found:      *)
(* checkpoints, states, artifacts, the caller a paused loop waits for          *)
(* (PollingTrigger, ScheduledWorkflow, TriggerManager, WorkflowRegistry,       *)
(* TurnManager, SessionPersistence, StateManager, ArtifactManager).            *)
THEOREM NothingIsMissed == Spec => []NothingMissed
<1>1. NothingSkipped /\ OnlyOverlapRepeats /\ OnlyStrayTimersTick /\ DuplicatesWereAnswered /\ EachStepOnce
      /\ TurnAnswersCalls /\ TakenIsFound /\ PersistedIsKept /\ ListedIsHeld /\ WaitersAreKnown => NothingMissed
  BY DEF NothingMissed, KeptIsFound
<1>2. QED
  BY <1>1, PartsOfTheMachines, PollerSkipsNothing, OnlyStraysTick, RepeatsHadTheirSay, StepsAreRunOnce, TurnsAnswerCalls,
     TakenCheckpointsAreFound, PersistedStateIsKept, ListedArtifactsAreHeld, WaitersHoldTheSlot, PTL

(* A window gives no more tokens than it has, and an agent's account is what   *)
(* it was given; the tokens reported in a window pass their limit by no more   *)
(* than as many requests can use as may run at once, and are never counted too *)
(* low; and a runner is lent to one at a time (RateLimiter, hub RateLimiter,   *)
(* RunnerManager).                                                             *)
THEOREM LimitsAreKept == Spec => []WithinLimits
<1>1. WindowBudget /\ OverrunIsBounded /\ NeverUndercounts /\ RunnersAreLentOnce => WithinLimits
  BY DEF WithinLimits
<1>2. QED
  BY <1>1, PartsOfTheMachines, BudgetIsKept, LimiterIsBounded, LentToOneAtATime, PTL

=============================================================================
