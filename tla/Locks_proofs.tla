---------------------------- MODULE Locks_proofs ----------------------------
(***************************************************************************)
(* The users of locks and tokens: what the fencing guard lets run, which   *)
(* tokens the distributed lock refuses, and what the work coordinator      *)
(* offers, for any number of clients, processes, items and agents.         *)
(***************************************************************************)
EXTENDS MCLocks, SequenceTheorems, WellFoundedInduction, TLAPS

GuardSpec == GuardInit /\ [][GuardNext]_guardVars
LockSpec == LockInit /\ [][LockNext]_lockVars
CoordinatorSpec == CoordinatorInit /\ [][CoordinatorNext]_workVars

-----------------------------------------------------------------------------
(* The fencing token guard.                                                *)

\* A request that found a lease found the newest token there is.
RequestsFoundNewest ==
  /\ passed <= counter
  /\ \A c \in Client :
       /\ request[c].found <= counter
       /\ request[c].found # 0 => request[c].newest <= request[c].found

GuardInv == GuardTypeOK /\ StoredLeaseIsLatest /\ RequestsFoundNewest

\* A step of the store keeps the latest grant's token in it, and never takes
\* the counter back.
LEMMA StoreStep ==
  ASSUME BackendTypeOK, StoredLeaseIsLatest, [BackendNext]_backendVars
  PROVE  BackendTypeOK' /\ StoredLeaseIsLatest' /\ counter <= counter'
<1> USE NobodyAssumption DEF BackendTypeOK, StoredLeaseIsLatest, NoLease
<1>1. ASSUME NEW h \in Holder, NEW ok \in BOOLEAN, Acquire(h, ok)
      PROVE  BackendTypeOK' /\ StoredLeaseIsLatest' /\ counter <= counter'
  BY <1>1 DEF Acquire, Acquirable
<1>2. ASSUME NEW h \in Holder, NEW ok \in BOOLEAN, Renew(h, ok)
      PROVE  BackendTypeOK' /\ StoredLeaseIsLatest' /\ counter <= counter'
  BY <1>2 DEF Renew, Renewable, ExpiredFor
<1>3. ASSUME NEW h \in Holder, NEW ok \in BOOLEAN, Release(h, ok)
      PROVE  BackendTypeOK' /\ StoredLeaseIsLatest' /\ counter <= counter'
  BY <1>3 DEF Release, Releasable
<1>4. ASSUME NEW found, GetLease(found)
      PROVE  BackendTypeOK' /\ StoredLeaseIsLatest' /\ counter <= counter'
  BY <1>4 DEF GetLease
<1>5. ASSUME Close
      PROVE  BackendTypeOK' /\ StoredLeaseIsLatest' /\ counter <= counter'
  BY <1>5 DEF Close
<1>6. ASSUME Age
      PROVE  BackendTypeOK' /\ StoredLeaseIsLatest' /\ counter <= counter'
  BY <1>6 DEF Age
<1>7. CASE UNCHANGED backendVars
  BY <1>7 DEF backendVars
<1>8. QED
  BY <1>1, <1>2, <1>3, <1>4, <1>5, <1>6, <1>7 DEF BackendNext

LEMMA GuardStarts == GuardInit => GuardInv
<1> SUFFICES ASSUME GuardInit PROVE GuardInv
  OBVIOUS
<1>1. BackendTypeOK /\ StoredLeaseIsLatest
  BY DEF GuardInit, BackendInit, BackendTypeOK, StoredLeaseIsLatest, NoLease
<1>2. GuardTypeOK /\ RequestsFoundNewest
  BY <1>1 DEF GuardInit, BackendInit, GuardTypeOK, RequestsFoundNewest, None
<1>3. QED
  BY <1>1, <1>2 DEF GuardInv

LEMMA GuardKeeps == GuardInv /\ [GuardNext]_guardVars => GuardInv'
<1> SUFFICES ASSUME GuardInv, [GuardNext]_guardVars PROVE GuardInv'
  OBVIOUS
<1> USE DEF GuardInv, GuardTypeOK, RequestsFoundNewest
<1>1. ASSUME NEW c \in Client, NEW token \in 1 .. counter, ExecuteWithToken(c, token)
      PROVE  GuardInv'
  <2>1. PICK found \in {lease, NoLease} :
          /\ GetLease(found)
          /\ request' = [request EXCEPT ![c] =
               [token |-> token, found |-> found.token, newest |-> passed]]
    BY <1>1 DEF ExecuteWithToken
  <2>2. BackendTypeOK' /\ StoredLeaseIsLatest' /\ counter' = counter
    BY <2>1, StoreStep DEF BackendNext, GetLease
  <2>3. found.token \in {0, counter}
    BY <2>1, NobodyAssumption DEF BackendTypeOK, StoredLeaseIsLatest, NoLease
  <2>4. token \in Nat /\ counter \in Nat /\ passed' = passed
    BY <1>1 DEF BackendTypeOK, ExecuteWithToken
  <2>5. QED
    BY <2>1, <2>2, <2>3, <2>4
<1>2. ASSUME NEW c \in Client, RunOperation(c) \/ Reject(c)
      PROVE  GuardInv'
  <2>1. BackendTypeOK' /\ StoredLeaseIsLatest' /\ counter' = counter
    BY <1>2, StoreStep DEF RunOperation, Reject, backendVars
  <2>2. request' = [request EXCEPT ![c] = None] /\ counter \in Nat
    BY <1>2 DEF RunOperation, Reject, BackendTypeOK
  <2>3. passed' \in {passed, request[c].found}
    BY <1>2 DEF RunOperation, Reject, Accepts
  <2>4. QED
    BY <2>1, <2>2, <2>3 DEF None
<1>3. CASE BackendNext /\ UNCHANGED <<request, passed>>
  <2>1. BackendTypeOK' /\ StoredLeaseIsLatest' /\ counter <= counter'
    BY <1>3, StoreStep
  <2>2. counter \in Nat /\ counter' \in Nat
    BY <2>1 DEF BackendTypeOK
  <2>3. QED
    BY <1>3, <2>1, <2>2
<1>4. CASE UNCHANGED guardVars
  <2>1. BackendTypeOK' /\ StoredLeaseIsLatest' /\ counter' = counter
    BY <1>4, StoreStep DEF guardVars, backendVars
  <2>2. QED
    BY <1>4, <2>1 DEF guardVars
<1>5. QED
  BY <1>1, <1>2, <1>3, <1>4 DEF GuardNext

LEMMA GuardCorrect == GuardSpec => []GuardInv
BY GuardStarts, GuardKeeps, PTL DEF GuardSpec

\* The comparison in executeWithToken: once an operation ran with a token, no
\* request made later runs with a smaller one.
THEOREM StaleLeadersAreFenced == GuardSpec => FencedAfterNewerRan
<1>1. GuardInv /\ [GuardNext]_guardVars =>
        [\A c \in Client : RunOperation(c) => request[c].token >= request[c].newest]_guardVars
  <2> SUFFICES ASSUME GuardInv, NEW c \in Client, RunOperation(c)
               PROVE  request[c].token >= request[c].newest
    OBVIOUS
  <2> QED
    BY DEF GuardInv, GuardTypeOK, RequestsFoundNewest, RunOperation, Accepts
<1>2. QED
  BY <1>1, GuardCorrect, PTL DEF GuardSpec, FencedAfterNewerRan

-----------------------------------------------------------------------------
(* The distributed lock.                                                   *)

Values == {Free} \cup {[owner |-> b, token |-> t] : b \in Process, t \in Nat \ {0}}
GoodValue(v) == v.owner \in Process => v.token <= MaxTokens[v.owner]

Ops == {"acquire", "mine", "still mine", "delete", "rewrite", "clean"}
Commands == [op : Ops, data : Values, ans : Values]
IsAcquire(command) == command.op = "acquire"

LockTyped ==
  /\ value \in Values /\ GoodValue(value)
  /\ local \in [Process -> [token : Nat, past : BOOLEAN]]
  /\ fencingCounter \in [Process -> Nat]
  /\ sent \in [Process -> Seq(Commands)]
  /\ grants \in [Process -> Seq(Nat)]
  /\ \A a \in Process :
       /\ fencingCounter[a] <= MaxTokens[a]
       /\ Len(sent[a]) <= MaxPending[a]
       /\ \A k \in 1 .. Len(sent[a]) : /\ GoodValue(sent[a][k].data)
                                       /\ GoodValue(sent[a][k].ans)

\* Of one process: its grants g, its commands s, its counter n and its record r.
\* The tokens granted and those on their way increase, in this order, up to the
\* counter, and a record has the token of the last grant.
InOrder(g, s, n, r) ==
  /\ \A j \in 1 .. Len(g) : g[j] \in 1 .. n
  /\ \A k \in 1 .. Len(s) : IsAcquire(s[k]) => s[k].data.token \in 1 .. n
  /\ \A i, j \in 1 .. Len(g) : i < j => g[i] < g[j]
  /\ \A j \in 1 .. Len(g), k \in 1 .. Len(s) : IsAcquire(s[k]) => g[j] < s[k].data.token
  /\ \A k, m \in 1 .. Len(s) :
       k < m /\ IsAcquire(s[k]) /\ IsAcquire(s[m]) => s[k].data.token < s[m].data.token
  /\ r = NoRecord \/ (Len(g) > 0 /\ r.token = g[Len(g)])

TokensInOrder ==
  \A a \in Process : InOrder(grants[a], sent[a], fencingCounter[a], local[a])

LockInv == LockTyped /\ TokensInOrder

LEMMA HeadIsFirst ==
  ASSUME NEW S, NEW s \in Seq(S), s # <<>>
  PROVE  1 \in 1 .. Len(s) /\ Head(s) = s[1] /\ Head(s) \in S
<1>1. Len(s) \in Nat \ {0}
  BY EmptySeq
<1>2. 1 \in 1 .. Len(s)
  BY <1>1
<1>3. QED
  BY <1>2, HeadTailProperties

LEMMA FreeIsGood == Free \in Values /\ GoodValue(Free)
BY ProcessAssumption DEF Values, GoodValue, Free

\* What a queue of commands may become: the answer at its head is taken, or a
\* command is appended.
GoodQueue(s, a) ==
  /\ s \in Seq(Commands) /\ Len(s) <= MaxPending[a]
  /\ \A k \in 1 .. Len(s) : GoodValue(s[k].data) /\ GoodValue(s[k].ans)

LEMMA TailInOrder ==
  ASSUME NEW a \in Process, NEW s, GoodQueue(s, a), s # <<>>,
         NEW g \in Seq(Nat), NEW n \in Nat, NEW r, InOrder(g, s, n, r)
  PROVE  GoodQueue(Tail(s), a) /\ InOrder(g, Tail(s), n, r)
<1>1. /\ Len(s) \in Nat \ {0} /\ MaxPending[a] \in Nat
      /\ Tail(s) \in Seq(Commands) /\ Len(Tail(s)) = Len(s) - 1
      /\ \A k \in 1 .. Len(Tail(s)) : Tail(s)[k] = s[k + 1] /\ k + 1 \in 1 .. Len(s)
  BY HeadTailProperties, EmptySeq, ProcessAssumption DEF GoodQueue
<1> DEFINE t == Tail(s)
<1>2. /\ \A k \in 1 .. Len(t) : t[k] = s[k + 1] /\ k + 1 \in 1 .. Len(s)
      /\ \A k, m \in 1 .. Len(t) : k < m => k + 1 < m + 1
  BY <1>1
<1> HIDE DEF t
<1>3. InOrder(g, t, n, r)
  BY <1>2 DEF InOrder
<1>4. QED
  BY <1>1, <1>3 DEF GoodQueue, t

LEMMA SentInOrder ==
  ASSUME NEW a \in Process, NEW s, GoodQueue(s, a), Len(s) < MaxPending[a],
         NEW c \in Commands, GoodValue(c.data), GoodValue(c.ans),
         NEW g \in Seq(Nat), NEW n \in Nat, NEW m \in Nat, NEW r, InOrder(g, s, n, r),
         IF IsAcquire(c) THEN m = n + 1 /\ c.data.token = m ELSE m = n
  PROVE  GoodQueue(Append(s, c), a) /\ InOrder(g, Append(s, c), m, r)
<1> DEFINE t == Append(s, c)
<1>1. /\ Len(s) \in Nat /\ MaxPending[a] \in Nat
      /\ t \in Seq(Commands) /\ Len(t) = Len(s) + 1
      /\ \A k \in 1 .. Len(t) : (k \in 1 .. Len(s) /\ t[k] = s[k]) \/ (k = Len(s) + 1 /\ t[k] = c)
  BY AppendProperties, LenProperties, ProcessAssumption DEF GoodQueue
<1> HIDE DEF t
<1>2. Len(g) \in Nat /\ \A j \in 1 .. Len(g) : g[j] \in Nat
  BY LenProperties, ElementOfSeq
<1>3. \A k \in 1 .. Len(s) : IsAcquire(s[k]) => s[k].data.token \in 1 .. n
  BY DEF InOrder
<1>4. GoodQueue(t, a)
  <2>1. \A k \in 1 .. Len(t) : GoodValue(t[k].data) /\ GoodValue(t[k].ans)
    BY <1>1, Zenon DEF GoodQueue
  <2>2. Len(t) <= MaxPending[a]
    BY <1>1
  <2>3. QED
    BY <1>1, <2>1, <2>2 DEF GoodQueue
<1>5. \A k \in 1 .. Len(t) : IsAcquire(t[k]) =>
        t[k].data.token \in 1 .. m /\ \A j \in 1 .. Len(g) : g[j] < t[k].data.token
  <2> SUFFICES ASSUME NEW k \in 1 .. Len(t), IsAcquire(t[k])
               PROVE  t[k].data.token \in 1 .. m /\ \A j \in 1 .. Len(g) : g[j] < t[k].data.token
    OBVIOUS
  <2>1. CASE k \in 1 .. Len(s) /\ t[k] = s[k]
    <3>1. /\ s[k].data.token \in 1 .. n
          /\ \A j \in 1 .. Len(g) : g[j] < s[k].data.token
      BY <2>1 DEF InOrder
    <3>2. n <= m
      OBVIOUS
    <3>3. QED
      BY <2>1, <3>1, <3>2
  <2>2. CASE t[k] = c
    <3>1. m = n + 1 /\ c.data.token = m
      BY <2>2
    <3>2. \A j \in 1 .. Len(g) : g[j] \in 1 .. n
      BY DEF InOrder
    <3>3. QED
      BY <2>2, <3>1, <3>2
  <2>3. QED
    BY <1>1, <2>1, <2>2
<1>6. \A j, k \in 1 .. Len(t) :
        j < k /\ IsAcquire(t[j]) /\ IsAcquire(t[k]) => t[j].data.token < t[k].data.token
  <2> SUFFICES ASSUME NEW j \in 1 .. Len(t), NEW k \in 1 .. Len(t),
                      j < k, IsAcquire(t[j]), IsAcquire(t[k])
               PROVE  t[j].data.token < t[k].data.token
    OBVIOUS
  <2>1. j \in 1 .. Len(s) /\ t[j] = s[j]
    BY <1>1
  <2>2. CASE k \in 1 .. Len(s) /\ t[k] = s[k]
    BY <2>1, <2>2 DEF InOrder
  <2>3. CASE t[k] = c
    <3>1. m = n + 1 /\ c.data.token = m
      BY <2>3
    <3>2. s[j].data.token \in 1 .. n
      BY <1>3, <2>1
    <3>3. QED
      BY <2>1, <2>3, <3>1, <3>2
  <2>4. QED
    BY <1>1, <2>2, <2>3
<1>7. \A j \in 1 .. Len(g) : g[j] \in 1 .. m
  BY <1>2 DEF InOrder
<1>8. QED
  BY <1>4, <1>5, <1>6, <1>7 DEF InOrder, t

LEMMA GrantInOrder ==
  ASSUME NEW a \in Process, NEW s, GoodQueue(s, a), s # <<>>, IsAcquire(Head(s)),
         NEW g \in Seq(Nat), NEW n \in Nat, NEW r, InOrder(g, s, n, r)
  PROVE  LET token == Head(s).data.token IN
         /\ token \in Nat /\ Append(g, token) \in Seq(Nat)
         /\ InOrder(Append(g, token), Tail(s), n, [token |-> token, past |-> FALSE])
<1> DEFINE t == Tail(s)
           token == Head(s).data.token
           h == Append(g, token)
<1>1. /\ Len(s) \in Nat \ {0} /\ Len(t) = Len(s) - 1
      /\ \A k \in 1 .. Len(t) : t[k] = s[k + 1] /\ k + 1 \in 1 .. Len(s) /\ 1 < k + 1
      /\ Head(s) = s[1]
  BY HeadTailProperties, EmptySeq DEF GoodQueue
<1>2. token \in 1 .. n /\ token \in Nat
  BY <1>1 DEF InOrder
<1>3. /\ Len(g) \in Nat /\ h \in Seq(Nat) /\ Len(h) = Len(g) + 1
      /\ \A j \in 1 .. Len(h) : (j \in 1 .. Len(g) /\ h[j] = g[j]) \/ (j = Len(g) + 1 /\ h[j] = token)
      /\ h[Len(h)] = token
  BY <1>2, AppendProperties, LenProperties
<1> HIDE DEF t, h
<1>4. InOrder(g, t, n, r)
  BY TailInOrder DEF t
<1>5. \A j \in 1 .. Len(g) : g[j] < token
  BY <1>1 DEF InOrder
<1>6. \A k \in 1 .. Len(t) : IsAcquire(t[k]) => token < t[k].data.token
  <2>1. 1 \in 1 .. Len(s) /\ IsAcquire(s[1]) /\ token = s[1].data.token
    BY <1>1
  <2>2. QED
    BY <1>1, <2>1 DEF InOrder
<1>7. \A i, j \in 1 .. Len(h) : i < j => h[i] < h[j]
  <2> SUFFICES ASSUME NEW i \in 1 .. Len(h), NEW j \in 1 .. Len(h), i < j
               PROVE  h[i] < h[j]
    OBVIOUS
  <2>1. i \in 1 .. Len(g) /\ h[i] = g[i]
    <3>1. ~(i = Len(g) + 1)
      BY <1>3
    <3>2. QED
      BY <1>3, <3>1
  <2>2. CASE j \in 1 .. Len(g) /\ h[j] = g[j]
    BY <2>1, <2>2 DEF InOrder
  <2>3. CASE h[j] = token
    BY <1>5, <2>1, <2>3
  <2>4. QED
    BY <1>3, <2>2, <2>3
<1>8. \A j \in 1 .. Len(h), k \in 1 .. Len(t) : IsAcquire(t[k]) => h[j] < t[k].data.token
  BY <1>3, <1>4, <1>6 DEF InOrder
<1>9. \A j \in 1 .. Len(h) : h[j] \in 1 .. n
  BY <1>2, <1>3, <1>4 DEF InOrder
<1>10. InOrder(h, t, n, [token |-> token, past |-> FALSE])
  BY <1>3, <1>4, <1>7, <1>8, <1>9 DEF InOrder
<1>11. QED
  BY <1>2, <1>3, <1>10 DEF h, t

\* A step of process a that leaves its part of the state in order.
LEMMA LockStep ==
  ASSUME LockInv, NEW a \in Process,
         value' \in Values, GoodValue(value)',
         NEW s, GoodQueue(s, a), sent' = [sent EXCEPT ![a] = s],
         NEW r \in [token : Nat, past : BOOLEAN], local' = [local EXCEPT ![a] = r],
         NEW n \in Nat, n <= MaxTokens[a],
         fencingCounter' = [fencingCounter EXCEPT ![a] = n],
         NEW g \in Seq(Nat), grants' = [grants EXCEPT ![a] = g],
         InOrder(g, s, n, r)
  PROVE  LockInv'
<1>1. /\ local' \in [Process -> [token : Nat, past : BOOLEAN]]
      /\ fencingCounter' \in [Process -> Nat]
      /\ sent' \in [Process -> Seq(Commands)]
      /\ grants' \in [Process -> Seq(Nat)]
  BY DEF LockInv, LockTyped, GoodQueue
<1>2. ASSUME NEW b \in Process
      PROVE  /\ fencingCounter'[b] <= MaxTokens[b]
             /\ GoodQueue(sent'[b], b)
             /\ InOrder(grants'[b], sent'[b], fencingCounter'[b], local'[b])
  <2>1. CASE b = a
    BY <2>1 DEF LockInv, LockTyped
  <2>2. CASE b # a
    <3>1. /\ local'[b] = local[b] /\ fencingCounter'[b] = fencingCounter[b]
          /\ sent'[b] = sent[b] /\ grants'[b] = grants[b]
      BY <2>2 DEF LockInv, LockTyped
    <3>2. QED
      BY <3>1 DEF LockInv, LockTyped, TokensInOrder, GoodQueue
  <2>3. QED
    BY <2>1, <2>2
<1>3. GoodValue(value')
  BY DEF GoodValue
<1>4. LockTyped'
  BY <1>1, <1>2, <1>3 DEF LockTyped, GoodQueue, GoodValue
<1>5. TokensInOrder'
  BY <1>2 DEF TokensInOrder
<1>6. QED
  BY <1>4, <1>5 DEF LockInv

LEMMA Issued ==
  ASSUME LockTyped, NEW a \in Process, NEW s, NEW op \in Ops,
         NEW data \in Values, GoodValue(data), Issue(a, s, op, data)
  PROVE  /\ value' \in Values /\ GoodValue(value)'
         /\ Len(s) < MaxPending[a]
         /\ \E c \in Commands :
              /\ c.op = op /\ c.data = data /\ GoodValue(c.data) /\ GoodValue(c.ans)
              /\ sent' = [sent EXCEPT ![a] = Append(s, c)]
<1>1. value' \in {data, Free, value}
  BY DEF Issue
<1>2. value' \in Values /\ GoodValue(value')
  BY <1>1, FreeIsGood DEF LockTyped
<1> DEFINE c == [op |-> op, data |-> data, ans |-> value]
<1>3. c \in Commands /\ GoodValue(c.data) /\ GoodValue(c.ans)
  BY DEF Commands, LockTyped
<1>4. Len(s) < MaxPending[a] /\ sent' = [sent EXCEPT ![a] = Append(s, c)]
  BY DEF Issue
<1>5. QED
  BY <1>2, <1>3, <1>4 DEF GoodValue

LEMMA PartInOrder ==
  ASSUME LockInv, NEW a \in Process
  PROVE  /\ GoodQueue(sent[a], a) /\ InOrder(grants[a], sent[a], fencingCounter[a], local[a])
         /\ grants[a] \in Seq(Nat) /\ fencingCounter[a] \in Nat /\ fencingCounter[a] <= MaxTokens[a]
         /\ local[a] \in [token : Nat, past : BOOLEAN]
BY DEF LockInv, LockTyped, TokensInOrder, GoodQueue

\* A command that gives no token, after the queue s.
LEMMA IssueStep ==
  ASSUME LockInv, NEW a \in Process, NEW s, s = sent[a] \/ (sent[a] # <<>> /\ s = Tail(sent[a])),
         NEW op \in Ops \ {"acquire"}, NEW data \in Values, GoodValue(data),
         Issue(a, s, op, data), UNCHANGED <<local, fencingCounter, grants>>
  PROVE  LockInv'
<1> DEFINE g == grants[a]
           n == fencingCounter[a]
           r == local[a]
<1>1. PICK c \in Commands :
        /\ c.op = op /\ GoodValue(c.data) /\ GoodValue(c.ans)
        /\ Len(s) < MaxPending[a] /\ sent' = [sent EXCEPT ![a] = Append(s, c)]
  BY Issued DEF LockInv
<1>2. value' \in Values /\ GoodValue(value)'
  BY Issued DEF LockInv
<1>3. GoodQueue(s, a) /\ InOrder(g, s, n, r)
  <2>1. GoodQueue(sent[a], a) /\ InOrder(g, sent[a], n, r) /\ g \in Seq(Nat) /\ n \in Nat
    BY PartInOrder
  <2>2. QED
    BY <2>1, TailInOrder
<1>4. ~IsAcquire(c)
  BY <1>1 DEF IsAcquire
<1>5. GoodQueue(Append(s, c), a) /\ InOrder(g, Append(s, c), n, r)
  BY <1>1, <1>3, <1>4, SentInOrder, PartInOrder
<1>6. /\ local' = [local EXCEPT ![a] = r] /\ grants' = [grants EXCEPT ![a] = g]
      /\ fencingCounter' = [fencingCounter EXCEPT ![a] = n]
  BY DEF LockInv, LockTyped
<1>7. QED
  BY <1>1, <1>2, <1>5, <1>6, PartInOrder, LockStep

\* The answer at the head is taken, and the record becomes r.
LEMMA EndStep ==
  ASSUME LockInv, NEW a \in Process, sent[a] # <<>>, Ends(a),
         NEW r \in [token : Nat, past : BOOLEAN], local' = [local EXCEPT ![a] = r],
         r = NoRecord \/ (local[a] # NoRecord /\ r.token = local[a].token),
         UNCHANGED <<fencingCounter, grants>>
  PROVE  LockInv'
<1> DEFINE g == grants[a]
           n == fencingCounter[a]
<1>1. GoodQueue(Tail(sent[a]), a) /\ InOrder(g, Tail(sent[a]), n, local[a])
  BY PartInOrder, TailInOrder
<1>2. InOrder(g, Tail(sent[a]), n, r)
  BY <1>1 DEF InOrder
<1>3. /\ sent' = [sent EXCEPT ![a] = Tail(sent[a])] /\ value' = value
      /\ grants' = [grants EXCEPT ![a] = g]
      /\ fencingCounter' = [fencingCounter EXCEPT ![a] = n]
  BY DEF Ends, LockInv, LockTyped
<1>4. value' \in Values /\ GoodValue(value)'
  BY <1>3 DEF LockInv, LockTyped, GoodValue
<1>5. QED
  BY <1>1, <1>2, <1>3, <1>4, PartInOrder, LockStep

LEMMA AcquireLockStep ==
  ASSUME LockInv, NEW a \in Process, AcquireLock(a)
  PROVE  LockInv'
<1> DEFINE n == fencingCounter[a] + 1
           data == [owner |-> a, token |-> n]
<1>1. n \in Nat \ {0} /\ n <= MaxTokens[a] /\ data \in Values /\ GoodValue(data)
  BY PartInOrder, ProcessAssumption DEF AcquireLock, Values, GoodValue
<1>2. PICK c \in Commands :
        /\ c.op = "acquire" /\ c.data = data /\ GoodValue(c.data) /\ GoodValue(c.ans)
        /\ Len(sent[a]) < MaxPending[a] /\ sent' = [sent EXCEPT ![a] = Append(sent[a], c)]
  <2>1. LockTyped /\ "acquire" \in Ops /\ Issue(a, sent[a], "acquire", data)
    BY DEF LockInv, AcquireLock, Ops
  <2>2. QED
    BY <1>1, <2>1, Issued
<1>3. value' \in Values /\ GoodValue(value)'
  <2>1. LockTyped /\ "acquire" \in Ops /\ Issue(a, sent[a], "acquire", data)
    BY DEF LockInv, AcquireLock, Ops
  <2>2. QED
    BY <1>1, <2>1, Issued
<1>4. IsAcquire(c) /\ c.data.token = n
  BY <1>2 DEF IsAcquire
<1>5. /\ GoodQueue(Append(sent[a], c), a)
      /\ InOrder(grants[a], Append(sent[a], c), n, local[a])
  BY <1>1, <1>2, <1>4, SentInOrder, PartInOrder
<1>6. /\ local' = [local EXCEPT ![a] = local[a]] /\ grants' = [grants EXCEPT ![a] = grants[a]]
      /\ fencingCounter' = [fencingCounter EXCEPT ![a] = n]
  BY DEF AcquireLock, LockInv, LockTyped
<1>7. QED
  BY <1>1, <1>2, <1>3, <1>5, <1>6, PartInOrder, LockStep

LEMMA AcquiredStep ==
  ASSUME LockInv, NEW a \in Process, Acquired(a)
  PROVE  LockInv'
<1> DEFINE token == Head(sent[a]).data.token
           r == [token |-> token, past |-> FALSE]
<1>1. sent[a] # <<>> /\ IsAcquire(Head(sent[a])) /\ Ends(a) /\ UNCHANGED fencingCounter
  BY DEF Acquired, Returned, IsAcquire
<1>2. CASE Answer(a) = Free
  <2>1. /\ local' = [local EXCEPT ![a] = r]
        /\ grants' = [grants EXCEPT ![a] = Append(grants[a], token)]
    BY <1>2 DEF Acquired
  <2>2. /\ token \in Nat /\ Append(grants[a], token) \in Seq(Nat)
        /\ InOrder(Append(grants[a], token), Tail(sent[a]), fencingCounter[a], r)
    BY <1>1, PartInOrder, GrantInOrder
  <2>3. GoodQueue(Tail(sent[a]), a)
    BY <1>1, PartInOrder, TailInOrder
  <2>4. /\ sent' = [sent EXCEPT ![a] = Tail(sent[a])] /\ value' = value
        /\ fencingCounter' = [fencingCounter EXCEPT ![a] = fencingCounter[a]]
    BY <1>1 DEF Ends, LockInv, LockTyped
  <2>5. value' \in Values /\ GoodValue(value)'
    BY <2>4 DEF LockInv, LockTyped, GoodValue
  <2>6. r \in [token : Nat, past : BOOLEAN]
    BY <2>2
  <2>7. fencingCounter[a] \in Nat /\ fencingCounter[a] <= MaxTokens[a]
    BY PartInOrder
  <2> HIDE DEF r, token
  <2>8. QED
    BY <2>1, <2>2, <2>3, <2>4, <2>5, <2>6, <2>7, LockStep
<1>3. CASE Answer(a) # Free
  <2>1. UNCHANGED <<local, grants>>
    BY <1>3 DEF Acquired
  <2>2. local' = [local EXCEPT ![a] = local[a]] /\ local[a] \in [token : Nat, past : BOOLEAN]
    BY <2>1 DEF LockInv, LockTyped
  <2>3. QED
    BY <1>1, <2>1, <2>2, EndStep
<1>4. QED
  BY <1>2, <1>3

LEMMA OwnerKnownStep ==
  ASSUME LockInv, NEW a \in Process, NEW question \in {"mine", "still mine"},
         NEW command \in {"delete", "rewrite"}, OwnerKnown(a, question, command)
  PROVE  LockInv'
<1>1. sent[a] # <<>> /\ UNCHANGED <<local, fencingCounter, grants>>
  BY DEF OwnerKnown, Returned
<1>2. local' = [local EXCEPT ![a] = local[a]] /\ local[a] \in [token : Nat, past : BOOLEAN]
  BY <1>1 DEF LockInv, LockTyped
<1>3. CASE Ends(a)
  BY <1>1, <1>2, <1>3, EndStep
<1>4. CASE NextCommand(a, command)
  <2>1. Answer(a) \in Values /\ GoodValue(Answer(a))
    <3>1. /\ sent[a] \in Seq(Commands)
          /\ \A k \in 1 .. Len(sent[a]) : GoodValue(sent[a][k].ans)
      BY DEF LockInv, LockTyped
    <3>2. 1 \in 1 .. Len(sent[a]) /\ Head(sent[a]) = sent[a][1] /\ Head(sent[a]) \in Commands
      BY <1>1, <3>1, HeadIsFirst
    <3>3. QED
      BY <3>1, <3>2 DEF Answer, Commands
  <2>2. Issue(a, Tail(sent[a]), command, Answer(a)) /\ command \in Ops \ {"acquire"}
    BY <1>4 DEF NextCommand, Ops
  <2> DEFINE s == Tail(sent[a])
  <2>3. s = Tail(sent[a])
    OBVIOUS
  <2> HIDE DEF s
  <2>4. QED
    BY <1>1, <2>1, <2>2, <2>3, IssueStep
<1>5. QED
  BY <1>3, <1>4 DEF OwnerKnown

LEMMA RecordStep ==
  ASSUME LockInv, NEW a \in Process,
         LockReleased(a) \/ LockExtended(a) \/ LockCleaned(a)
  PROVE  LockInv'
<1>1. sent[a] # <<>> /\ Ends(a) /\ UNCHANGED <<fencingCounter, grants>>
  BY DEF LockReleased, LockExtended, LockCleaned, Returned
<1>2. CASE LockReleased(a) \/ LockCleaned(a)
  <2>1. local' = [local EXCEPT ![a] = NoRecord] /\ NoRecord \in [token : Nat, past : BOOLEAN]
    BY <1>2 DEF LockReleased, LockCleaned, NoRecord
  <2>2. QED
    BY <1>1, <2>1, EndStep
<1>3. CASE LockExtended(a)
  <2> DEFINE r == [local[a] EXCEPT !.past = FALSE]
  <2>1. /\ local' = [local EXCEPT ![a] = r] /\ r \in [token : Nat, past : BOOLEAN]
        /\ r.token = local[a].token /\ (local[a] = NoRecord => r = NoRecord)
    <3>1. local[a] \in [token : Nat, past : BOOLEAN]
      BY PartInOrder
    <3>2. r \in [token : Nat, past : BOOLEAN] /\ r.token = local[a].token
      BY <3>1
    <3>3. local[a] = NoRecord => r = NoRecord
      <4>1. NoRecord \in [token : Nat, past : BOOLEAN] /\ NoRecord.past = FALSE
        BY DEF NoRecord
      <4>2. local[a].past = FALSE => r = local[a]
        BY <3>1
      <4>3. QED
        BY <4>1, <4>2
    <3>4. local' = [local EXCEPT ![a] = r]
      BY <1>3 DEF LockExtended, LockInv, LockTyped
    <3>5. QED
      BY <3>2, <3>3, <3>4
  <2> HIDE DEF r
  <2>2. QED
    BY <1>1, <2>1, EndStep
<1>4. QED
  BY <1>2, <1>3

LEMMA ResetStep ==
  ASSUME LockInv, NEW a \in Process, Reset(a)
  PROVE  LockInv'
<1> DEFINE r == NoRecord
           g == <<>>
<1>1. /\ sent' = [sent EXCEPT ![a] = <<>>] /\ local' = [local EXCEPT ![a] = r]
      /\ fencingCounter' = [fencingCounter EXCEPT ![a] = 0]
      /\ grants' = [grants EXCEPT ![a] = g] /\ value' = value
  BY DEF Reset, LockInv, LockTyped
<1>2. /\ r \in [token : Nat, past : BOOLEAN] /\ g \in Seq(Nat) /\ 0 <= MaxTokens[a]
      /\ GoodQueue(<<>>, a)
  BY ProcessAssumption, EmptySeq DEF NoRecord, GoodQueue
<1>3. InOrder(g, <<>>, 0, r)
  BY EmptySeq DEF InOrder
<1>4. value' \in Values /\ GoodValue(value)'
  BY <1>1 DEF LockInv, LockTyped, GoodValue
<1> HIDE DEF r, g
<1>5. QED
  BY <1>1, <1>2, <1>3, <1>4, LockStep

\* The value lapses, the time of a record passes, or nothing happens.
LEMMA ClockStep ==
  ASSUME LockInv, ValueLapses \/ (\E a \in Process : RecordPasses(a)) \/ UNCHANGED lockVars
  PROVE  LockInv'
<1>1. CASE ValueLapses
  BY <1>1, FreeIsGood DEF ValueLapses, LockInv, LockTyped, TokensInOrder, GoodValue
<1>2. ASSUME NEW a \in Process, RecordPasses(a) PROVE LockInv'
  <2> DEFINE r == [local[a] EXCEPT !.past = TRUE]
  <2>1. /\ local' = [local EXCEPT ![a] = r] /\ r \in [token : Nat, past : BOOLEAN]
        /\ r.token = local[a].token /\ local[a] # NoRecord
        /\ UNCHANGED <<value, sent, fencingCounter, grants>>
    BY <1>2, PartInOrder DEF RecordPasses, LockInv, LockTyped
  <2>2. /\ GoodQueue(sent[a], a) /\ InOrder(grants[a], sent[a], fencingCounter[a], local[a])
        /\ grants[a] \in Seq(Nat) /\ fencingCounter[a] \in Nat /\ fencingCounter[a] <= MaxTokens[a]
    BY PartInOrder
  <2>3. InOrder(grants[a], sent[a], fencingCounter[a], r)
    BY <2>1, <2>2 DEF InOrder
  <2>4. /\ sent' = [sent EXCEPT ![a] = sent[a]] /\ grants' = [grants EXCEPT ![a] = grants[a]]
        /\ fencingCounter' = [fencingCounter EXCEPT ![a] = fencingCounter[a]]
        /\ value' \in Values /\ GoodValue(value)'
    BY <2>1 DEF LockInv, LockTyped, GoodValue
  <2> HIDE DEF r
  <2>5. QED
    BY <2>1, <2>2, <2>3, <2>4, LockStep
<1>3. CASE UNCHANGED lockVars
  BY <1>3 DEF lockVars, LockInv, LockTyped, TokensInOrder, GoodValue
<1>4. QED
  BY <1>1, <1>2, <1>3

LEMMA LockStarts == LockInit => LockInv
<1> SUFFICES ASSUME LockInit PROVE LockInv
  OBVIOUS
<1>1. LockTyped
  BY FreeIsGood, ProcessAssumption, EmptySeq DEF LockInit, LockTyped, NoRecord
<1>2. TokensInOrder
  BY EmptySeq DEF LockInit, TokensInOrder, InOrder
<1>3. QED
  BY <1>1, <1>2 DEF LockInv

LEMMA LockKeeps == LockInv /\ [LockNext]_lockVars => LockInv'
<1> SUFFICES ASSUME LockInv, [LockNext]_lockVars PROVE LockInv'
  OBVIOUS
<1>1. ASSUME NEW a \in Process, ReleaseLock(a) \/ Extend(a) \/ CleanupExpired(a)
      PROVE  LockInv'
  <2>1. /\ UNCHANGED <<local, fencingCounter, grants>>
        /\ \E op \in Ops \ {"acquire"} : Issue(a, sent[a], op, Free)
    BY <1>1 DEF ReleaseLock, Extend, CleanupExpired, Ops
  <2>2. QED
    BY <2>1, FreeIsGood, IssueStep
<1>2. QED
  BY <1>1, AcquireLockStep, AcquiredStep, OwnerKnownStep, RecordStep, ResetStep, ClockStep
  DEF LockNext

LEMMA LockCorrect == LockSpec => []LockInv
BY LockStarts, LockKeeps, PTL DEF LockSpec

\* Types of the distributed lock.
LEMMA LockTypes == LockInv => LockTypeOK
<1> SUFFICES ASSUME LockInv PROVE LockTypeOK
  OBVIOUS
<1>1. /\ value.owner = NoOwner <=> value.token = 0
      /\ value.owner \in Process => value.token \in 1..MaxTokens[value.owner]
  BY ProcessAssumption DEF LockInv, LockTyped, Values, GoodValue, Free
<1>2. ASSUME NEW a \in Process
      PROVE  /\ fencingCounter[a] \in 0..MaxTokens[a]
             /\ local[a] \in [token : 0..MaxTokens[a], past : BOOLEAN]
             /\ Len(sent[a]) <= MaxPending[a]
  <2>1. MaxTokens[a] \in Nat /\ Len(grants[a]) \in Nat
    BY ProcessAssumption, PartInOrder, LenProperties
  <2>2. local[a].token \in 0 .. MaxTokens[a]
    <3>1. fencingCounter[a] \in Nat /\ fencingCounter[a] <= MaxTokens[a]
      BY PartInOrder
    <3>2. local[a].token \in 0 .. fencingCounter[a]
      <4>1. CASE local[a] = NoRecord
        BY <3>1, <4>1 DEF NoRecord
      <4>2. CASE local[a] # NoRecord
        <5>1. InOrder(grants[a], sent[a], fencingCounter[a], local[a])
          BY PartInOrder
        <5>2. Len(grants[a]) \in 1 .. Len(grants[a]) /\ local[a].token = grants[a][Len(grants[a])]
          BY <2>1, <4>2, <5>1 DEF InOrder
        <5>3. local[a].token \in 1 .. fencingCounter[a]
          BY <5>1, <5>2 DEF InOrder
        <5>4. QED
          BY <3>1, <5>3
      <4>3. QED
        BY <4>1, <4>2
    <3>3. QED
      BY <2>1, <3>1, <3>2
  <2>3. QED
    BY <2>1, <2>2, PartInOrder DEF GoodQueue
<1>3. QED
  BY <1>1, <1>2 DEF LockTypeOK

\* validateFencingToken: whatever acquisitions, releases, extensions and cleanups
\* overlapped, a token that was granted before the last one is refused.
THEOREM EarlierTokensAreRefused == LockSpec => []StaleTokensRefused
<1>1. LockInv => StaleTokensRefused
  <2> SUFFICES ASSUME LockInv, NEW a \in Process, NEW k \in DOMAIN grants[a],
                      k < Len(grants[a]), ValidatesToken(a, grants[a][k])
               PROVE  FALSE
    BY DEF StaleTokensRefused
  <2>1. /\ InOrder(grants[a], sent[a], fencingCounter[a], local[a])
        /\ Len(grants[a]) \in Nat /\ DOMAIN grants[a] = 1 .. Len(grants[a])
        /\ \A j \in 1 .. Len(grants[a]) : grants[a][j] \in Nat
    BY PartInOrder, LenProperties, ElementOfSeq
  <2>2. local[a].token = grants[a][Len(grants[a])] /\ grants[a][k] >= local[a].token
    BY <2>1 DEF InOrder, ValidatesToken
  <2>3. grants[a][k] < grants[a][Len(grants[a])]
    BY <2>1 DEF InOrder
  <2>4. QED
    BY <2>1, <2>2, <2>3
<1>2. QED
  BY <1>1, LockCorrect, PTL

-----------------------------------------------------------------------------
(* The least of a set of items, and the first of the most urgent ones.     *)

LEMMA LeastExists ==
  ASSUME NEW S \in SUBSET Nat, S # {}
  PROVE  \E m \in S : \A n \in S : m <= n
<1> DEFINE R == OpToRel(<, Nat)
<1>1. IsWellFoundedOn(R, Nat)
  BY NatLessThanWellFounded
<1>2. \A x, y \in Nat : x < y => <<x, y>> \in R
  BY DEF OpToRel
<1> HIDE DEF R
<1>3. PICK m \in S : \A n \in S : <<n, m>> \notin R
  BY <1>1, WFMin
<1>4. \A n \in S : ~(n < m)
  BY <1>2, <1>3
<1>5. QED
  BY <1>4

LEMMA MinIsLeast ==
  ASSUME NEW S \in SUBSET Nat, S # {}
  PROVE  Min(S) \in S /\ \A n \in S : Min(S) <= n
BY LeastExists DEF Min

\* A function into the naturals is bounded on 1 .. n.
LEMMA Bounded ==
  ASSUME NEW N \in Nat, NEW f \in [1 .. N -> Nat]
  PROVE  \E b \in Nat : \A i \in 1 .. N : f[i] <= b
<1> DEFINE Bounds(n, b) == \A i \in 1 .. n : f[i] <= b
           Bad == {n \in 0 .. N : \A b \in Nat : ~Bounds(n, b)}
<1>1. SUFFICES ASSUME Bad # {} PROVE FALSE
  <2>1. N \in 0 .. N
    OBVIOUS
  <2>2. QED
    BY <1>1, <2>1
<1>2. Bad \in SUBSET Nat
  OBVIOUS
<1>3. PICK n \in Bad : \A m \in Bad : n <= m
  BY <1>1, <1>2, LeastExists
<1>4. n # 0
  <2>1. Bounds(0, 0)
    OBVIOUS
  <2>2. QED
    BY <2>1
<1>5. n \in 1 .. N /\ n - 1 \in 0 .. N /\ n - 1 \notin Bad
  <2>1. n \in 1 .. N /\ n - 1 \in 0 .. N
    BY <1>4
  <2> HIDE DEF Bad
  <2>2. n - 1 \notin Bad
    BY <1>3, <2>1
  <2>3. QED
    BY <2>1, <2>2
<1>6. PICK b \in Nat : Bounds(n - 1, b)
  BY <1>5
<1>7. f[n] \in Nat
  BY <1>5
<1>8. PICK c \in Nat : c >= b /\ c >= f[n]
  <2>1. b + f[n] \in Nat /\ b + f[n] >= b /\ b + f[n] >= f[n]
    BY <1>7
  <2>2. QED
    BY <2>1
<1>9. Bounds(n, c)
  BY <1>5, <1>6, <1>8
<1>10. QED
  BY <1>3, <1>9

LEMMA ItemsAreNatural == Item \in SUBSET Nat
BY ItemAssumption DEF Item

LEMMA FirstOfTheMostUrgent ==
  ASSUME NEW S \in SUBSET Item, S # {}
  PROVE  Min({i \in S : \A j \in S : ItemPriority[j] <= ItemPriority[i]}) \in S
<1>1. PICK b \in Nat : \A i \in Item : ItemPriority[i] <= b
  BY Bounded, ItemAssumption DEF Item
<1>2. \A i \in S : ItemPriority[i] \in Nat /\ ItemPriority[i] <= b
  BY <1>1, ItemAssumption
<1> DEFINE Slack == {b - ItemPriority[i] : i \in S}
           Urgent == {i \in S : \A j \in S : ItemPriority[j] <= ItemPriority[i]}
<1>3. Slack \in SUBSET Nat /\ Slack # {}
  BY <1>2
<1>4. PICK m \in Slack : \A n \in Slack : m <= n
  BY <1>3, LeastExists
<1>5. PICK i \in S : m = b - ItemPriority[i]
  BY <1>4
<1>6. \A j \in S : b - ItemPriority[i] <= b - ItemPriority[j]
  BY <1>4, <1>5
<1>7. i \in Urgent
  BY <1>2, <1>6
<1>8. Urgent \in SUBSET Nat
  <2>1. Urgent \subseteq S
    OBVIOUS
  <2>2. QED
    BY <2>1, ItemsAreNatural
<1>9. QED
  BY <1>7, <1>8, MinIsLeast

-----------------------------------------------------------------------------
(* The work coordinator.                                                   *)

WorkOps == {"claim", "holder", "renew", "releaser", "release", "extender", "extend",
            "abandon", "recover", "cleanup", "other"}
WorkCommands == [op : WorkOps, i : Item, a : Agent \cup {NoAgent}, rest : SUBSET Item,
                 ans : Agent \cup {NoAgent, Rejected}]
Cleaning == {"off", "timer", "scan", "failed"}
Statuses == {"missing", "available", "in_progress", "closed"}
Records == [status : Statuses, assignedTo : Agent \cup {NoAgent}]

GoodItems(its) ==
  /\ its \in [Item -> Records]
  /\ \A i \in Item : its[i].status # "in_progress" => its[i].assignedTo = NoAgent

\* The commands in the queue are about items that exist.
GoodPipe(q, its) ==
  /\ q \in Seq(WorkCommands) /\ Len(q) <= MaxInFlight
  /\ \A k \in 1 .. Len(q) :
       its[q[k].i].status # "missing" /\ (q[k].op = "claim" => q[k].a \in Agent)

WorkTyped ==
  /\ GoodItems(items) /\ GoodPipe(pipe, items)
  /\ locks \in [Item -> Agent \cup {NoAgent}] /\ untold \in SUBSET Item
  /\ claimedUntil \in [Item -> {"none", "ahead", "past"}]
  /\ cleaning \in Cleaning /\ cleanup \in BOOLEAN

\* The answers that make item i one in progress, and those that end that.
Takes(c, i) == c.i = i /\ c.op = "claim" /\ c.ans = NoAgent
Frees(c, i) ==
  /\ c.i = i /\ c.ans # Rejected
  /\ c.op \in {"release", "abandon", "recover"} \/ (c.op = "cleanup" /\ c.ans = NoAgent)
LeavesAlone(c, i) == ~Takes(c, i) /\ ~Frees(c, i)

InProgressFor(a) == [status |-> "in_progress", assignedTo |-> a]

\* The answers in the queue q leave an item i of record r in progress for the
\* agent that holds its lock, if somebody does.
Follows(i, r, lock, q) ==
  lock # NoAgent =>
    \/ r = InProgressFor(lock) /\ \A k \in 1 .. Len(q) : LeavesAlone(q[k], i)
    \/ \E k \in 1 .. Len(q) : /\ Takes(q[k], i) /\ q[k].a = lock
                              /\ \A m \in 1 .. Len(q) : m > k => LeavesAlone(q[m], i)

LocksAreFollowed == \A i \in Item \ untold : Follows(i, items[i], locks[i], pipe)

WorkInv == WorkTyped /\ LocksAreFollowed

LEMMA TailFollows ==
  ASSUME NEW q \in Seq(WorkCommands), q # <<>>, NEW i, NEW r, NEW lock, Follows(i, r, lock, q),
         NEW r2,
         Takes(Head(q), i) => r2 = InProgressFor(Head(q).a),
         LeavesAlone(Head(q), i) => r2 = r
  PROVE  Follows(i, r2, lock, Tail(q))
<1> SUFFICES ASSUME lock # NoAgent
             PROVE  Follows(i, r2, lock, Tail(q))
  BY DEF Follows
<1> DEFINE t == Tail(q)
<1>1. /\ Len(q) \in Nat \ {0} /\ Len(t) = Len(q) - 1 /\ Head(q) = q[1]
      /\ \A k \in 1 .. Len(t) : t[k] = q[k + 1] /\ k + 1 \in 1 .. Len(q)
  BY HeadTailProperties, EmptySeq, HeadIsFirst
<1> HIDE DEF t
<1>2. \A k \in 1 .. Len(q) : k # 1 => k - 1 \in 1 .. Len(t) /\ t[k - 1] = q[k]
  BY <1>1
<1>3. CASE r = InProgressFor(lock) /\ \A k \in 1 .. Len(q) : LeavesAlone(q[k], i)
  <2>1. LeavesAlone(Head(q), i) /\ \A k \in 1 .. Len(t) : LeavesAlone(t[k], i)
    BY <1>1, <1>3
  <2>2. QED
    BY <1>3, <2>1 DEF Follows, t
<1>4. ASSUME NEW k \in 1 .. Len(q), Takes(q[k], i), q[k].a = lock,
             \A m \in 1 .. Len(q) : m > k => LeavesAlone(q[m], i)
      PROVE  Follows(i, r2, lock, Tail(q))
  <2>1. CASE k = 1
    <3>1. r2 = InProgressFor(lock)
      BY <1>1, <1>4, <2>1
    <3>2. \A m \in 1 .. Len(t) : LeavesAlone(t[m], i)
      BY <1>1, <1>4, <2>1
    <3>3. QED
      BY <3>1, <3>2 DEF Follows, t
  <2>2. CASE k # 1
    <3>1. k - 1 \in 1 .. Len(t) /\ Takes(t[k - 1], i) /\ t[k - 1].a = lock
      BY <1>2, <1>4, <2>2
    <3>2. \A m \in 1 .. Len(t) : m > k - 1 => LeavesAlone(t[m], i)
      BY <1>1, <1>4
    <3>3. QED
      BY <3>1, <3>2 DEF Follows, t
  <2>3. QED
    BY <2>1, <2>2
<1>5. QED
  BY <1>3, <1>4 DEF Follows

LEMMA IdleFollows ==
  ASSUME NEW q \in Seq(WorkCommands), NEW c \in WorkCommands, NEW i, NEW r, NEW lock,
         Follows(i, r, lock, q), LeavesAlone(c, i)
  PROVE  Follows(i, r, lock, Append(q, c))
<1> DEFINE t == Append(q, c)
<1> SUFFICES ASSUME lock # NoAgent PROVE Follows(i, r, lock, t)
  BY DEF Follows
<1>1. /\ Len(q) \in Nat /\ Len(t) = Len(q) + 1 /\ t[Len(q) + 1] = c
      /\ \A k \in 1 .. Len(q) : t[k] = q[k] /\ k \in 1 .. Len(t)
      /\ \A k \in 1 .. Len(t) : k \in 1 .. Len(q) \/ k = Len(q) + 1
  BY AppendProperties, LenProperties
<1> HIDE DEF t
<1>2. CASE r = InProgressFor(lock) /\ \A k \in 1 .. Len(q) : LeavesAlone(q[k], i)
  <2>1. \A k \in 1 .. Len(t) : LeavesAlone(t[k], i)
    BY <1>1, <1>2
  <2>2. QED
    BY <1>2, <2>1 DEF Follows
<1>3. ASSUME NEW k \in 1 .. Len(q), Takes(q[k], i), q[k].a = lock,
             \A m \in 1 .. Len(q) : m > k => LeavesAlone(q[m], i)
      PROVE  Follows(i, r, lock, t)
  <2>1. k \in 1 .. Len(t) /\ Takes(t[k], i) /\ t[k].a = lock
    BY <1>1, <1>3
  <2>2. \A m \in 1 .. Len(t) : m > k => LeavesAlone(t[m], i)
    BY <1>1, <1>3
  <2>3. QED
    BY <2>1, <2>2 DEF Follows
<1>4. QED
  BY <1>2, <1>3 DEF Follows

\* What c, executed, makes of the lock of item i.
LockAfter(c, i, lock) ==
  IF c.i # i THEN lock
  ELSE IF c.op = "claim" /\ lock = NoAgent THEN c.a
  ELSE IF c.op \in {"release", "abandon", "recover"} THEN NoAgent ELSE lock

LEMMA SendFollows ==
  ASSUME NEW q \in Seq(WorkCommands), NEW c \in WorkCommands,
         NEW i, NEW r, NEW lock, Follows(i, r, lock, q), c.i = i => c.ans = lock
  PROVE  Follows(i, r, LockAfter(c, i, lock), Append(q, c))
<1> DEFINE t == Append(q, c)
           now == LockAfter(c, i, lock)
<1> SUFFICES ASSUME now # NoAgent PROVE Follows(i, r, now, t)
  BY DEF Follows
<1>1. CASE Takes(c, i) /\ lock = NoAgent
  <2>1. now = c.a
    BY <1>1 DEF LockAfter, Takes
  <2>2. Len(q) \in Nat /\ Len(t) = Len(q) + 1 /\ t[Len(q) + 1] = c
    BY AppendProperties, LenProperties
  <2>3. Len(q) + 1 \in 1 .. Len(t) /\ \A m \in 1 .. Len(t) : ~(m > Len(q) + 1)
    BY <2>2
  <2>4. QED
    BY <1>1, <2>1, <2>2, <2>3 DEF Follows
<1>2. CASE ~(Takes(c, i) /\ lock = NoAgent)
  <2>1. now = lock /\ LeavesAlone(c, i)
    BY <1>2 DEF LockAfter, Takes, Frees, LeavesAlone
  <2>2. QED
    BY <2>1, IdleFollows
<1>3. QED
  BY <1>1, <1>2

\* A command that rejects says nothing of its item.
LEMMA FailingIdle ==
  ASSUME NEW c \in WorkCommands
  PROVE  /\ Failing(c) \in WorkCommands /\ Failing(c).i = c.i /\ Failing(c).op # "claim"
         /\ \A i : LeavesAlone(Failing(c), i)
BY RejectedAssumption DEF Failing, WorkCommands, WorkOps, LeavesAlone, Takes, Frees

\* What an executed command leaves: told or not, the lock follows LockAfter, and
\* an item whose lock is taken untold is noted.
LEMMA ExecutedLocks ==
  ASSUME locks \in [Item -> Agent \cup {NoAgent}], untold \in SUBSET Item,
         NEW c \in WorkCommands, NEW told \in BOOLEAN, Executes(c, told)
  PROVE  /\ locks' \in [Item -> Agent \cup {NoAgent}] /\ untold' \in SUBSET Item
         /\ \A i \in Item : locks'[i] = LockAfter(c, i, locks[i])
         /\ \A i \in Item : i \in untold /\ i \notin untold' => locks'[i] = NoAgent
         /\ ~told => \A i \in Item : i \notin untold' => locks'[i] \in {NoAgent, locks[i]}
<1>1. c.i \in Item /\ c.a \in Agent \cup {NoAgent}
  BY DEF WorkCommands
<1>2. CASE c.op = "claim" /\ locks[c.i] = NoAgent
  BY <1>1, <1>2 DEF Executes, LockAfter
<1>3. CASE ~(c.op = "claim" /\ locks[c.i] = NoAgent) /\ c.op \in {"release", "abandon", "recover"}
  BY <1>1, <1>3 DEF Executes, LockAfter
<1>4. CASE ~(c.op = "claim" /\ locks[c.i] = NoAgent) /\ c.op \notin {"release", "abandon", "recover"}
  BY <1>1, <1>4 DEF Executes, LockAfter
<1>5. QED
  BY <1>2, <1>3, <1>4

LEMMA PipeGrows ==
  ASSUME NEW its, NEW w, GoodPipe(w, its), Len(w) < MaxInFlight, NEW c \in WorkCommands,
         its[c.i].status # "missing", c.op = "claim" => c.a \in Agent
  PROVE  GoodPipe(Append(w, c), its)
<1>1. /\ Append(w, c) \in Seq(WorkCommands) /\ Len(w) \in Nat
      /\ Len(Append(w, c)) = Len(w) + 1
      /\ \A k \in 1 .. Len(Append(w, c)) :
           (k \in 1 .. Len(w) /\ Append(w, c)[k] = w[k]) \/ Append(w, c)[k] = c
  BY AppendProperties, LenProperties DEF GoodPipe
<1>2. QED
  BY <1>1, AgentAssumption DEF GoodPipe

\* The commands w are what is left of the queue, its are the items: nothing more
\* happens to the queue, or a command about an item that exists is sent.
LEMMA QueueStep ==
  ASSUME locks \in [Item -> Agent \cup {NoAgent}], untold \in SUBSET Item,
         NEW its, NEW w, GoodPipe(w, its),
         \A i \in Item \ untold : Follows(i, its[i], locks[i], w),
         \/ pipe' = w /\ UNCHANGED redisVars
         \/ \E c \in WorkCommands :
              /\ Send(w, c) /\ c.ans = locks[c.i] /\ its[c.i].status # "missing"
              /\ c.op = "claim" => c.a \in Agent
  PROVE  /\ locks' \in [Item -> Agent \cup {NoAgent}] /\ untold' \in SUBSET Item
         /\ GoodPipe(pipe', its)
         /\ \A i \in Item \ untold' : Follows(i, its[i], locks'[i], pipe')
<1>1. CASE pipe' = w /\ UNCHANGED redisVars
  BY <1>1 DEF redisVars
<1>2. ASSUME NEW c \in WorkCommands,
             Send(w, c), c.ans = locks[c.i], its[c.i].status # "missing",
             c.op = "claim" => c.a \in Agent
      PROVE  /\ locks' \in [Item -> Agent \cup {NoAgent}] /\ untold' \in SUBSET Item
             /\ GoodPipe(pipe', its)
             /\ \A i \in Item \ untold' : Follows(i, its[i], locks'[i], pipe')
  <2>1. w \in Seq(WorkCommands) /\ Len(w) < MaxInFlight
    BY <1>2 DEF Send, GoodPipe
  <2>2. CASE Executes(c, TRUE) /\ pipe' = Append(w, c)
    <3>1. /\ locks' \in [Item -> Agent \cup {NoAgent}] /\ untold' \in SUBSET Item
          /\ \A i \in Item : locks'[i] = LockAfter(c, i, locks[i])
          /\ \A i \in Item : i \in untold /\ i \notin untold' => locks'[i] = NoAgent
      BY <2>2, ExecutedLocks
    <3>2. GoodPipe(pipe', its)
      BY <1>2, <2>1, <2>2, PipeGrows
    <3>3. ASSUME NEW i \in Item \ untold' PROVE Follows(i, its[i], locks'[i], pipe')
      <4>1. CASE i \in untold
        BY <3>1, <4>1 DEF Follows
      <4>2. CASE i \notin untold
        <5>1. Follows(i, its[i], locks[i], w) /\ (c.i = i => c.ans = locks[i])
          BY <1>2, <4>2
        <5>2. Follows(i, its[i], LockAfter(c, i, locks[i]), Append(w, c))
          BY <2>1, <5>1, SendFollows
        <5>3. QED
          BY <2>2, <3>1, <5>2
      <4>3. QED
        BY <4>1, <4>2
    <3>4. QED
      BY <3>1, <3>2, <3>3
  <2>3. CASE (Executes(c, FALSE) \/ UNCHANGED redisVars) /\ pipe' = Append(w, Failing(c))
    <3>1. /\ Failing(c) \in WorkCommands /\ Failing(c).i = c.i /\ Failing(c).op # "claim"
          /\ \A i : LeavesAlone(Failing(c), i)
      BY FailingIdle
    <3>2. /\ locks' \in [Item -> Agent \cup {NoAgent}] /\ untold' \in SUBSET Item
          /\ \A i \in Item : i \in untold /\ i \notin untold' => locks'[i] = NoAgent
          /\ \A i \in Item : i \notin untold' => locks'[i] \in {NoAgent, locks[i]}
      <4>1. CASE Executes(c, FALSE)
        BY <4>1, ExecutedLocks
      <4>2. CASE UNCHANGED redisVars
        BY <4>2 DEF redisVars
      <4>3. QED
        BY <2>3, <4>1, <4>2
    <3>3. GoodPipe(pipe', its)
      BY <1>2, <2>1, <2>3, <3>1, PipeGrows
    <3>4. ASSUME NEW i \in Item \ untold' PROVE Follows(i, its[i], locks'[i], pipe')
      <4>1. CASE locks'[i] = NoAgent
        BY <4>1 DEF Follows
      <4>2. CASE locks'[i] # NoAgent
        <5>1. locks'[i] = locks[i] /\ i \notin untold
          BY <3>2, <4>2
        <5>2. Follows(i, its[i], locks[i], Append(w, Failing(c)))
          BY <2>1, <3>1, <5>1, IdleFollows
        <5>3. QED
          BY <2>3, <5>1, <5>2
      <4>3. QED
        BY <4>1, <4>2
    <3>5. QED
      BY <3>2, <3>3, <3>4
  <2>4. QED
    BY <1>2, <2>2, <2>3 DEF Send
<1>3. QED
  BY <1>1, <1>2

\* The answer at the head of the queue has made `its` of the items.
LEMMA AnswerStep ==
  ASSUME WorkInv, pipe # <<>>, NEW its \in [Item -> Records],
         \A i \in Item : i # Head(pipe).i => its[i] = items[i],
         Takes(Head(pipe), Head(pipe).i) =>
           its[Head(pipe).i] = InProgressFor(Head(pipe).a),
         LeavesAlone(Head(pipe), Head(pipe).i) => its[Head(pipe).i] = items[Head(pipe).i],
         its[Head(pipe).i].status # "missing"
  PROVE  /\ GoodPipe(Tail(pipe), its)
         /\ \A i \in Item \ untold : Follows(i, its[i], locks[i], Tail(pipe))
<1> DEFINE h == Head(pipe)
           t == Tail(pipe)
<1>1. pipe \in Seq(WorkCommands) /\ \A k \in 1 .. Len(pipe) :
        items[pipe[k].i].status # "missing" /\ (pipe[k].op = "claim" => pipe[k].a \in Agent)
  BY DEF WorkInv, WorkTyped, GoodPipe
<1>2. /\ Len(pipe) \in Nat \ {0} /\ Len(t) = Len(pipe) - 1
      /\ t \in Seq(WorkCommands) /\ h \in WorkCommands
      /\ \A k \in 1 .. Len(t) : t[k] = pipe[k + 1] /\ k + 1 \in 1 .. Len(pipe)
  BY <1>1, HeadTailProperties, EmptySeq
<1>3. GoodPipe(t, its)
  <2>1. Len(t) <= MaxInFlight
    BY <1>2, AgentAssumption DEF WorkInv, WorkTyped, GoodPipe
  <2>2. ASSUME NEW k \in 1 .. Len(t)
        PROVE  its[t[k].i].status # "missing" /\ (t[k].op = "claim" => t[k].a \in Agent)
    <3>1. t[k].i \in Item /\ items[t[k].i].status # "missing" /\ (t[k].op = "claim" => t[k].a \in Agent)
      <4>1. t[k] \in WorkCommands
        BY <1>2, ElementOfSeq
      <4>2. QED
        BY <1>1, <1>2, <4>1 DEF WorkCommands
    <3>2. CASE t[k].i = h.i
      BY <3>1, <3>2
    <3>3. CASE t[k].i # h.i
      BY <3>1, <3>3
    <3>4. QED
      BY <3>2, <3>3
  <2>3. QED
    BY <1>2, <2>1, <2>2 DEF GoodPipe
<1>4. ASSUME NEW i \in Item \ untold PROVE Follows(i, its[i], locks[i], t)
  <2>1. Follows(i, items[i], locks[i], pipe)
    BY DEF WorkInv, LocksAreFollowed
  <2>2. Takes(h, i) => its[i] = InProgressFor(h.a)
    BY DEF Takes
  <2>3. LeavesAlone(h, i) => its[i] = items[i]
    BY DEF LeavesAlone, Takes, Frees
  <2>4. QED
    BY <1>1, <2>1, <2>2, <2>3, TailFollows
<1>5. QED
  BY <1>3, <1>4

\* Both together: the shape of every step but those of the clocks.
LEMMA WorkStep ==
  ASSUME WorkInv, GoodItems(items'), NEW w, GoodPipe(w, items'),
         \A i \in Item \ untold : Follows(i, items'[i], locks[i], w),
         \/ pipe' = w /\ UNCHANGED redisVars
         \/ \E c \in WorkCommands :
              /\ Send(w, c) /\ c.ans = locks[c.i] /\ items'[c.i].status # "missing"
              /\ c.op = "claim" => c.a \in Agent,
         claimedUntil' \in [Item -> {"none", "ahead", "past"}],
         cleaning' \in Cleaning, cleanup' \in BOOLEAN
  PROVE  WorkInv'
<1>1. locks \in [Item -> Agent \cup {NoAgent}] /\ untold \in SUBSET Item
  BY DEF WorkInv, WorkTyped
<1>2. /\ locks' \in [Item -> Agent \cup {NoAgent}] /\ untold' \in SUBSET Item
      /\ GoodPipe(pipe', items')
      /\ \A i \in Item \ untold' : Follows(i, items'[i], locks'[i], pipe')
  BY <1>1, QueueStep
<1>3. WorkTyped'
  BY <1>2 DEF WorkTyped, GoodPipe, GoodItems
<1>4. LocksAreFollowed'
  BY <1>2 DEF LocksAreFollowed, Follows
<1>5. QED
  BY <1>3, <1>4 DEF WorkInv

LEMMA HeadCommand ==
  ASSUME WorkInv, pipe # <<>>
  PROVE  /\ Head(pipe) \in WorkCommands /\ items[Head(pipe).i].status # "missing"
         /\ Head(pipe).op = "claim" => Head(pipe).a \in Agent
<1>1. /\ pipe \in Seq(WorkCommands)
      /\ \A k \in 1 .. Len(pipe) :
           items[pipe[k].i].status # "missing" /\ (pipe[k].op = "claim" => pipe[k].a \in Agent)
  BY DEF WorkInv, WorkTyped, GoodPipe
<1>2. 1 \in 1 .. Len(pipe) /\ Head(pipe) = pipe[1] /\ Head(pipe) \in WorkCommands
  BY <1>1, HeadIsFirst
<1>3. QED
  BY <1>1, <1>2

LEMMA NewCommand ==
  ASSUME WorkInv, NEW op \in WorkOps, NEW i \in Item, NEW a \in Agent \cup {NoAgent},
         NEW rest \in SUBSET Item
  PROVE  LET c == Command(op, i, a, rest) IN
         /\ c \in WorkCommands /\ c.op = op /\ c.i = i /\ c.a = a /\ c.ans = locks[c.i]
BY DEF WorkInv, WorkTyped, WorkCommands, Command

\* A call: a command is sent and nothing else changes, but for the cleanup cycle.
LEMMA CallStep ==
  ASSUME WorkInv, NEW op \in WorkOps, NEW i \in Item, NEW a \in Agent \cup {NoAgent},
         NEW rest \in SUBSET Item, items[i].status # "missing", op = "claim" => a \in Agent,
         Send(pipe, Command(op, i, a, rest)), UNCHANGED <<items, claimedUntil, cleanup>>,
         cleaning' \in Cleaning
  PROVE  WorkInv'
<1> DEFINE c == Command(op, i, a, rest)
<1>1. c \in WorkCommands /\ c.op = op /\ c.i = i /\ c.a = a /\ c.ans = locks[c.i]
  BY NewCommand
<1>2. /\ GoodItems(items') /\ GoodPipe(pipe, items')
      /\ \A j \in Item \ untold : Follows(j, items'[j], locks[j], pipe)
      /\ claimedUntil' \in [Item -> {"none", "ahead", "past"}] /\ cleanup' \in BOOLEAN
      /\ items'[i].status # "missing"
  BY DEF WorkInv, WorkTyped, LocksAreFollowed
<1> HIDE DEF c
<1>3. Send(pipe, c)
  BY DEF c
<1>4. QED
  BY <1>1, <1>2, <1>3, WorkStep

\* The answer at the head is taken, and the operation ends or sends a command.
AnswerTaken ==
  \/ Done
  \/ \E c \in WorkCommands : /\ Send(Tail(pipe), c) /\ c.ans = locks[c.i] /\ c.op # "claim"
                             /\ items[c.i].status # "missing"

LEMMA FollowTaken ==
  ASSUME WorkInv, pipe # <<>>, NEW op \in WorkOps \ {"claim"}, Follow(op)
  PROVE  AnswerTaken
<1> DEFINE h == Head(pipe)
           c == [Command(op, h.i, h.a, {}) EXCEPT !.rest = h.rest]
<1>1. h \in WorkCommands /\ items[h.i].status # "missing"
  BY HeadCommand
<1>2. c = Command(op, h.i, h.a, h.rest)
  BY DEF Command
<1>3. h.i \in Item /\ h.a \in Agent \cup {NoAgent} /\ h.rest \in SUBSET Item
  BY <1>1 DEF WorkCommands
<1>4. Send(Tail(pipe), c)
  BY DEF Follow
<1> HIDE DEF c, h
<1>5. c \in WorkCommands /\ c.op = op /\ c.i = h.i /\ c.ans = locks[c.i]
  BY <1>2, <1>3, NewCommand
<1>6. QED
  BY <1>1, <1>4, <1>5 DEF AnswerTaken

LEMMA VisitTaken ==
  ASSUME WorkInv, NEW w, NEW op \in WorkOps \ {"claim"}, NEW a \in Agent \cup {NoAgent},
         NEW among \in SUBSET Item, NEW qualify \in SUBSET among, qualify # {},
         \A i \in qualify : items[i].status # "missing",
         Visit(w, op, a, qualify, among)
  PROVE  \E i \in Item, rest \in SUBSET Item :
           items[i].status # "missing" /\ Send(w, Command(op, i, a, rest))
<1>1. Min(qualify) \in qualify
  <2>1. qualify \in SUBSET Nat
    BY ItemsAreNatural
  <2>2. QED
    BY <2>1, MinIsLeast
<1>2. {j \in among : j > Min(qualify)} \in SUBSET Item
  OBVIOUS
<1>3. QED
  BY <1>1, <1>2 DEF Visit

LEMMA TakenStep ==
  ASSUME WorkInv, pipe # <<>>, AnswerTaken, GoodItems(items'),
         \A i \in Item : i # Head(pipe).i => items'[i] = items[i],
         Takes(Head(pipe), Head(pipe).i) =>
           items'[Head(pipe).i] = InProgressFor(Head(pipe).a),
         LeavesAlone(Head(pipe), Head(pipe).i) => items'[Head(pipe).i] = items[Head(pipe).i],
         items'[Head(pipe).i].status # "missing",
         claimedUntil' \in [Item -> {"none", "ahead", "past"}],
         cleaning' \in Cleaning, cleanup' \in BOOLEAN
  PROVE  WorkInv'
<1>1. items' \in [Item -> Records]
  BY DEF GoodItems
<1>2. /\ GoodPipe(Tail(pipe), items')
      /\ \A i \in Item \ untold : Follows(i, items'[i], locks[i], Tail(pipe))
  BY <1>1, AnswerStep
<1>3. \/ pipe' = Tail(pipe) /\ UNCHANGED redisVars
      \/ \E c \in WorkCommands :
           /\ Send(Tail(pipe), c) /\ c.ans = locks[c.i] /\ items'[c.i].status # "missing"
           /\ c.op = "claim" => c.a \in Agent
  <2>1. CASE Done
    BY <2>1 DEF Done
  <2>2. ASSUME NEW c \in WorkCommands,
               Send(Tail(pipe), c), c.ans = locks[c.i], c.op # "claim", items[c.i].status # "missing"
        PROVE  items'[c.i].status # "missing"
    <3>1. c.i \in Item
      BY DEF WorkCommands
    <3>2. QED
      BY <2>2, <3>1
  <2>3. QED
    BY <2>1, <2>2 DEF AnswerTaken
<1>4. QED
  BY <1>2, <1>3, WorkStep

\* An answer that makes nothing of its item.
LEMMA SilentStep ==
  ASSUME WorkInv, pipe # <<>>, AnswerTaken, LeavesAlone(Head(pipe), Head(pipe).i),
         UNCHANGED <<items, cleanup>>, claimedUntil' \in [Item -> {"none", "ahead", "past"}],
         cleaning' \in Cleaning
  PROVE  WorkInv'
<1>1. GoodItems(items') /\ cleanup' \in BOOLEAN
  BY DEF WorkInv, WorkTyped
<1>2. QED
  BY <1>1, HeadCommand, TakenStep DEF LeavesAlone

\* An answer that gives its item a status, and an agent if it is in progress.
LEMMA BecomesStep ==
  ASSUME WorkInv, pipe # <<>>, AnswerTaken,
         NEW status \in Statuses \ {"missing"}, NEW a \in Agent \cup {NoAgent},
         NEW until \in {"none", "ahead", "past"}, Becomes(status, a, until),
         status # "in_progress" => a = NoAgent,
         ~LeavesAlone(Head(pipe), Head(pipe).i),
         Takes(Head(pipe), Head(pipe).i) => status = "in_progress" /\ a = Head(pipe).a,
         UNCHANGED cleanup, cleaning' \in Cleaning
  PROVE  WorkInv'
<1> DEFINE i == Head(pipe).i
<1>1. i \in Item /\ items[i].status # "missing"
  BY HeadCommand DEF WorkCommands
<1>2. /\ items' = [items EXCEPT ![i] = [status |-> status, assignedTo |-> a]]
      /\ claimedUntil' = [claimedUntil EXCEPT ![i] = until]
  BY <1>1 DEF Becomes, Exists
<1>3. /\ items' \in [Item -> Records] /\ items'[i] = [status |-> status, assignedTo |-> a]
      /\ \A j \in Item : j # i => items'[j] = items[j]
      /\ claimedUntil' \in [Item -> {"none", "ahead", "past"}]
  BY <1>1, <1>2 DEF WorkInv, WorkTyped, GoodItems, Records
<1>4. GoodItems(items')
  BY <1>3 DEF WorkInv, WorkTyped, GoodItems
<1>5. Takes(Head(pipe), i) => items'[i] = InProgressFor(Head(pipe).a)
  BY <1>3 DEF InProgressFor
<1>6. cleanup' \in BOOLEAN /\ items'[i].status # "missing"
  BY <1>3 DEF WorkInv, WorkTyped
<1>7. QED
  BY <1>3, <1>4, <1>5, <1>6, TakenStep

LEMMA Visited ==
  ASSUME WorkInv, NEW op \in WorkOps \ {"claim"}, NEW a \in Agent \cup {NoAgent},
         NEW among \in SUBSET Item, NEW qualify \in SUBSET among, qualify # {},
         \A i \in qualify : items[i].status # "missing",
         Visit(Tail(pipe), op, a, qualify, among)
  PROVE  AnswerTaken
<1>1. PICK i \in Item, rest \in SUBSET Item :
        items[i].status # "missing" /\ Send(Tail(pipe), Command(op, i, a, rest))
  BY VisitTaken
<1> DEFINE c == Command(op, i, a, rest)
<1>2. c \in WorkCommands /\ c.op = op /\ c.i = i /\ c.ans = locks[c.i]
  BY NewCommand
<1>3. Send(Tail(pipe), c)
  BY <1>1
<1> HIDE DEF c
<1>4. QED
  BY <1>1, <1>2, <1>3 DEF AnswerTaken

LEMMA CallsKeep ==
  ASSUME WorkInv,
         \/ \E i \in Item, a \in Agent : ClaimWork(i, a) \/ ReleaseWork(i, a) \/ ExtendLock(i, a)
         \/ \E a \in Agent : ClaimNextWork(a) \/ RecoverWorkFromDeadAgent(a)
         \/ \E i \in Item : AbandonWork(i)
  PROVE  WorkInv'
<1>1. ASSUME NEW i \in Item, NEW a \in Agent, ClaimWork(i, a) \/ ReleaseWork(i, a) \/ ExtendLock(i, a)
      PROVE  WorkInv'
  <2>1. PICK op \in {"claim", "releaser", "extender"} :
          /\ Send(pipe, Command(op, i, a, {})) /\ items[i].status # "missing"
          /\ UNCHANGED <<items, claimedUntil, cleaning, cleanup>>
    BY <1>1 DEF ClaimWork, ReleaseWork, ExtendLock, Call, Exists
  <2>2. cleaning' \in Cleaning /\ op \in WorkOps
    BY <2>1 DEF WorkInv, WorkTyped, WorkOps
  <2>3. QED
    BY <2>1, <2>2, CallStep
<1>2. ASSUME NEW a \in Agent, ClaimNextWork(a) PROVE WorkInv'
  <2>1. Available \in SUBSET Item /\ Available # {}
    BY <1>2 DEF ClaimNextWork, Available
  <2>2. \E i \in Item : ClaimWork(i, a)
    BY <1>2, <2>1, FirstOfTheMostUrgent DEF ClaimNextWork
  <2>3. QED
    BY <1>1, <2>2
<1>3. ASSUME NEW a \in Agent, RecoverWorkFromDeadAgent(a) PROVE WorkInv'
  <2>1. /\ HeldBy(a, Item) \in SUBSET Item /\ HeldBy(a, Item) # {}
        /\ \A i \in HeldBy(a, Item) : items[i].status # "missing"
    BY <1>3 DEF RecoverWorkFromDeadAgent, HeldBy
  <2>2. /\ Visit(pipe, "recover", a, HeldBy(a, Item), Item)
        /\ UNCHANGED <<items, claimedUntil, cleaning, cleanup>>
    BY <1>3 DEF RecoverWorkFromDeadAgent
  <2>3. "recover" \in WorkOps \ {"claim"}
    BY DEF WorkOps
  <2>4. PICK i \in Item, rest \in SUBSET Item :
          items[i].status # "missing" /\ Send(pipe, Command("recover", i, a, rest))
    BY <2>1, <2>2, <2>3, VisitTaken
  <2>5. cleaning' \in Cleaning
    BY <2>2 DEF WorkInv, WorkTyped
  <2>6. QED
    BY <2>2, <2>3, <2>4, <2>5, CallStep
<1>4. ASSUME NEW i \in Item, AbandonWork(i) PROVE WorkInv'
  <2>1. /\ Send(pipe, Command("abandon", i, NoAgent, {})) /\ items[i].status # "missing"
        /\ UNCHANGED <<items, claimedUntil, cleaning, cleanup>>
    BY <1>4 DEF AbandonWork, Call, Exists
  <2>2. cleaning' \in Cleaning /\ "abandon" \in WorkOps
    BY <2>1 DEF WorkInv, WorkTyped, WorkOps
  <2>3. QED
    BY <2>1, <2>2, CallStep
<1>5. QED
  BY <1>1, <1>2, <1>3, <1>4

LEMMA AnswersKeep ==
  ASSUME WorkInv, WorkAnswers
  PROVE  WorkInv'
<1> DEFINE h == Head(pipe)
<1>1. pipe # <<>>
  BY DEF WorkAnswers, ClaimAnswered, HolderKnown, Renewed, ReleaserKnown, Released,
         ExtenderKnown, Extended, Abandoned, Recovered, Cleaned, Answered, OperationFails
<1>2. /\ h \in WorkCommands /\ items[h.i].status # "missing" /\ (h.op = "claim" => h.a \in Agent)
      /\ h.i \in Item /\ h.a \in Agent \cup {NoAgent} /\ h.rest \in SUBSET Item
  BY <1>1, HeadCommand DEF WorkCommands
<1>3. /\ cleaning \in Cleaning
      /\ claimedUntil \in [Item -> {"none", "ahead", "past"}]
  BY DEF WorkInv, WorkTyped
<1>4. {"holder", "renew", "release", "extend"} \subseteq WorkOps \ {"claim"}
      /\ {"recover", "cleanup"} \subseteq WorkOps \ {"claim"}
  BY DEF WorkOps
<1>5. CASE ClaimAnswered
  <2>1. h.op = "claim" /\ UNCHANGED <<cleaning, cleanup>>
    BY <1>5 DEF ClaimAnswered, Answered
  <2>2. CASE h.ans = NoAgent
    <3>1. Becomes("in_progress", h.a, "ahead") /\ AnswerTaken
      BY <1>5, <2>2 DEF ClaimAnswered, AnswerTaken
    <3>2. ~LeavesAlone(h, h.i)
      BY <2>1, <2>2 DEF LeavesAlone, Takes
    <3>3. "in_progress" \in Statuses \ {"missing"}
      BY DEF Statuses
    <3>4. QED
      BY <1>1, <1>2, <1>3, <2>1, <3>1, <3>2, <3>3, BecomesStep
  <2>3. CASE h.ans # NoAgent
    <3>1. Follow("holder") /\ UNCHANGED <<items, claimedUntil>>
      BY <1>5, <2>3 DEF ClaimAnswered
    <3>2. AnswerTaken
      BY <1>1, <1>4, <3>1, FollowTaken
    <3>3. LeavesAlone(h, h.i)
      BY <2>1, <2>3 DEF LeavesAlone, Takes, Frees
    <3>4. QED
      BY <1>1, <1>3, <2>1, <3>1, <3>2, <3>3, SilentStep
  <2>4. QED
    BY <2>2, <2>3
<1>6. CASE HolderKnown \/ ReleaserKnown \/ ExtenderKnown
  <2>1. /\ Done \/ \E op \in {"renew", "release", "extend"} : Follow(op)
        /\ UNCHANGED <<items, claimedUntil, cleaning, cleanup>>
        /\ h.op \in {"holder", "releaser", "extender"}
    BY <1>6 DEF HolderKnown, ReleaserKnown, ExtenderKnown, Answered
  <2>2. AnswerTaken
    BY <1>1, <1>4, <2>1, FollowTaken DEF AnswerTaken
  <2>3. LeavesAlone(h, h.i)
    BY <2>1 DEF LeavesAlone, Takes, Frees
  <2>4. QED
    BY <1>1, <1>3, <2>1, <2>2, <2>3, SilentStep
<1>7. CASE Renewed \/ Extended
  <2>1. /\ Done /\ UNCHANGED <<items, cleaning, cleanup>> /\ h.op \in {"renew", "extend"}
        /\ claimedUntil' \in [Item -> {"none", "ahead", "past"}]
    BY <1>3, <1>7 DEF Renewed, Extended, Answered
  <2>2. LeavesAlone(h, h.i) /\ AnswerTaken
    BY <2>1 DEF LeavesAlone, Takes, Frees, AnswerTaken
  <2>3. QED
    BY <1>1, <1>3, <2>1, <2>2, SilentStep
<1>8. CASE Released \/ Abandoned
  <2>1. /\ \E status \in {"closed", "available"} : Becomes(status, NoAgent, "none")
        /\ Done /\ UNCHANGED <<cleaning, cleanup>> /\ h.op \in {"release", "abandon"} /\ h.ans # Rejected
    BY <1>8 DEF Released, Abandoned, Answered
  <2>2. ~LeavesAlone(h, h.i) /\ ~Takes(h, h.i) /\ AnswerTaken
    BY <2>1 DEF LeavesAlone, Takes, Frees, AnswerTaken
  <2>3. {"closed", "available"} \subseteq Statuses \ {"missing", "in_progress"}
    BY DEF Statuses
  <2>4. QED
    BY <1>1, <1>3, <2>1, <2>2, <2>3, BecomesStep
<1>9. CASE Recovered
  <2>1. /\ Becomes("available", NoAgent, "none") /\ h.op = "recover" /\ h.ans # Rejected
        /\ UNCHANGED <<cleaning, cleanup>>
    BY <1>9 DEF Recovered, Answered
  <2> DEFINE more == HeldBy(h.a, h.rest)
  <2>2. /\ more \in SUBSET h.rest /\ \A i \in more : items[i].status # "missing"
        /\ Done \/ (more # {} /\ Visit(Tail(pipe), "recover", h.a, more, h.rest))
    BY <1>9 DEF Recovered, HeldBy
  <2> HIDE DEF more
  <2>3. AnswerTaken
    BY <1>2, <1>4, <2>2, Visited DEF AnswerTaken
  <2>4. ~LeavesAlone(h, h.i) /\ ~Takes(h, h.i) /\ "available" \in Statuses \ {"missing"}
    BY <2>1 DEF LeavesAlone, Takes, Frees, Statuses
  <2>5. QED
    BY <1>1, <1>3, <2>1, <2>3, <2>4, BecomesStep
<1>10. CASE Cleaned
  <2>1. h.op = "cleanup" /\ ScanGoesOn /\ UNCHANGED cleanup
    BY <1>10 DEF Cleaned, Answered
  <2> DEFINE more == Overdue(h.rest)
  <2>2. /\ more \in SUBSET h.rest /\ \A i \in more : items[i].status # "missing"
        /\ cleaning' \in Cleaning
        /\ Done \/ (more # {} /\ Visit(Tail(pipe), "cleanup", NoAgent, more, h.rest))
    BY <1>3, <2>1 DEF ScanGoesOn, Overdue, Cleaning
  <2> HIDE DEF more
  <2>3. AnswerTaken
    BY <1>2, <1>4, <2>2, Visited DEF AnswerTaken
  <2>4. CASE h.ans = NoAgent
    <3>0. h.ans # Rejected
      BY <2>4, RejectedAssumption
    <3>1. Becomes("available", NoAgent, "none")
      BY <1>10, <2>4 DEF Cleaned
    <3>2. ~LeavesAlone(h, h.i) /\ ~Takes(h, h.i) /\ "available" \in Statuses \ {"missing"}
      BY <2>1, <2>4, <3>0 DEF LeavesAlone, Takes, Frees, Statuses
    <3>3. QED
      BY <1>1, <2>1, <2>2, <2>3, <3>1, <3>2, BecomesStep
  <2>5. CASE h.ans # NoAgent
    <3>1. UNCHANGED <<items, claimedUntil>> /\ LeavesAlone(h, h.i)
      BY <1>10, <2>1, <2>5 DEF Cleaned, LeavesAlone, Takes, Frees
    <3>2. QED
      BY <1>1, <1>3, <2>1, <2>2, <2>3, <3>1, SilentStep
  <2>6. QED
    BY <2>4, <2>5
<1>11. CASE OperationFails
  <2>1. /\ AnswerTaken /\ h.ans = Rejected /\ UNCHANGED <<items, claimedUntil, cleanup>>
        /\ cleaning' \in Cleaning
    BY <1>3, <1>11 DEF OperationFails, AnswerTaken, Cleaning
  <2>2. LeavesAlone(h, h.i)
    BY <2>1, RejectedAssumption DEF LeavesAlone, Takes, Frees
  <2>3. QED
    BY <1>1, <1>3, <2>1, <2>2, SilentStep
<1>12. QED
  BY <1>5, <1>6, <1>7, <1>8, <1>9, <1>10, <1>11 DEF WorkAnswers

LEMMA CleanupFiresKeeps ==
  ASSUME WorkInv, CleanupFires
  PROVE  WorkInv'
<1>1. UNCHANGED <<items, claimedUntil, cleanup>>
  BY DEF CleanupFires
<1>2. CASE UNCHANGED <<pipe, redisVars>> /\ cleaning' \in Cleaning
  BY <1>1, <1>2 DEF WorkInv, WorkTyped, GoodPipe, GoodItems, LocksAreFollowed, redisVars
<1> DEFINE S == Overdue(Item)
<1>3. CASE S # {} /\ cleaning' = "scan" /\ Visit(pipe, "cleanup", NoAgent, S, S)
  <2>1. S \in SUBSET Item /\ \A i \in S : items[i].status # "missing"
    BY DEF Overdue
  <2>2. "cleanup" \in WorkOps \ {"claim"} /\ S \in SUBSET S /\ cleaning' \in Cleaning
    BY <1>3 DEF WorkOps, Cleaning
  <2> HIDE DEF S
  <2>3. PICK i \in Item, rest \in SUBSET Item :
          items[i].status # "missing" /\ Send(pipe, Command("cleanup", i, NoAgent, rest))
    BY <1>3, <2>1, <2>2, VisitTaken
  <2>4. QED
    BY <1>1, <1>3, <2>2, <2>3, CallStep
<1>4. QED
  BY <1>2, <1>3 DEF CleanupFires, WorkInv, WorkTyped, Cleaning

LEMMA CreateWorkKeeps ==
  ASSUME WorkInv, CreateWork
  PROVE  WorkInv'
<1>1. PICK i \in Item : items[i].status = "missing" /\ items' = [items EXCEPT ![i].status = "available"]
  BY DEF CreateWork, Exists
<1>2. UNCHANGED <<locks, untold, claimedUntil, pipe, cleaning, cleanup>>
  BY DEF CreateWork, redisVars
<1>3. /\ items \in [Item -> Records]
      /\ \A j \in Item : items[j].status # "in_progress" => items[j].assignedTo = NoAgent
  BY DEF WorkInv, WorkTyped, GoodItems
<1> DEFINE r == [items[i] EXCEPT !.status = "available"]
<1>4. items' = [items EXCEPT ![i] = r]
  BY <1>1, <1>3
<1>5. r \in Records /\ r.status = "available" /\ r.assignedTo = NoAgent
  BY <1>1, <1>3 DEF Records, Statuses
<1>6. items' \in [Item -> Records] /\ items'[i] = r /\ \A j \in Item : j # i => items'[j] = items[j]
  BY <1>3, <1>4, <1>5
<1>7. GoodItems(items)'
  BY <1>3, <1>5, <1>6 DEF GoodItems
<1>8. GoodPipe(pipe, items)'
  <2>1. /\ pipe' \in Seq(WorkCommands) /\ Len(pipe') <= MaxInFlight
        /\ \A k \in 1 .. Len(pipe) :
             items[pipe[k].i].status # "missing" /\ (pipe[k].op = "claim" => pipe[k].a \in Agent)
    BY <1>2 DEF WorkInv, WorkTyped, GoodPipe
  <2>2. ASSUME NEW k \in 1 .. Len(pipe') PROVE items'[pipe'[k].i].status # "missing"
    <3>1. pipe'[k] \in WorkCommands
      BY <2>1, ElementOfSeq
    <3>2. pipe'[k].i \in Item
      BY <3>1 DEF WorkCommands
    <3>3. QED
      BY <1>2, <1>5, <1>6, <2>1, <3>2
  <2>3. QED
    BY <1>2, <2>1, <2>2 DEF GoodPipe
<1>9. ASSUME NEW j \in Item \ untold PROVE Follows(j, items'[j], locks[j], pipe)
  <2>1. Follows(j, items[j], locks[j], pipe)
    BY DEF WorkInv, LocksAreFollowed
  <2>2. CASE j # i
    BY <1>6, <2>1, <2>2
  <2>3. CASE j = i
    BY <1>1, <2>1, <2>3 DEF Follows, InProgressFor
  <2>4. QED
    BY <2>2, <2>3
<1>10. QED
  BY <1>2, <1>7, <1>8, <1>9 DEF WorkInv, WorkTyped, LocksAreFollowed, Follows

LEMMA LapseKeeps ==
  ASSUME WorkInv, NEW i \in Item, LockLapses(i)
  PROVE  WorkInv'
<1>1. /\ locks' = [locks EXCEPT ![i] = NoAgent] /\ untold' = untold \ {i}
      /\ UNCHANGED <<items, claimedUntil, pipe, cleaning, cleanup>>
  BY DEF LockLapses
<1>2. WorkTyped'
  BY <1>1 DEF WorkInv, WorkTyped, GoodItems, GoodPipe
<1>3. ASSUME NEW j \in Item \ untold' PROVE Follows(j, items'[j], locks'[j], pipe')
  <2>1. \/ j \notin untold /\ Follows(j, items[j], locks[j], pipe) /\ locks'[j] = locks[j]
        \/ locks'[j] = NoAgent
    BY <1>1 DEF WorkInv, WorkTyped, LocksAreFollowed
  <2>2. QED
    BY <1>1, <2>1 DEF Follows
<1>4. QED
  BY <1>2, <1>3 DEF WorkInv, LocksAreFollowed, Follows

LEMMA WorkStarts == CoordinatorInit => WorkInv
<1> SUFFICES ASSUME CoordinatorInit PROVE WorkInv
  OBVIOUS
<1>1. /\ pipe \in Seq(WorkCommands) /\ pipe = <<>> /\ Len(pipe) = 0
  BY EmptySeq DEF CoordinatorInit
<1>2. GoodItems(items)
  BY AgentAssumption DEF CoordinatorInit, GoodItems, Records, Statuses, Missing
<1>3. GoodPipe(pipe, items)
  BY <1>1, AgentAssumption DEF GoodPipe
<1>4. WorkTyped
  BY <1>2, <1>3 DEF CoordinatorInit, WorkTyped, Cleaning
<1>5. LocksAreFollowed
  BY DEF CoordinatorInit, LocksAreFollowed, Follows
<1>6. QED
  BY <1>4, <1>5 DEF WorkInv

LEMMA WorkKeeps == WorkInv /\ [CoordinatorNext]_workVars => WorkInv'
<1> SUFFICES ASSUME WorkInv, [CoordinatorNext]_workVars PROVE WorkInv'
  OBVIOUS
<1>1. ASSUME NEW i \in Item, ClaimPasses(i) PROVE WorkInv'
  BY <1>1 DEF ClaimPasses, WorkInv, WorkTyped, GoodItems, GoodPipe, LocksAreFollowed, redisVars
<1>2. ASSUME StartCleanup \/ StopCleanup \/ UNCHANGED workVars PROVE WorkInv'
  BY <1>2 DEF StartCleanup, StopCleanup, workVars, WorkInv, WorkTyped, GoodItems, GoodPipe,
              LocksAreFollowed, redisVars, Cleaning
<1>3. QED
  BY <1>1, <1>2, CreateWorkKeeps, CallsKeep, LapseKeeps, AnswersKeep, CleanupFiresKeeps
  DEF CoordinatorNext

LEMMA WorkCorrect == CoordinatorSpec => []WorkInv
BY WorkStarts, WorkKeeps, PTL DEF CoordinatorSpec

LEMMA WorkTypes == WorkInv => CoordinatorTypeOK
BY DEF WorkInv, WorkTyped, GoodItems, GoodPipe, CoordinatorTypeOK, Records, Statuses, Cleaning

LEMMA WorkFollows == WorkInv => ItemFollowsLock
<1> SUFFICES ASSUME WorkInv, NEW i \in Item \ untold, locks[i] # NoAgent,
                    \A k \in DOMAIN pipe : pipe[k].i # i
             PROVE  items[i] = [status |-> "in_progress", assignedTo |-> locks[i]]
  BY DEF ItemFollowsLock
<1>1. Follows(i, items[i], locks[i], pipe) /\ DOMAIN pipe = 1 .. Len(pipe)
  BY LenProperties DEF WorkInv, WorkTyped, GoodPipe, LocksAreFollowed
<1>2. \A k \in 1 .. Len(pipe) : ~Takes(pipe[k], i)
  BY <1>1 DEF Takes
<1>3. QED
  BY <1>1, <1>2 DEF Follows, InProgressFor

\* Once every answer about an item is in, it is in progress for the agent that
\* holds its Redis lock, unless a claim that rejected took that lock: work that
\* is locked is never offered again, whichever commands reject.
THEOREM LockedWorkIsNotOffered == CoordinatorSpec => []ItemFollowsLock
BY WorkCorrect, WorkFollows, PTL

-----------------------------------------------------------------------------
(* The three together, as they are run.                                    *)

\* Types of the guard, the lock and the coordinator.
THEOREM LocksAreTyped == Spec => []TypeOK
<1>1. Init => GuardInv /\ LockInv /\ WorkInv
  BY GuardStarts, LockStarts, WorkStarts DEF Init
<1>2. [Next]_<<focus, guardVars, lockVars, workVars>> =>
        [GuardNext]_guardVars /\ [LockNext]_lockVars /\ [CoordinatorNext]_workVars
  BY DEF Next
<1>3. GuardInv /\ LockInv /\ WorkInv => TypeOK
  BY LockTypes, WorkTypes DEF GuardInv, TypeOK
<1>4. QED
  BY <1>1, <1>2, <1>3, GuardKeeps, LockKeeps, WorkKeeps, PTL DEF Spec

=============================================================================
