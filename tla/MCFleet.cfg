SPECIFICATION Spec
CONSTANTS
  n1 = n1
  n2 = n2
  j1 = j1
  j2 = j2
  v1 = v1
  v2 = v2
  v3 = v3
  v4 = v4
  Member = {a}
  Registry = {g1, g2}
  NoRecord = NoRecord
  Ttl = 2
  MaxAnswers = 1
  Timeout = 1
  MaxRounds = 2
  Bus = {b1, b2}
  Message = {m1}
  Request = {r}
  MaxWires = 2
  Node = {n1, n2, n3, n4}
  Top = Top
  Absent = Absent
  FirstNodes <- MCFirstNodes
  MaxOps = 3
  Letter = {m1, m2}
  Listener = {s1, s2}
  Connection = {c1, c2}
  Subscription = {s1, s2}
  Pattern <- MCPattern
  Unsubscribed = Unsubscribed
  MaxPublishing = 1
  Page = {t1, t2}
  Note = {n}
  Inquiry = {r}
  Tab = {t1, t2}
  Work = {w}
  MaxLoad = 1
  MaxWire = 2
  Job = {j1, j2}
  Urgency <- MCUrgency
  MaxStaff = 2
  MaxTries = 2
  EnableDLQ = TRUE
  MaxOrders = 1
  Vertex = {v1, v2, v3, v4}
  Kind <- MCKind
  FirstEdges <- MCFirstEdges
  Start = {v1, v2}
  MaxWalks = 3
  MaxIterations = 2
  MaxSpawned = 1
  MaxEdits = 1
  Key = {k1}
  Author = {a, b}
  Value = {x, y}
  Store = {S1, S2}
  MaxTime = 1
  MaxWrites = 3
INVARIANTS TypeOK GoneStaysGone SilenceRecoveredOnce RequestsAreAnswered NobodyFallsOut ReplicasAgree
PROPERTIES DeliveredAsDue WorkStaysInHand
CHECK_DEADLOCK FALSE
