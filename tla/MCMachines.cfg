SPECIFICATION Spec
CONSTANTS
  c1 = c1
  c2 = c2
  q1 = q1
  q2 = q2
  t1 = t1
  t2 = t2
  t3 = t3
  r1 = r1
  r2 = r2
  r3 = r3
  Caller = {c1, c2}
  MaxRetries = 1
  FailureThreshold = 2
  SuccessThreshold = 2
  OpenTimeout = 2
  Window = 2
  MaxStrays = 1
  TripAfter = 2
  CloseAfter = 2
  ResetTimeout = 2
  FailureWindow = 1
  MaxThrough = 2
  MaxForced = 1
  User = {u1, u2}
  MaxWorkers = 3
  MaxRestarts = 1
  Batcher = {x1, x2}
  Task = {t1, t2, t3}
  Needs <- MCNeeds
  Lists <- MCLists
  MaxConcurrency = 1
  MaxResets = 1
  Customer = {c1, c2}
  Nameless = Nameless
  Ticket = {q1, q2}
  OwnerOf <- MCOwnerOf
  Priority <- MCPriority
  MaxTokens = 3
  WindowLen = 1
  MaxOutside = 1
  Workflow = {w1}
  Handle = {h1, h2, h3}
  NoHandle = NoHandle
  MaxHistory = 1
  MaxRuns = 1
  Poll = {p1, p2}
  MaxItems = 2
  MaxErrors = 2
  MaxTerms = 2
  Binding = {b1, b2}
  Debounced = {b1}
  Transformed = {b1}
  Event = {e1, e2}
  Nothing = Nothing
  Debounce = 1
  Dedupe = 2
  Minute = 2
  MaxTriggers = 2
  Inquirer = {r1, r2, r3}
  Estimate <- MCEstimate
  Spent = {0, 2}
  TokenLimits = {1, 2}
  RequestLimit = 3
  Concurrent = 2
  WindowTicks = 1
  MaxResets0 = 1
  Artifact = {a1, a2}
  Reader = {i1, i2}
  AccessList = {l1, l2}
  Ttls = {0, 1}
  RunnerId = {n1, n2}
  Borrower = {u1, u2}
  NoRunner = NoRunner
  MaxCheckpoints = 2
  MaxSaves = 3
  MaxLives = 1
  k1 = k1
  k2 = k2
  StepName = {s1, s2}
  Urgency = {1, 3}
  MaxSteps = 3
  MaxStates = 2
  MaxPersists = 2
  MaxReads = 1
  MaxDeaths = 1
  CallLists <- MCCallLists
  Loop = {u1, u2}
  NoLoop = NoLoop
  MaxPauses = 3
INVARIANTS TypeOK NothingMissed WithinLimits
PROPERTIES ServedAgain EverythingReturns
CHECK_DEADLOCK FALSE
