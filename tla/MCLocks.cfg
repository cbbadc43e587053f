SPECIFICATION Spec
CONSTANTS
  Holder = {a, b}
  Nobody = nobody
  MaxToken = 3
  Client = {x, y}
  p1 = p1
  p2 = p2
  Process <- MCProcess
  NoOwner = NoOwner
  MaxTokens <- MCMaxTokens
  MaxPending <- MCMaxPending
  MaxItems = 2
  Agent = {u, v}
  NoAgent = NoAgent
  Rejected = Rejected
  MaxInFlight = 2
  MaxRejected = 2
  ItemPriority <- MCPriority
INVARIANTS TypeOK StaleTokensRefused ItemFollowsLock
PROPERTIES FencedAfterNewerRan LapsedWorkReturns
CHECK_DEADLOCK FALSE
