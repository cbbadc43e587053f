SPECIFICATION TimedFairSpec
CONSTANTS
  Holder = {a, b}
  Nobody = nobody
  Slot = {s1, s2}
  NoSlot = noslot
  MaxToken = 3
  MaxRetries = 0
  Unlimited = TRUE
  MaxAttempts = 1
  Faults = TRUE
  LeaseTTL = 8
  RenewalInterval = 2
  GracePeriod = 3
  RetryBackoff = 2
  AttemptDelay = 2
  Latency = 1
  Handled = {b}
  MaxInterrupts = 1
INVARIANTS
  TimedTypeOK
  LeaderIsCurrent

PROPERTY CampaignsSucceed
