SPECIFICATION TimedSpec
CONSTANTS
  Holder = {a, b}
  Nobody = nobody
  Slot = {s1, s2, s3}
  NoSlot = noslot
  MaxToken = 2
  MaxRetries = 0
  Unlimited = FALSE
  MaxAttempts = 2
  Faults = TRUE
  LeaseTTL = 10
  RenewalInterval = 2
  GracePeriod = 4
  RetryBackoff = 2
  AttemptDelay = 2
  Latency = 1
  Handled = {}
  MaxInterrupts = 0
INVARIANT AtMostOneLeader
