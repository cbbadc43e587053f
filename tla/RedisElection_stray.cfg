SPECIFICATION ElectionSpec
CONSTANTS
  Candidate = {a, b}
  Nobody = nobody
  Failed = failed
  LeaderTTL = 6
  RoundedTTL = 6
  RefreshPeriod = 3
  RetryPause = 1
  MaxFaults = 2
  CampaignAgain = FALSE
INVARIANT LeaderHoldsKey
