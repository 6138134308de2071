SPECIFICATION FairSpec
CONSTANTS
  Jobs = {j1, j2}
  Workers = {w1, w2}
  None = none
  MaxAttempts = 2
  BaseBackoff = 1
  MaxBackoff = 1
  StaleAfter = 2
  Concurrency = 1
  MaxRun = 1
  MaxClaims = 8
  MaxReplays = 0
  MaxFaults = 1
PROPERTIES
  QueueSpec
