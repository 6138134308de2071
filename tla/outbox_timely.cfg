SPECIFICATION Spec
CONSTANTS
  Jobs = {j1, j2}
  Workers = {w1, w2}
  None = none
  MaxAttempts = 2
  BaseBackoff = 1
  MaxBackoff = 1
  StaleAfter = 2
  Concurrency = 2
  MaxRun = 1
  MaxClaims = 4
  MaxReplays = 1
  MaxFaults = 1
SYMMETRY Symmetric
INVARIANTS
  TypeOK
  ProcessedWasHandled
  ExclusiveHandling
  AttemptsAreCounted
