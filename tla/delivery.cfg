SPECIFICATION DeliverySpec
CONSTANTS
  Deliveries = {d1, d2}
  address = address
  Recipients <- OneRecipient
  To <- ToOne
  EventTypes = {"delivery_delayed", "bounced"}
  MaxAttempts = 2
  MaxRuns = 2
  MaxFaults = 1
  MaxTime = 2
  Workers = {w1, w2}
  Nobody = nobody
  ClaimAttempts = 2
  BaseBackoff = 1
  MaxBackoff = 1
  StaleAfter = 1
  Concurrency = 2
  MaxRun = 2
  MaxClaims = 2
  MaxReplays = 0
  MaxClaimFaults = 1
  Files = {f1}
  Contents = {c1, bad}
  Bad = {bad}
  None = none
  Drivers = {"local", "s3"}
  ManyRequests = 4
  FewFaults = 1
  FewRequests = 3
  ManyFaults = 2
CHECK_DEADLOCK FALSE
SYMMETRY Symmetric
INVARIANTS
  TypesOK
  SuppressedNotMailed
  SuppressionIsNewest
  OutcomeIsReal
  FileStatusIsReal
PROPERTIES
  VerdictLostOnlyToNewsOrStaleRun
  SettledOnceByOwner
  DeletionIsOrdered
