SPECIFICATION Spec
CONSTANTS
  t1 = t1
  t2 = t2
  i1 = i1
  i2 = i2
  k = k
  Tenants = {t1, t2}
  Ids = {i1, i2}
  Kinds = {"projects", "rfis", "ai-review-runs", "ai-findings", "field-reports"}
  Procs = {p1}
  Requests = {r1, r2}
  Asks <- Bodies
  ClientKeys = {k}
  Backends = {"memory", "file", "sqlite", "postgres"}
  Disk = disk
  None = none
  Seed <- SeedOfT1
  MaxFaults = 0
CHECK_DEADLOCK FALSE
INVARIANTS
  SameContract
