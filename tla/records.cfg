SPECIFICATION RecordsSpec
CONSTANTS
  Reports = {r1}
  Clients = {c1, c2}
  MaxRequests = 4
  MaxFaults = 1
  None = none
  review = review
  worker = worker
  retry = retry
  webhook = webhook
  b = b
  c = c
  d = d
  e = e
  Writers = {review, worker, retry, webhook}
  Locking = {worker, retry, webhook}
  EventIds = {b, c, d, e}
  Appends <- Appended
  Null = null
  t1 = t1
  t2 = t2
  i1 = i1
  i2 = i2
  k = k
  Tenants = {t1, t2}
  Ids = {i1, i2}
  Kinds = {"projects", "rfis", "ai-review-runs", "ai-findings", "field-reports"}
  Procs = {p1, p2}
  Posts = {q1, q2, q3}
  Bodies <- Asked
  ClientKeys = {k}
  Backends = {"memory", "file", "sqlite", "postgres"}
  Disk = disk
  Seed <- Seeded
  MaxStoreFaults = 1
  own = own
  foreign = foreign
  Findings = {f1}
  Issues = {own, foreign}
  Born = {"pending", "converted_to_issue"}
  Nexts <- Decisions
  MaxAsks = 3
  MaxMishaps = 1
  Callers = {u1, u2}
  MaxCycles = 2
  Listed = {l1, l2, l3}
  Statuses = {"draft", "approved"}
  NewStatus = "draft"
  Limits = {0, 1, 2}
  ListBackends = {"memory", "sqlite", "postgres"}
  MaxSaves = 2
SYMMETRY Symmetric
CHECK_DEADLOCK FALSE
INVARIANTS
  TypesOK
  TrailIsSound
  TrailIsHistory
  RefusedIsExplained
  AcknowledgedIsKept
  EvidenceIsWhole
  ChildInTenant
  DispositionIsTold
  NoWayRound
  WalkMissesOnlyShifted
PROPERTIES
  TrailGrowsAsLog
