SPECIFICATION Spec
CONSTANTS
  Writers <- AllWriters
  Locking <- Lockers
  Appends <- AllAppends
  Null = null
  api = api
  report = report
  worker = worker
  retry = retry
  webhook = webhook
  a = a
  b = b
  c = c
  d = d
  e = e
  EventIds = {a, b, c, d, e}
CHECK_DEADLOCK FALSE
INVARIANTS
  TrailVerifies
