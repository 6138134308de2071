SPECIFICATION ProcessSpec
CONSTANTS
  Concurrency = 3
  MaxTicks = 4
  MaxFaults = 3
  Calls = {q1, q2, q3}
  Jobs = {j1, j2, j3}
  Apps = {a1, a2}
  Latest = 3
  Knows <- Releases
  MaxOutages = 2
  j1 = j1
  j2 = j2
  j3 = j3
  a1 = a1
  a2 = a2
CHECK_DEADLOCK FALSE
INVARIANTS
  TypesOK
  StopsInOrder
  NobodyIsCut
  SchemaIsPrefix
  JobsDoNotClash
PROPERTIES
  StopEnds
  ServerStops
