SPECIFICATION Spec
CONSTANTS
  Concurrency = 2
  MaxTicks = 1
  MaxFaults = 1
CHECK_DEADLOCK FALSE
INVARIANTS
  CleanExitDrained
