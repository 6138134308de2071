SPECIFICATION Spec
CONSTANTS
  Clients = {a, b}
  Window = 2
  Max = 2
  MaxTime = 5
  MaxRestarts = 1
CHECK_DEADLOCK FALSE
INVARIANTS
  MapDoesNotGrow
