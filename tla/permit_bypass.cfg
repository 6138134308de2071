SPECIFICATION Spec
CONSTANTS
  Callers = {u1}
  MaxCycles = 2
CHECK_DEADLOCK FALSE
INVARIANTS
  SubmittedIsComplete
