SPECIFICATION Spec
CONSTANTS
  Deliveries = {d1}
  address = address
  Recipients <- OneRecipient
  To <- ToOne
  EventTypes = {"delivery_delayed"}
  MaxAttempts = 2
  MaxRuns = 3
  MaxFaults = 1
  MaxTime = 1
CHECK_DEADLOCK FALSE
INVARIANTS
  AcceptedNotResent
