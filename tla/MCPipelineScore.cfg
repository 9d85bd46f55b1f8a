CONSTANTS
  Messages = {m1}
  MaxCalls = 1
  MaxRestarts = 0
  MaxTime = 1
  Capacity = 1
  BatchSize = 1
  TTL = 1
  Grace = 0
  Interval = 1
  Timeout = 1
  MaxRetries = 2
  ResultHasScore = FALSE
  m1 = m1
SPECIFICATION Spec
INVARIANTS
  DeliverableIsTried
CHECK_DEADLOCK FALSE
