CONSTANTS
  Messages = {m1, m2, m3}
  MaxCalls = 3
  MaxRestarts = 1
  MaxTime = 6
  Capacity = 2
  BatchSize = 2
  TTL = 1
  Grace = 1
  Interval = 1
  Timeout = 1
  MaxRetries = 2
  ResultHasScore = FALSE
  m1 = m1
  m2 = m2
  m3 = m3
SYMMETRY MessageSymmetry
SPECIFICATION Spec
INVARIANTS
  CapacityBound
  RetentionBound
PROPERTIES
  StoreSpec
CHECK_DEADLOCK FALSE
