CONSTANTS
  Messages = {m1}
  MaxCalls = 2
  MaxRestarts = 1
  MaxTime = 2
  Capacity = 2
  BatchSize = 2
  TTL = 1
  Grace = 0
  Interval = 1
  Timeout = 1
  MaxRetries = 2
  ResultHasScore = TRUE
  m1 = m1
SPECIFICATION FairSpec
INVARIANTS
  TypeOK
  StatsAccount
  VerdictMatchesMail
  GivenUpAfterAllAttempts
PROPERTIES
  NoSendAfterEnd
  AcceptedIsResolved
  StoredIsForgotten
CHECK_DEADLOCK FALSE
