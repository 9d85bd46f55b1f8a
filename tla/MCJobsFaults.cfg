CONSTANTS
  Jobs = {j1}
  Batches = {b1}
  Messages = {m1, m2}
  Senders = {s}
  TheSender = s
  Sender <- OneSender
  MaxLen = 2
  ChunkSize = 1
  MaxTries = 2
  MaxJobs = 1
  Faults = TRUE
  SameQueue = TRUE
  m1 = m1
  m2 = m2
  s = s
  j1 = j1
  b1 = b1
SPECIFICATION FairSpec
INVARIANTS
  CompletedProgress
PROPERTIES
  FinishedIsLeftAlone
  StartedIsResolved
CHECK_DEADLOCK FALSE
