CONSTANTS
  Jobs = {j1, j2}
  Batches = {}
  Messages = {m1, m2}
  Senders = {s}
  TheSender = s
  Sender <- OneSender
  MaxLen = 2
  ChunkSize = 1
  MaxTries = 2
  MaxJobs = 2
  Faults = FALSE
  SameQueue = TRUE
  m1 = m1
  m2 = m2
  s = s
  j1 = j1
  j2 = j2
SYMMETRY Symmetry
SPECIFICATION Spec
INVARIANTS
  TypeOK
  CompletedIsAccounted
  RecordsFit
CHECK_DEADLOCK FALSE
