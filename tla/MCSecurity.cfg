SPECIFICATION Spec
CONSTANTS
  Clients = {"c1", "text"}
  Endpoints = {"webhook"}
  Rates = {1, 2}
  Loads = {0, 50}
  DefaultRate = 2
  WindowSize = 2
  CacheLife = 1
  CacheExpiry = 1
  CacheSize = 1
  CacheSlack = 1
  CleanupInterval = 2
  ViolationLife = 3
  MaxViolations = 2
  BucketLife = 4
  WindowKept = 2
  MaxTime = 4
  Bodies = {"b1", "b2"}
  Secrets = {"s1"}
  NoSecret = "nosecret"
  Tolerances = {1, 2}
  MaxCached = 1
  MaxRotations = 1
  Addresses = {"c1"}
  NotAddress = "text"
  Networks <- MCNetworks
  Thresholds = {1}
  ThreatWindow = 2
  RapidSpan = 2
  Reasons = {"r1"}
  MaxLogEntries = 3
  Campaigns <- MCCampaigns
  Times = {1, 3}
INVARIANTS
  TypeOK
  CountedGrantsFit
  ModesAgree
  AcceptedOnce
PROPERTIES
  PastIsForgotten
CHECK_DEADLOCK FALSE
