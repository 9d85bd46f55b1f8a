SPECIFICATION Spec
CONSTANTS
  Messages = {"m1", "m2"}
  Scores = {2, 8, 9}
  Durations = {1}
  RotationInterval = 1
  MaxStates = 1
  MaxMeasurements = 1
  RecentCalls = 1
  LastTime = 4
  Capacity = 2
  CacheLife = 2
  MaxChecks = 2
  Configs <- MCConfigs
  Limits = {1, 2}
  MaxAlerts = 3
  CleanupInterval = 1
  ResolvedLife = 2
  Times = {1, 5}
  Campaigns <- MCCampaigns
INVARIANTS
  MetricsAddUp
  Probes
PROPERTIES
  AlertsKept
CHECK_DEADLOCK FALSE
