SPECIFICATION Spec
CONSTANTS
  MaxEdits = 2
  Secrets = {"long", "short"}
  Given <- MCGiven
  GivenVars <- MCGivenVars
  MaxLoads = 3
  Parts = {"startup", "config", "schema"}
INVARIANTS
  ServedAsChecked
  ConfigurationsComeBack
  HistoriesMeet
CHECK_DEADLOCK FALSE
