SPECIFICATION Spec
CONSTANTS
  MaxEdits = 1
  Secrets = {"long", "short"}
  Given <- MCGiven
  GivenVars <- MCGivenVars
  MaxLoads = 1
  Parts = {"startup"}
INVARIANTS
  FallbackOnlyInDevelopment
CHECK_DEADLOCK FALSE
