SPECIFICATION Spec
CONSTANTS
  Workspace = {w1, w2}
  Check = {"security_md", "dependabot_config"}
  MaxCrashes = 1
INVARIANTS  PrIsReal
PROPERTIES FixSettles
CHECK_DEADLOCK FALSE
