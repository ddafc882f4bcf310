SPECIFICATION Spec
CONSTANTS
  Run = {r1, r2}
  Task = {t1, t2}
  AgentType = {"remediation_planner", "remediation_executor"}
  UserStatus = {}
  UserPrUrl = {}
  NoRun = NoRun
SYMMETRY Symmetry
INVARIANTS
  NoDoubleResume
