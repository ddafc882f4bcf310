SPECIFICATION FairSpec
CONSTANTS
  Run = {r1}
  Task = {t1, t2}
  AgentType = {"remediation_executor", "validation_checker"}
  UserStatus = {"passed", "closed"}
  UserPrUrl = {"user", "none"}
  NoRun = NoRun
PROPERTIES
  EveryRunSettles
