SPECIFICATION FairSpec
CONSTANTS
  Finding = {"code"}
  Source <- MCSource
  Workspace = {w1, w2}
  Request = {q1, q2}
  Assessment = {a1, a2}
  UserStatus = {"triaged"}
  MaxUserOps = 2
  Repo = {"repo"}
  MaxCrashes = 1
  None = None
INVARIANTS
  AutoCloseIsJustified
  CompletionIsEarned
PROPERTIES
  
  LifecycleSpec
CHECK_DEADLOCK FALSE
