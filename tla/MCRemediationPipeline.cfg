SPECIFICATION Spec
CONSTANTS
  Task = {t1, t2}
  MaxPlans = 2
  MaxCalls = 3
  MaxIterations = 10
  SourceTypes = {"scanner", "report"}
SYMMETRY Symmetry
INVARIANTS TypeOK VerdictIsFresh
PROPERTY NoRepeatedPrerequisite
CHECK_DEADLOCK FALSE
