SPECIFICATION Spec
CONSTANTS
  MaxId = 2
  MaxCode = 2
  i1 = i1
  i2 = i2
  Installs <- InstallSet
  r1 = r1
  r2 = r2
  Requests <- RequestSet
SYMMETRY Symmetric
CONSTRAINT Bounded
INVARIANTS OneInstallation DisconnectCleans BadgeIsEarned
PROPERTIES InstallationIsKept
CHECK_DEADLOCK FALSE
