SPECIFICATION Spec
CONSTANTS
  MaxPid = 2
  port1 = port1
  port2 = port2
  Ports <- PortSet
  t1 = t1
  t2 = t2
  Terminals <- TerminalSet
  MaxUpdate = 2
  MaxInode = 2
  Retention = 1
  Releases = {"dotted", "venv"}
SYMMETRY Symmetric
CONSTRAINT Bounded
INVARIANTS   StopReclaims
CHECK_DEADLOCK FALSE
