SPECIFICATION Spec
CONSTANTS
  Machines = {m1}
  Configs = {c1, c2}
  NULL = NULL
  MaxEdits = 2
  MaxExits = 0
  MaxFaults = 0
INVARIANTS
  WorkerShielded
CHECK_DEADLOCK FALSE
