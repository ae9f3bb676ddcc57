SPECIFICATION Spec
CONSTANTS
  Machines = {m1, m2}
  Configs = {c1}
  NULL = NULL
  MaxEdits = 3
  MaxExits = 0
  MaxFaults = 0
SYMMETRY AnyMachine
INVARIANTS
  CleanClose
  OneProcessPerMachine
CHECK_DEADLOCK FALSE
