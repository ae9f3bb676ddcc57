SPECIFICATION FairSpec
CONSTANTS
  Machines = {m1}
  Configs = {c1, c2}
  NULL = NULL
  MaxEdits = 1
  MaxExits = 0
  MaxFaults = 0
PROPERTIES
  InterruptEnds
CHECK_DEADLOCK FALSE
