SPECIFICATION FairSpec
CONSTANTS
  Machines = {m1}
  Configs = {c1, c2}
  NULL = NULL
  MaxEdits = 2
  MaxExits = 1
  MaxFaults = 1
INVARIANTS
  TypeOK
  OneProcessPerMachine
  NoStrayProcess
  CleanClose
PROPERTIES
  StatusStory
  TableApplied
  ShutdownEnds
CHECK_DEADLOCK FALSE
