SPECIFICATION Spec
CONSTANTS
  NULL = NULL
  Garbage = {g1}
  Fields <- EstopFields
  Switches <- AnySwitch
  QueueCap = 1
  MaxChanges = 1
  MaxFaults = 0
INVARIANTS
  EstopIsMachines
CHECK_DEADLOCK FALSE
