SPECIFICATION Spec
CONSTANTS
  NULL = NULL
  Garbage = {g1}
  Fields <- ProgramFields
  Switches <- AnySwitch
  QueueCap = 1
  MaxChanges = 1
  MaxFaults = 0
INVARIANTS
  PathOnEitherChange
CHECK_DEADLOCK FALSE
