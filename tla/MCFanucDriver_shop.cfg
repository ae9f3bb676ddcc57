SPECIFICATION Spec
CONSTANTS
  NULL = NULL
  Garbage = {g1}
  Fields <- ShopFields
  Switches <- AnySwitch
  QueueCap = 2
  MaxChanges = 2
  MaxFaults = 1
INVARIANTS
  TypeOK
  Reconstruction
CHECK_DEADLOCK FALSE
