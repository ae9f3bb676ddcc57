SPECIFICATION Spec
CONSTANTS
  NULL = NULL
  Garbage = {g1}
  Fields <- WideFields
  Switches <- AnySwitch
  QueueCap = 2
  MaxChanges = 2
  MaxFaults = 1
INVARIANTS
  Reconstruction
  TravelTogether
  HeaderFollowsProgram
  RestartSendsSnapshot
CHECK_DEADLOCK FALSE
