SPECIFICATION FairSpec
CONSTANTS
  NULL = NULL
  Garbage = {g1}
  Fields <- OneWayFields
  Switches <- OneWay
  QueueCap = 1
  MaxChanges = 2
  MaxFaults = 1
PROPERTIES
  ReaderConverges
  PathConverges
  StopsOnSignal
CHECK_DEADLOCK FALSE
