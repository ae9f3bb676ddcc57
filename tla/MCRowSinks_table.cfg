SPECIFICATION FairSpec
CONSTANTS
  Deployments <- SideBySide
  Length = 3
  QueueSize = 1
  MaxExits = 1
INVARIANTS
  TypeOK
  RowsTrue
  CommittedReachesTable
  ConsumersLoseNothing
PROPERTIES
  TablesFill
CHECK_DEADLOCK FALSE
