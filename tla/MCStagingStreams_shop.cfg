SPECIFICATION FairSpec
CONSTANTS
  NULL = NULL
  m1 = m1
  m2 = m2
  Machines = {m1, m2}
  Records <- ShopMessages
  Length = 4
  MaxExits = 1
INVARIANTS
  TypeOK
  DurationsTrue
  PartsJoinedOnce
  ProgramsNeverGoBack
  QueryPartsCounted
  QueryOneStateLate
PROPERTIES
  ExactlyOnce
  CatchesUp
CHECK_DEADLOCK FALSE
