SPECIFICATION FairSpec
CONSTANTS
  NULL = NULL
  m1 = m1
  m2 = m2
  Machines = {m1, m2}
  Addresses <- ShopAddresses
  Nets <- ShopNets
  MaxRequests = 3
  MaxMoves = 1
  MaxFaults = 1
INVARIANTS
  TypeOK
  PingsTrue
  RowsProbed
  UpdatedIsKnown
  ConnectionFreed
PROPERTIES
  RequestsEnd
CHECK_DEADLOCK FALSE
