SPECIFICATION FairDBSpec
CONSTANTS
  Sessions = {1, 2}
  Addresses <- FirstOrOther
  Bodies <- SomeBodies
  NoBody <- Empty
  Configured <- DbAndShow
  Raises <- ShowLast
  Cancels <- ShowLast
  ReuseEarly = FALSE
  MaxTxns = 2
  RecIds = {1, 2}
  MaxFaults = 1
CHECK_DEADLOCK FALSE
INVARIANTS
  TypeOK
  TablesFollow
PROPERTIES
  Broadcast
  FailureCloses
  DisconnectReachesAll
