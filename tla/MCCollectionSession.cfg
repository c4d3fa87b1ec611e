SPECIFICATION FairSpec
CONSTANTS
  RecIds <- MCRecIds
  EnvKeys <- MCEnvKeys
  trlimit = 2
  MaxTxns = 4
CHECK_DEADLOCK FALSE
INVARIANTS
  TypeOK
  NothingSplit
  NothingLost
  InitialFirstDisconnectLast
  EnvCarriedOn
  BatchBound
PROPERTIES
  LogOnlyGrows
  DisconnectCommitted
