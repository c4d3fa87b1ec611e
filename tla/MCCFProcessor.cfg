SPECIFICATION Spec
CONSTANTS
  Sessions = {"s1", "s2", "s3"}
  iocid <- Ports
  Names <- WithAlias
  Recs <- SharedRecs
  Aliases <- AliasOfB
  NoIoc = NoIoc
  queryLimit = 3
  alwaysRetry = TRUE
  maxRetries = 1
  cleanOnStart = FALSE
  cleanOnStop = TRUE
  sweepRetries = 4
  CanCrash = FALSE
  CleanTool = FALSE
  LostReplies = FALSE
  MaxFaults = 1
  MaxCommits = 1
INVARIANTS
  TypeOK
  InSync
  Bookkeeping
  StopLeavesNoneActive
