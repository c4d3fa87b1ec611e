SPECIFICATION Spec
CONSTANTS
  Sessions = {"s1", "s2"}
  iocid <- OnePort
  Names <- WithAlias
  Recs <- SharedRecs
  Aliases <- AliasOfB
  NoIoc = NoIoc
  queryLimit = 1
  alwaysRetry = FALSE
  maxRetries = 1
  cleanOnStart = FALSE
  cleanOnStop = TRUE
  sweepRetries = 4
  CanCrash = FALSE
  CleanTool = TRUE
  LostReplies = TRUE
  MaxFaults = 2
  MaxCommits = 1
INVARIANTS
  ListedOnce
  StopLeavesNoneActive
