SPECIFICATION Spec
CONSTANTS
  Sessions = {"s1"}
  iocid <- Ports
  Names <- TwoNames
  Recs <- SharedRecs
  Aliases <- NoAliases
  NoIoc = NoIoc
  queryLimit = 3
  alwaysRetry = FALSE
  maxRetries = 1
  cleanOnStart = FALSE
  cleanOnStop = TRUE
  sweepRetries = 4
  CanCrash = FALSE
  CleanTool = FALSE
  LostReplies = FALSE
  MaxFaults = 1
  MaxCommits = 1
INVARIANTS
  EvictedStartsOver
