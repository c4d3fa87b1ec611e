SPECIFICATION FairSpec
CONSTANTS
  Sessions = {"s1", "s2"}
  iocid <- Ports
  Names <- OneName
  Recs <- SharedRecs
  Aliases <- NoAliases
  NoIoc = NoIoc
  queryLimit = 3
  alwaysRetry = TRUE
  maxRetries = 1
  cleanOnStart = TRUE
  cleanOnStop = TRUE
  sweepRetries = 4
  CanCrash = TRUE
  CleanTool = FALSE
  LostReplies = FALSE
  MaxFaults = 1
  MaxCommits = 2
PROPERTIES
  StaleGoes
  CommitsEnd
