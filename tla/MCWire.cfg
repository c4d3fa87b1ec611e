SPECIFICATION Spec
CONSTANTS
  Plan <- TwoRecords
  KeyLens = {1, 2, 3}
  ValLens = {1, 3}
  KeyMod = 2
  ValMod = 3
  MaxOdd = 2
CHECK_DEADLOCK FALSE
INVARIANTS
  DecodedIsSent
  DoneMeansAll
