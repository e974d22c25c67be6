CONSTANTS
  MaxRuns = 2
  MaxShares = 2
  MaxCopies = 1
  MaxChecks = 1
SPECIFICATION FairSpec
PROPERTIES
  RunEnds
  ShareSettles
CHECK_DEADLOCK FALSE
