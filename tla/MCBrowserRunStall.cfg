CONSTANTS
  MaxRuns = 2
  MaxShares = 2
  MaxCopies = 1
  MaxChecks = 1
SPECIFICATION SettlingSpec
PROPERTIES
  RunEnds
CHECK_DEADLOCK FALSE
