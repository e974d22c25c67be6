CONSTANTS
  Savers = {s1}
  IDs = {1}
  MaxResults = 1
  Retention = 3
  BusyBudget = 2
  MaxBackoff = 2
  MaxIDRetries = 2
  ConflictCodes = {"PRIMARYKEY"}
  MaxTime = 5
  MaxRestarts = 1
SPECIFICATION FairSpec
PROPERTIES
  SaveTerminates
  ExpiredPurged
  ShutdownCompletes
CHECK_DEADLOCK FALSE
