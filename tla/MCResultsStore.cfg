CONSTANTS
  Savers = {s1, s2}
  IDs = {1, 2}
  MaxResults = 1
  Retention = 3
  BusyBudget = 2
  MaxBackoff = 2
  MaxIDRetries = 2
  ConflictCodes = {"PRIMARYKEY"}
  MaxTime = 4
  MaxRestarts = 1
SPECIFICATION Spec
SYMMETRY Symmetry
INVARIANTS
  TypeOK
  RefusedStoresNothing
  CleanupBeforeClose
PROPERTIES
  NoEarlyDeletion
  OwnID
CHECK_DEADLOCK FALSE
