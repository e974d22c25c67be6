CONSTANTS
  IdleTimeout = 10
  RefreshPeriod = 2
  CloseGrace = 2
  MaxDuration = 14
  DrainTimeout = 1
  DrainLimit = 1
  ChunkSize = 3
  Window = 2
  MaxBytes = 3
SPECIFICATION Spec
INVARIANT ReadsUntilEOFOrDeadline
CHECK_DEADLOCK FALSE
