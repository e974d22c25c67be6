CONSTANTS
  NStreams = 2
  Duration = 4
  Buffer = 1
  RequiredWindows = 1
  GraceLimit = 10
  StableWindows = 2
  MaxRetries = 1
  Attempts = 2
  MaxTime = 6
SPECIFICATION Spec
INVARIANTS
  TypeOK
  CreditedTimeBounded
  OneLateCount
  MeasuredIsReported
PROPERTIES
  WindowEnds
CHECK_DEADLOCK FALSE
