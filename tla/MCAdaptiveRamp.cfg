CONSTANTS
  MinStreams = 1
  MaxStreams = 64
  Http1MaxStreams = 6
  GainThreshold = 8
  RampPortion = 45
  NotANumber = NotANumber
  Params <- MCParams
  Speeds = {0, 100, 104, 120, 150}
SPECIFICATION Spec
INVARIANTS
  TypeOK
  MeasuresBest
  RampStopsForAReason
PROPERTIES
  ImplementsDirection
CHECK_DEADLOCK FALSE
