CONSTANTS
  Callers = {c1}
  IPs = {a, b, c}
  RateLimitPerIP = 2
  GlobalRateLimit = 4
  MaxIPEntries = 2
  Minute = 4
  Second = 2
  CleanupInterval = 4
  IPLimitTTL = 8
  MaxTime = 13
SPECIFICATION Spec
SYMMETRY Symmetry
INVARIANT TypeOK
PROPERTIES
  ImplementsBuckets
  FullTableIsRecent
