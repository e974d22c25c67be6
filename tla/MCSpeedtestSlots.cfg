CONSTANTS
  Requests = {r1, r2, r3, r4}
  IPs = {a, b}
  MaxConcurrent = 3
  MaxConcurrentPerIP = 2
SPECIFICATION Spec
SYMMETRY Symmetry
INVARIANTS
  TypeOK
  CounterLedger
  PerIPLedger
  NoStaleEntry
PROPERTY ImplementsAdmission
