CONSTANTS
  c1 = c1
  c2 = c2
  Callers = {c1, c2}
  MaxAhead = 1
  MaxBehind = 1
  Rps = 2
  Burst = 5
  TicksPerSec = 3
  MaxClock = 12
SPECIFICATION Spec
INVARIANTS TypeOK
PROPERTIES BucketSpec
