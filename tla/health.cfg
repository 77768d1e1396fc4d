CONSTANTS
  r1 = r1
  r2 = r2
  Reporters = {r1, r2}
  Prober = r1
  UnhealthyThreshold = 2
  HealthyThreshold = 2
  MaxInt32 = 3
SPECIFICATION Spec
INVARIANTS TypeOK Agreement
PROPERTIES BreakerSpec DownIsEvicted UpIsRestored
