CONSTANTS
  Instances = {a, b}
  Jtis = {1, 2, 3}
  TTL = 2
  Every = 1
  CleanupRetention = 1
  OnStart = TRUE
  RevokePrevious = TRUE
  MaxCrashes = 1
SPECIFICATION Spec
INVARIANTS OneTokenPerInstance SomeTokenValid
PROPERTIES ValidUntilRevoked AccessReturns
