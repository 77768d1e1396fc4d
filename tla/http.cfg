CONSTANTS
  Requests = {r1, r2}
  Flaky = {1}
  Erring = {1}
  RedisMayFail = FALSE
  Leaving = {r1}
  Paid = {r1}
  Weights <- TwoAndOne
  UnhealthyThreshold = 1
  HealthyThreshold = 1
  MaxBatch = 1
SPECIFICATION Spec
INVARIANTS EventsNameTheServer StatsMatchEvents QuotaMatchesEvents VerdictsDeserved EvictionsExplained
PROPERTIES EveryRequestAnswered
CHECK_DEADLOCK FALSE
