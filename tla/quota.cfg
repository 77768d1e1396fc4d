CONSTANTS
  r1 = r1
  r2 = r2
  ip1 = ip1
  Requests = {r1, r2}
  Ips = {ip1}
  IpOf <- OneIp
  DailyQuota = 1
  MaxBatch = 1
  PushUnits = 2
  TokenRps = 1
  TokenBurst = 1
  IpRps = 1
  IpBurst = 1
  RedisMayFail = TRUE
  MaxDay = 1
  MaxUsed = 3
SPECIFICATION Spec
INVARIANTS OvershootBounded
