CONSTANTS
  h1 = h1
  h2 = h2
  h3 = h3
  h4 = h4
  t1 = t1
  t2 = t2
  Handlers = {h1, h2, h3, h4}
  Tokens = {t1, t2}
  TokenOf <- ThreeOfFirst
  MaxConns = 2
SPECIFICATION SessionsSpec
INVARIANTS SlotsAccounted ConnectionsBounded
PROPERTIES CacheFollowsDatabase DisabledTokenShutOut
