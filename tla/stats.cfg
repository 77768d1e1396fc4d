CONSTANTS
  Recorders = {r1, r2}
  Viewer = v
  Tokens = {"t1", "t2"}
  Chains = {"eth"}
  FreeTokens = {"t2"}
  Listed = {"t1"}
  Tracked = {"Requests", "AuthFailed", "SuccessCalls", "BillableCalls", "FreeCalls"}
  OkCalls = {0, 2}
  ErrCalls = {1}
  BillUnits = 3
  MaxOps = 2
SPECIFICATION StatsSpec
INVARIANTS TotalsCoverTokens CountsAgreeAtRest
