CONSTANTS
  i1 = i1
  i2 = i2
  s1 = s1
  s2 = s2
  Ids = {i1, i2}
  Sids = {s1, s2}
  MaxSubs = 1
  MaxQueue = 1
SPECIFICATION WsSpec
INVARIANTS AnswersAreExpected PushesAreKnown SubsNotOvercounted
PROPERTIES SessionEnds
