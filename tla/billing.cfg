CONSTANTS
  c1 = c1
  c2 = c2
  c3 = c3
  c4 = c4
  e1 = e1
  e2 = e2
  e3 = e3
  day = day
  Calls = {c1, c2, c3, c4}
  Events = {e1, e2, e3}
  Accounts = {day}
  Billable = {e1, e2}
  EventOf <- RepeatedDelivery
  AccountOf <- OneAccount
  Units <- PowersOfTwo
SPECIFICATION Spec
INVARIANTS UsageMatchesEvents NothingLostSilently
PROPERTIES ChargesSpec
CHECK_DEADLOCK FALSE
