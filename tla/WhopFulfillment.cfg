SPECIFICATION Spec
CONSTANTS
  e1 = e1
  e2 = e2
  e3 = e3
  p1 = p1
  p2 = p2
  Payments = {p1, p2}
  Webhooks = {e1, e2, e3}
  Contents <- MCContents
  Workers = {k1, k2}
  None = None
  EarlyLimit = 1
  MaxAttempts = 2
  MaxFaults = 1
INVARIANTS GrantIsBacked EarlyAllocation
PROPERTIES ReversalTakesEffect
CHECK_DEADLOCK FALSE
SYMMETRY Symmetry
