SPECIFICATION Spec
CONSTANTS
  Requests = {r1, r2}
  Keys = {k1, k2}
  Bearers = {b1}
  None = None
  CacheTTL = 1
  RevokedTTL = 3
  Window = 2
  Limit = 1
  ReqTimeout = 1
  FaultKinds = {"redis", "db"}
  MaxFaults = 1
INVARIANTS
  RevokedStaysOut
  FailureBudget
  CounterExpires
  LockEnds
PROPERTIES
  RevokedExpires
SYMMETRY Symmetry
