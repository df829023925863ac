SPECIFICATION Spec
CONSTANTS
  r1 = r1
  r2 = r2
  c1 = c1
  c2 = c2
  c3 = c3
  Replicas = {r1, r2}
  Callers = {c1, c2, c3}
  Home <- HomeOf
  Skew <- SkewOf
  Grain = 3
  Rate = 2
  Capacity = 2
  BatchSize = 2
  KeyTTL = 3
  MaxTime = 3
  MaxServed = 2
  MaxFaults = 1
  FaultKinds = {"redis", "crash"}
INVARIANTS
  ServedWithinCharge
  BucketBound
PROPERTIES
  RetrySuffices
SYMMETRY Symmetry
CHECK_DEADLOCK FALSE
