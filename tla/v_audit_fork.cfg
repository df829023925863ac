SPECIFICATION Spec
CONSTANTS
  Notifs = {n1}
  None = None
  MaxOutbox = 3
  StuckAfter = 3
  Admins = {a1, a2}
  MaxAudit = 2
  Schedulers = {s1, s2}
  SchedBatch = 1
  MaxLife = 1
  MaxFaults = 1
  FaultKinds = {"crash", "db"}
CHECK_DEADLOCK FALSE
INVARIANT
  ChainIntact
