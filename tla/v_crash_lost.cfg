SPECIFICATION Spec
CONSTANTS
  Notifs = {n1}
  None = None
  Workers = {w1, w2}
  Dispatchers = {d1}
  MaxOutbox = 3
  StuckAfter = 3
  MaxRedeliveries = 2
  MaxAttempts = 2
  HandleTimeout = 1
  LockTTL = 2
  BatchSize = 2
  OutboxMaxAttempts = 2
  MaxFaults = 1
  FaultKinds = {"crash"}
INVARIANT
  NotLost
SYMMETRY WorkerSymmetry
CHECK_DEADLOCK FALSE
