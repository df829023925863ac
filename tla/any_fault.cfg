SPECIFICATION Spec
CONSTANTS
  Notifs = {n1}
  None = None
  Workers = {w1, w2}
  Dispatchers = {d1}
  MaxOutbox = 2
  StuckAfter = 3
  MaxRedeliveries = 2
  MaxAttempts = 1
  HandleTimeout = 1
  LockTTL = 2
  BatchSize = 2
  OutboxMaxAttempts = 1
  MaxFaults = 2
  FaultKinds = {"crash", "conn", "shutdown", "slow", "db", "redis", "unlock", "publish", "provider"}
INVARIANTS
  NoConcurrentSend
  SoleOwner
  SweepSafe
  CallsWithinBudget
  AttemptsUnique
  LossesExplained
  RepeatsCostFaults
  IInv
PROPERTIES
  ImplementsLifecycle
SYMMETRY WorkerSymmetry
CHECK_DEADLOCK FALSE
