SPECIFICATION FairSpec
CONSTANTS
  Notifs = {n1}
  None = None
  Workers = {w1}
  Dispatchers = {d1}
  MaxOutbox = 3
  StuckAfter = 3
  MaxRedeliveries = 2
  MaxAttempts = 2
  HandleTimeout = 1
  LockTTL = 2
  BatchSize = 2
  OutboxMaxAttempts = 2
  MaxFaults = 1
  FaultKinds = {"db", "redis", "publish", "slow", "shutdown", "provider", "conn"}
INVARIANTS
  NotLost
PROPERTIES
  EventuallySettled
CHECK_DEADLOCK FALSE
