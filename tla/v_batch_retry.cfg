SPECIFICATION Spec
CONSTANTS
  NumRequests = 2
  Owners = {o1, o2}
  IdemKeys = {k1}
  NoKey = NoKey
  Headers = {k1}
  Asks = {"plain", "batch"}
  Passing = {1}
  Author = o1
  Admins = {}
  SchedulerEnabled = TRUE
  MaxBatch = 1
  MaxVersion = 2
  MaxCancels = 0
  FaultKinds = {}
  MaxFaults = 0
INVARIANT RetryContract
CHECK_DEADLOCK FALSE
