SPECIFICATION ListingSpec
CONSTANTS
  NumRequests = 2
  Owners = {o1, o2}
  IdemKeys = {}
  NoKey = NoKey
  Headers = {NoKey}
  Asks = {"plain", "batch"}
  Passing = {0, 1}
  Author = o1
  Admins = {}
  Reader = o1
  SchedulerEnabled = FALSE
  MaxBatch = 3
  MaxVersion = 1
  MaxCancels = 0
  PageSize = 2
  FaultKinds = {"db"}
  MaxFaults = 0
INVARIANTS
  WalkIsExact
  BatchIsWhole
CHECK_DEADLOCK FALSE
