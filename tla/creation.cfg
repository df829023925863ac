SPECIFICATION Spec
CONSTANTS
  NumRequests = 2
  Owners = {o1, o2, o3}
  IdemKeys = {k1}
  NoKey = NoKey
  Headers = {k1}
  Asks = {"plain", "later", "templated"}
  Passing = {1}
  Author = o1
  Admins = {o2}
  SchedulerEnabled = TRUE
  MaxBatch = 1
  MaxVersion = 2
  MaxCancels = 1
  FaultKinds = {"crash", "db", "redis"}
  MaxFaults = 1
INVARIANTS
  TypeOK
  AnswersAgree
  AnsweredIsStored
  RetryReplays
  ClaimHasHolder
CHECK_DEADLOCK FALSE
