SPECIFICATION FairSpec
CONSTANTS
  c1 = c1
  c2 = c2
  o1 = o1
  o2 = o2
  Conns = {c1, c2}
  Owners = {o1, o2}
  Admin = Admin
  Subject <- SubjectOf
  Buffer = 1
  MaxEvents = 3
  FaultKinds = {"redis", "slow"}
  MaxFaults = 1
INVARIANTS
  TypeOK
  NoGap
PROPERTIES
  EventsMoveOn
CHECK_DEADLOCK FALSE
