SPECIFICATION FairSpec
CONSTANTS
  Notifs = {n1}
  None = None
  MaxOutbox = 3
  StuckAfter = 3
  Admins = {a1, a2}
  MaxAudit = 2
  Schedulers = {s1, s2}
  SchedBatch = 1
  MaxLife = 1
  MaxFaults = 1
  FaultKinds = {"crash", "db"}
INVARIANTS
  ControlTypeOK
  ScheduledHasTimer
  ReleasedOnce
  ListedIsReplayable
  BrokenOnlyByLateCommit
PROPERTIES
  RevivedOnlyByReplayRace
  DueIsWorkedOff
CHECK_DEADLOCK FALSE
