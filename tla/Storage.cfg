SPECIFICATION StorageSpec
CONSTANTS
  p1 = p1
  p2 = p2
  p3 = p3
  Proc = {p1, p2, p3}
  NoInfo = NoInfo
  MaxRounds = 2
  IOFailures = TRUE
  PidReuse = TRUE
  NoFile = NoFile
  Last = 3
  MaxCaptures = 2
  MaxFaults = 2
  MaxKills = 2
CHECK_DEADLOCK FALSE
INVARIANTS StorageTypeOK LeaseIntact CommitRecoverable OutcomeTruthful NeverSplit
PROPERTIES ReachesCommit ImplementsAbstractProfile
