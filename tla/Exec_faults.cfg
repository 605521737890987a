SPECIFICATION ExecSpec
CONSTANTS
  work = work
  home = home
  alice = alice
  bob = bob
  Profile = {work, home}
  Account = {alice, bob}
  NoProfile = NoProfile
  NumSources = 2
  MaxGen = 2
  MaxFaults = 2
  MaxKills = 1
  PointerFaults = TRUE
CHECK_DEADLOCK FALSE
CONSTRAINT Bounded
SYMMETRY Symmetry
INVARIANTS ExecTypeOK LoginsSurvive 
PROPERTIES SnapshotKeepsAccount RestoreAllOrNothing ExecComesBack
