SPECIFICATION ExecSpec
CONSTANTS
  work = work
  home = home
  alice = alice
  bob = bob
  Profile = {work, home}
  Account = {alice, bob}
  NoProfile = NoProfile
  NumSources = 2
  MaxGen = 1
  MaxFaults = 1
  MaxKills = 0
  PointerFaults = TRUE
CHECK_DEADLOCK FALSE
INVARIANT LoginsSafe
