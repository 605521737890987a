SPECIFICATION DirSpec
CONSTANTS
  old = old
  new = new
  Tree = {old, new}
  MaxWrites = 2
  MaxFailures = 1
  MaxDeaths = 1
CHECK_DEADLOCK FALSE
INVARIANT TreeKept
