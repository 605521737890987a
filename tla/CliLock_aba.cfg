SPECIFICATION Spec
CONSTANTS
  p1 = p1
  p2 = p2
  p3 = p3
  Proc = {p1, p2, p3}
  NoInfo = NoInfo
  MaxRounds = 1
  IOFailures = FALSE
  PidReuse = FALSE
CHECK_DEADLOCK FALSE
INVARIANT MutualExclusion
