SPECIFICATION BoundedSpec
CONSTANTS
  p1 = p1
  p2 = p2
  p3 = p3
  Proc = {p1, p2, p3}
  NoInfo = NoInfo
  MaxRounds = 1
  IOFailures = TRUE
  PidReuse = TRUE
CHECK_DEADLOCK FALSE
INVARIANTS TypeOK IInv ExclusiveUntilStray LeaseIntact
PROPERTIES WarnsBeforeDrop ImplementsAbstractLock OrphanRecovered
