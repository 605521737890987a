SPECIFICATION ForegroundSpec
CONSTANTS
  t1 = t1
  t2 = t2
  a = a
  b = b
  p = p
  q = q
  Tui = {t1, t2}
  Name = {p, q}
  Account = {a, b}
  Default = p
  None = None
  MaxJobs = 2
  MaxHitches = 1
  Patient = TRUE
  p1 = p1
  p2 = p2
  c1 = c1
  c2 = c2
  c3 = c3
  claude = claude
  prompt = prompt
  Pid = {p1, p2}
  Key = {claude, prompt}
  Call = {c1, c2, c3}
  NoPid = NoPid
  Detached = {prompt}
  s1 = s1
  s2 = s2
  Session = {s1, s2}
  NumCreds = 2
  Base = Base
  Missing = Missing
  Nobody = Nobody
  MaxTroubles = 2
  OrphanTtl = 1
  UnknownTtl = 2
  MaxTime = 3
  MaxStart = 0
  MaxMishaps = 2
  MaxShifts = 2
  MaxRewrites = 2
  MaxRefusals = 1
CHECK_DEADLOCK FALSE
INVARIANTS
  ForegroundTypeOK ProfilesWellNamed LoginsKept
  CleanupExact
  ProfileRecords SessionRecords
  StartIsolated SessionHolds StartAllOrNothing
PROPERTIES
  UndoneByOverlap
  ImplementsAtomicRecapture WritesUnderLock
  LiveSessionsSpared OrphansReaped
