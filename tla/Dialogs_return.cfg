SPECIFICATION DialogsSpec
CONSTANTS
  t1 = t1
  t2 = t2
  a = a
  b = b
  p = p
  q = q
  Tui = {t1, t2}
  Name = {p, q}
  Account = {a, b}
  Default = p
  None = None
  MaxJobs = 3
  MaxHitches = 0
  Patient = TRUE
CHECK_DEADLOCK FALSE
INVARIANT DiscardsWhatWasShown
