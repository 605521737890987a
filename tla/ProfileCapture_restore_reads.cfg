SPECIFICATION CaptureSpec
CONSTANTS
  NoFile = NoFile
  Last = 3
  MaxCaptures = 2
  MaxFaults = 0
  MaxKills = 1
CHECK_DEADLOCK FALSE
INVARIANT ReadersSeeWholeSet
