SPECIFICATION CaptureSpec
CONSTANTS
  NoFile = NoFile
  Last = 3
  MaxCaptures = 2
  MaxFaults = 0
  MaxKills = 2
CHECK_DEADLOCK FALSE
INVARIANT Recoverable
