CONSTANTS
  Modes = {"strict"}
  Capacity = 2
  Entrants = 1
  MaxMatches = 2
  MaxRecords = 2
  MaxFaults = 1
SPECIFICATION CaptureSpec
INVARIANT CompletedIsWhole
CHECK_DEADLOCK FALSE
