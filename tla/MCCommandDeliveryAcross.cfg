CONSTANTS
  Capacity = 2
  Carried = 2
  MaxHeld = 1
  Malformed = {}
  MaxSequence = 2
  MaxServerTicks = 3
  MaxPlayedMatches = 2
SPECIFICATION Spec
INVARIANT NothingOfTheLastMatch
CHECK_DEADLOCK FALSE
