CONSTANTS
  CapturedPlayers = {1, 2}
  SeenOffsets = {0}
  HeldTicks = 1
  LongestDelay = 2
  Kills = {}
  LastOffset = 1
SPECIFICATION ReplaySpec
INVARIANT LeftAsLive
CHECK_DEADLOCK FALSE
