CONSTANTS
  Own = "own"
  Others = {"a", "b"}
  RecentStatesKept = 5
  PendingKept = 2
  UpdatesKept = 3
  InterpolationDelay = 1
  ResyncThreshold = 1
  LastTick = 4
  LastMatch = 1
  LastShot = 0
SPECIFICATION ViewSpec
INVARIANT DeadAreNeverShown
CHECK_DEADLOCK FALSE
