CONSTANTS
  Peers = {p1, p2}
  PlayerCount = 2
  PauseTicks = 2
  Requests <- MCRequests
  MaxMatches = 2
  MaxDepartures = 2
  MaxFailures = 1
  MaxHistory = 2
  Tolerance = 2
  Wall = 3
  Magazine = 1
  LastSequence = 3
  MaxAnswers = 2
  MaxStarts = 2
  LastCountedTick = 4
  StoryLength = 5
  Reporters = {"network", "simulation"}
  QueueCapacity = 2
  MaxMessages = 4
SPECIFICATION HostRunsSpec
INVARIANTS
  HostInv
  PredictionInv
  LinkInv
  PcapngInv
PROPERTIES
  CaptureTellsEveryDeparture
  FullLobbyStarts
CHECK_DEADLOCK FALSE
