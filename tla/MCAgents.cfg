CONSTANTS
  Peers = {p1, p2, p3}
  PlayerCount = 2
  PauseTicks = 1
  Requests = {{}}
  MaxMatches = 1
  MaxDepartures = 1
  MaxFailures = 0
  BurstTicks = 2
  ReleaseTicks = 2
  StuckTicks = 2
  FarthestPoint = 1
  MaxIntents = 2
  MaxPlayed = 2
  Captures <- SomeCaptures
  Delay = 1
  HeldTicks = 1
  MaxCommandsQueued = 2
  Tells <- SomeTells
  LastTick = 7
  MaxLost = 1
  MaxSent = 4
  Packs <- AllPacks
  Cooked <- CookedWith
  PlaysAs = "soldier"
  Cues <- AllCues
  NamesInOrder <- AllNames
  MaxPlayers = 4
  MaxRecoilKicks = 2
  Floor <- MCFloor
  Ceiling <- MCCeiling
  Spawns = {0, 4}
  Height <- MCHeight
  Durations <- MCDurations
  Clips <- MCClips
  Presses <- MCPresses
  StrideSteps = 8
  ProgressSteps = 8
  Ratios = 8
  AirSpeed = 2
  MaxPitch = 2
  MaxSpeed = 2
  WalkSpeed = 1
  SprintSpeed = 2
  CrouchSpeed = 1
  ProneSpeed = 1
  Fall = 1
  FullStamina = 3
  Depletes = 3
  Regains = 1
  ForcedWalkBelow = 1
  MaxUnanswered = 2
  MaxTicks = 4
  MaxLostCommands = 1
  MaxLives = 2
  MaxRuns = 2
  MaxAtOnce = 2
  MaxRefusals = 1
  KeptRuns = 1
  Frames = 1
SYMMETRY Symmetry
SPECIFICATION AgentsSpec
INVARIANTS
  MatchInv
  LobbyInv
  IntentsInv
  ReenactInv
  ContentInv
  BodyInv
  RunFilesInv
CHECK_DEADLOCK FALSE
