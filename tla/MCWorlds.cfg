CONSTANTS
  p1 = p1
  p2 = p2
  Players = {p1, p2}
  Half = 2
  MaxDelay = 3
  Magazine = 2
  FirePeriod = 5
  ReloadTime = 5
  StartingHealth = 2
  Damage <- DamageOfParts
  MaxFlightSteps = 2
  MaxTicks = 4
  MaxMatches = 2
  CapturedPlayers = {1, 2}
  SeenOffsets <- Seen
  HeldTicks = 1
  LongestDelay = 2
  Kills <- OneKill
  LastOffset = 2
  Askers = {"v", "w"}
  Names = {"one"}
  MaxViewers = 1
  ReplayTicks = 2
  MaxAsked = 2
  MaxWrites = 1
  OldFiles <- SomeDirectories
  FileLimits = {none, 1, 2}
  ByteLimits = {none, 3, 5}
  NoLimit = none
  HeaderBytes = 2
  RecordBytes = 1
  MaxBytes = 4
  LastCaptureMatch = 2
  Cooked <- SomeAssets
  Packs <- SomePacks
  Keys = {"ours", "theirs"}
  HashSize = 1
  SignatureSize = 2
  MaxEntries = 3
  MaxPackSize = 150
  MaxDamages = 1
  MaxCooks = 2
  MaxPathLength = 3
  MaxMeshPoints = 2
  MaxMeshIndices = 3
  MaxSceneNodes = 2
  MaxProperties = 1
  MaxTextureBytes = 17
  MaxScriptBytes = 2
  MaxAudioBytes = 4
  MaxCueVariants = 2
  MaxArchiveBytes = 2
  MaxJoints = 2
  MaxCharacters = 2
  Capacity = 2
  Carried = 2
  MaxHeld = 1
  Malformed = {3}
  MaxSequence = 5
  MaxServerTicks = 3
  MaxPlayedMatches = 2
  Own = "own"
  Others = {"a"}
  RecentStatesKept = 2
  PendingKept = 2
  UpdatesKept = 3
  InterpolationDelay = 1
  ResyncThreshold = 1
  LastTick = 3
  LastMatch = 2
  LastShot = 1
  LoadLimit = 3
  HookLimit = 4
  ViewCost = 1
  MemoryLimit = 1
  MaxDepth = 2
  MaxViews = 2
  MaxClosings = 2
  SpawnPoints = 2
  Rosters <- SomeRosters
  Objects <- SomeObjects
  Writable <- AnyRecords
  PayloadSize <- PayloadSizes
  MaxFramePayload = 2
  MaxWritten = 4
SPECIFICATION WorldsSpec
INVARIANTS
  SimulationInv
  JudgedWhereSeen
  NeverFasterThanItsRate
  ReplayedAsLive
  ReplayServerInv
  RetentionInv
  AssetsInv
  DeliveryInv
  ViewInv
  EventsInv
  PolicyInv
  ReadsWhatWasWritten
PROPERTY FinalForTheMatch
CHECK_DEADLOCK FALSE
