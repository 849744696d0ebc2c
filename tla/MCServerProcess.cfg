CONSTANTS
  Workers = {"network", "simulation"}
  Failures = {"transport", "invariant", "capture", "thrown", "creation"}
  NoFailure = "none"
  Modes = {"optional", "strict"}
  Capacity = 2
  Entrants = 1
  MaxMatches = 2
  MaxRecords = 3
  MaxFaults = 2
  Peers = {p1}
  Threshold = 2
  Window = 2
  AdmissionDeadline = 3
  Purges = {TRUE, FALSE}
  Kinds <- AllKinds
  MaxSaid = 3
  MaxNow = 4
  Roles = {"player", "viewer"}
  Launches <- SomeLaunches
  Controls = {"move_forward", "fire", "sprint"}
  Keys = {"W", "MouseLeft", "LeftShift", "Space", "F1", "Escape"}
  DefaultKeymap <- SomeKeymap
  NumberOf <- SomeNumbers
  BoundKeys = {"R", "M"}
  Buttons = {"M"}
  ReloadKey = "R"
  Positions = {0, 1}
  Turn = 2
  MaxBatch = 2
SPECIFICATION ProcessSpec
INVARIANTS
  SupervisorInv
  RuntimeInv
  CaptureInv
  ConnectionsInv
  SessionInv
  SettingsInv
  InputInv
PROPERTIES
  KeepsPromise
  FailureEnds
  FirstLossKept
  FinishReturns
  NobodyIdles
  DeparturesAreTold
  RunEnds
CHECK_DEADLOCK FALSE
