CONSTANTS
  Reporters = {"network", "simulation"}
  QueueCapacity = 1
  MaxMessages = 4
SPECIFICATION PcapngSpec
INVARIANT NothingAfterADrop
CHECK_DEADLOCK FALSE
