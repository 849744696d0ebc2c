CONSTANTS
  Peers = {p1}
  Threshold = 2
  Window = 2
  AdmissionDeadline = 2
  Purges = {TRUE, FALSE}
  Kinds = {"Join", "Commands"}
  MaxSaid = 2
  MaxNow = 2
SPECIFICATION ConnectionsSpec
INVARIANT HonestNeverMisbehaves
CHECK_DEADLOCK FALSE
