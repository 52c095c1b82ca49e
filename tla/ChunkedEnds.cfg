SPECIFICATION FairSpec
CONSTANTS
  v1 = v1
  v2 = v2
  Versions <- OneVersion
  SizeOf <- TwoBytes
  ConnectionCounts = {1, 2}
  SidecarCheckpointBytes = 1
  MaxRetries = 1
  Faults = {"writeError", "lostWrite"}
  NoFile = NoFile
  Hole = Hole
  Empty = Empty
  Blend = Blend
PROPERTIES
  SessionEnds
CHECK_DEADLOCK FALSE
