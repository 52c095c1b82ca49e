SPECIFICATION Spec
CONSTANTS
  v1 = v1
  v2 = v2
  Versions <- OneVersion
  SizeOf <- FourBytes
  ConnectionCounts = {2}
  SidecarCheckpointBytes = 1
  MaxRetries = 0
  Faults = {"writeError"}
  NoFile = NoFile
  Hole = Hole
  Empty = Empty
  Blend = Blend
INVARIANTS
  SidecarHonest
CHECK_DEADLOCK FALSE
