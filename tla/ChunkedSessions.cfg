SPECIFICATION Spec
CONSTANTS
  v1 = v1
  v2 = v2
  Versions <- TwoVersions
  SizeOf <- TwoLengths
  ConnectionCounts = {1, 2}
  SidecarCheckpointBytes = 1
  MaxRetries = 1
  Faults = {"saveError"}
  NoFile = NoFile
  Hole = Hole
  Empty = Empty
  Blend = Blend
INVARIANTS
  TypeOK
  SidecarHonest
  BlobIntact
PROPERTIES
  CompletedNeverFallsBack
  PublishesInOrder
CONSTRAINT OneAtATime
CHECK_DEADLOCK FALSE
