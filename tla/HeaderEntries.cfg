SPECIFICATION Spec
CONSTANTS
  v1 = v1
  v2 = v2
  NoVersion = NoVersion
  Versions <- TwoVersions
  SizeOf <- SameSize
  Revisions = {"main", "pinned"}
  Movable = {"main"}
  Inspectors <- TwoInspectors
  i1 = i1
  i2 = i2
  NoRevision = NoRevision
  Window = 1
  MaxTime = 1
  EtagsRecur = FALSE
  NoEntry = NoEntry
  Torn = Torn
SYMMETRY Alike
PROPERTIES
  HeaderIsOfItsTime
  LeavesNoneBehind
