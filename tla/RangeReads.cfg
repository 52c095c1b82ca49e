SPECIFICATION Spec
CONSTANTS
  v1 = v1
  v2 = v2
  v3 = v3
  NoVersion = NoVersion
  Versions <- ThreeVersions
  SizeOf <- Sizes
  TailPrefetch = 2
  ReadAhead = 1
  MaxReadAhead = 3
  Limits <- OneBudget
  EtagOptional = TRUE
  Buffers = {0, 1, 2}
  Deltas <- SomeDeltas
  MaxOffset = 7
INVARIANTS
  TypeOK
  OneFile
  AlwaysCovered
PROPERTIES
  TailPaidOnce
  GrowthNeverOverruns
  ReadsLikeAFile
