SPECIFICATION PeekSpec
\* A peek that has ended does nothing more.
CHECK_DEADLOCK FALSE
CONSTANTS
  empty = empty
  short = short
  full = full
  long = long
  NoVersion = NoVersion
  Versions <- AroundTheCap
  SizeOf <- Lengths
  MaxOffset = 17
  TailPrefetch = 1
  ReadAhead = 1
  MaxReadAhead = 4
  ReadChunk = 2
  TailScanChunk = 1
  TransferFloor = 4
  RequestFloor = 2
  RequestSlack = 4
  Limits <- AllLimits
  EtagOptional = FALSE
  Deltas = {}
  Buffers = {1, 2, 3}
  Caps = {3, 8, 18}
  Counts = {1, 2, 10}
  MaxBreaks = 3
INVARIANTS
  ShowsWhatWasAsked
  BudgetsSuffice
PROPERTIES
  PeekEnds
