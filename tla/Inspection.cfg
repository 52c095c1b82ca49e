SPECIFICATION InspectionSpec
CONSTANTS
  t = t
  u = u
  f16 = f16
  f32 = f32
  Diffs <- AllDiffs
  Searches <- AllSearches
  Inspects <- AllInspects
  Index <- MCIndex
  MaxEdgeOutliers = 3
  Devices = {10, 60, 120, NoDevice}
  NoDevice = NoDevice
  NoEstimate = NoEstimate
  AsTree <- TreeReport
  Permits = 2
  NoFilter = NoFilter
  Nothing = Nothing
INVARIANTS
  DiffIsOfTheContents
  VerdictsAreTheRows
  ReportStandsForTensors
  FitIsOfTheModel
PROPERTY FailsFastAndQuiet
CHECK_DEADLOCK FALSE
