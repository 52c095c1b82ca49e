SPECIFICATION FairSpec
CONSTANTS
  FileCounts <- UpToThreeFiles
  Limits <- OneOrTwo
  Deadlines = {"ahead"}
  Faults = {"listingStalls", "directStalls", "panics"}
INVARIANTS
  TypeOK
  PermitsConserved
  AnswerIsWhole
  DeadlineIsNeverPartial
PROPERTY BatchEnds
CHECK_DEADLOCK FALSE
