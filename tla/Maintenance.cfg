CONSTANTS
  r1 = r1  r2 = r2  r3 = r3
  Repos = {r1, r2}
  Rank <- Ranks
  None = None
  MaxBytes = 1
  MaxNow = 1
  Window = 1
  Ages = {1}
  Budgets = {2}
  Stored = 1
SPECIFICATION Spec
INVARIANTS BudgetMetOrSaid DeleteFreesWhatItSays
PROPERTIES NoneInPlaceOfAnOlder RunningDownloadsSpared BehindLinksKept
CONSTRAINT OneOfEach
CHECK_DEADLOCK FALSE
VIEW Relevant
