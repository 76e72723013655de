SPECIFICATION Spec
CONSTANTS
  Screen <- MCScreen
  Excluded <- MCExcluded
  SaveEvery = 2
  KeepFor = 0
  MaxSessions = 2
  MaxFrames = 2
  MaxRemovals = 1
  MaxCrashes = 1
CHECK_DEADLOCK FALSE
INVARIANTS
  ShotsAreListed
  ShotsAreOwn
  RowsHaveShots
  WritersKeepTheirSession
