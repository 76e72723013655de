SPECIFICATION FairSpec
CONSTANTS
  Client = {c1}
  MaxStarts = 2
  MaxPauses = 2
  MaxOverlaps = 1
  MaxCrashes = 1
INVARIANTS
  StoppedIsQuiet
  RunningIsCapturing
  PauseIsWhole
PROPERTY
  PauseEnds
