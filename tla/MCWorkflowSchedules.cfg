SPECIFICATION Spec
CONSTANTS
  DayLen = 2
  Horizon = 4
  LastHour = 2
  None = None
  NoRow = NoRow
  Offset <- MCOffset
  Slug = {w}
  Client = {c1, c2}
  Trigger <- Both
  ByHand = {w}
  OnDemand = {w}
  MaxCrashes = 1
SYMMETRY Symmetry
INVARIANTS
  NoStaleFiring
PROPERTY
  CatchUpOnce
