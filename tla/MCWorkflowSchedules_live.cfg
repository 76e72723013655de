SPECIFICATION FairSpec
CONSTANTS
  DayLen = 2
  Horizon = 7
  LastHour = 3
  None = None
  NoRow = NoRow
  Offset <- MCOffset
  Slug = {w, v}
  Client = {c1}
  Trigger <- Nightly
  ByHand = {}
  OnDemand = {}
  MaxCrashes = 1
PROPERTIES
  DueIsPulled
  PulledIsHandled
