SPECIFICATION Spec
CONSTANTS
  t1 = t1
  t2 = t2
  t3 = t3
  main = main
  quick = quick
  h1 = h1
  NoTurn = NoTurn
  Turn = {t1, t2}
  Thread = {h1}
  Window = {main, quick}
  ThreadOf <- MCThreadOf
  WindowOf <- MCWindowOf
  MaxCrashes = 1
INVARIANTS
  RowsSettle
  FinishedOnce
  HandlesAreLive
  CancelledOnPurpose
PROPERTIES
  StopEndsTheTurn
CHECK_DEADLOCK FALSE
