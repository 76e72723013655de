SPECIFICATION FSpec
CONSTANTS
  DayLen = 4
  Horizon = 180
  Span = 130
  None = None
  Offset <- MCOffset
  Calendar <- MCCalendar
INVARIANTS
  FiresAtFirstOccurrence
  DailyNeverStops
CHECK_DEADLOCK FALSE
