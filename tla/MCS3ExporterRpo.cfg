SPECIFICATION Spec
CONSTANTS
  r1 = r1
  r2 = r2
  r3 = r3
  Rows <- MCRows
  RowDay <- MCRowDay
  RowHour <- MCRowHour
  HoursPerDay = 2
  RunHour = 1
  TtlDays = 2
  LastDay = 3
INVARIANT RpoOneDay
