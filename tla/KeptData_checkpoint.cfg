CONSTANTS
  Rows = {1, 2, 3, 4, 5}
  DayOf <- MCDayOf
  FirstToday = 4
  MaxDay = 6
  PageSize = 2
  MaxPages = 2
  MayClear = FALSE
  Records = {1, 2, 3, 4, 5, 6}
  PageRows = 2
  Slots = 2
  Attempts = 2
  Fields = {"mode", "size", "time"}
  Commanded = {"mode"}
  MaxEdits = 0
  MaxRefusals = 0
SPECIFICATION MCSpec
CHECK_DEADLOCK FALSE
INVARIANT CheckpointIsTrue
