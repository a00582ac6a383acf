CONSTANTS
  Rows = {1, 2, 3, 4, 5}
  DayOf <- MCDayOf
  FirstToday = 4
  MaxDay = 6
  PageSize = 2
  MaxPages = 2
  MayClear = TRUE
  Records = {1, 2, 3, 4, 5, 6}
  PageRows = 2
  Slots = 2
  Attempts = 2
  Fields = {"mode", "size", "time"}
  Commanded = {"mode"}
  MaxEdits = 3
  MaxRefusals = 1
SPECIFICATION MCFairSpec
INVARIANTS CheckpointIsKept LatestReachesTheCache WindowIsComplete
PROPERTIES EveryRecordArrives EveryEditEnds
CHECK_DEADLOCK FALSE
