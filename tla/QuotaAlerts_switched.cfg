CONSTANTS
  Windows = {"daily"}
  Periods = {p1, p2}
  Evaluations = {x1, x2}
  None = None
  MaxEvents = 2
  MaxRevision = 1
  MaxMishaps = 1
SPECIFICATION Spec
PROPERTY OnlyHeldIsShown
CHECK_DEADLOCK FALSE
