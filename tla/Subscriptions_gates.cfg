CONSTANTS
  Windows = {"daily"}
  Periods = {p1}
  Evaluations = {x1, x2}
  None = None
  MaxEvents = 2
  MaxRevision = 1
  MaxMishaps = 1
  g1 = g1
  g2 = g2
  g3 = g3
  Actors = {a1, a2}
  Groups = {g1, g2, g3}
  Settings <- MCSettings
  Quotas <- MCQuotas
  MaxSaves = 1
  MaxChanges = 1
  MaxFailures = 1
  Nothing = Nothing
  Elsewhere = Elsewhere
SPECIFICATION MCFairSpec
INVARIANTS AnnouncementsAreKept ShownOncePerMishap SettingsAreTheUsers
PROPERTIES AnnouncedOnce ShownWhileWanted EveryEventEnds KeyComesToRest RuleTellsTheKey
CHECK_DEADLOCK FALSE
