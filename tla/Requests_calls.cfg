CONSTANTS
  Requests = {p1, p2, q1}
  UsagePages = {p1, p2}
  Urgent = {q1}
  MaxInFlight = 2
  MaxUsage = 1
  MayStall = TRUE
  Callers = {r1, r2}
  MaxExpiries = 1
  MaxLogins = 1
  MaxMishaps = 1
SPECIFICATION MCFairSpec
INVARIANTS BudgetKept EffectOnce
PROPERTIES EveryCallIsServed RecoveriesAreNeeded SessionIsRecovered
CHECK_DEADLOCK FALSE
