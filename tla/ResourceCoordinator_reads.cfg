CONSTANTS
  Accounts = {a1}
  Kinds = {"keys", "subscriptions"}
  Requests = {r1, r2}
  Writers = {w1}
  Operations = {"update"}
  InvalidationOrder <- MCInvalidationOrder
  None = None
  MaxWrites = 1
  MaxGeneration = 1
SPECIFICATION FairSpec
INVARIANTS SingleFlight NoStrandedWaiter AnswersAreCurrent
PROPERTIES EveryReadEnds ImplementsLiveRead
