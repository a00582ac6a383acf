CONSTANTS
  i1 = i1
  Instances = {i1, i2}
  Kinds = {"fresh", "subs", "history"}
  Duties <- SplitDuties
  MayStall = {i2}
  None = None
SPECIFICATION FairSpec
INVARIANTS OneWorker OnlyDueWork NoWorkIsLost
PROPERTY EveryDemandIsServed
CHECK_DEADLOCK FALSE
