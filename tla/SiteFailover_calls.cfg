CONSTANTS
  LastAddress = 2
  Reads = {r1}
  Writes = {w1}
  Origins = {0, 2}
  Retries = 1
  Cooldowns = {1}
  MayStall = TRUE
  MaxTime = 1
  MaxFailures = 2
  None = None
SPECIFICATION FairSpec
INVARIANTS WritesAreNotReplayed RejectedWritesHadNoEffect TransitionsTellActive
PROPERTIES LateOutcomesAreRejected ElectedIsInUse EveryRequestEnds
CHECK_DEADLOCK FALSE
