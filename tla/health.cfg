CONSTANTS
  Ids = {a, b}
  Managed = {b}
  Drainable = {a, b}
  UnhealthyThreshold = 2
  HealthyThreshold = 2
  DeepEvery = 2
SPECIFICATION FairSpec
INVARIANTS ChecksBelongToARound StatusMatchesCounts Inductive
PROPERTIES DrainingHolds RecoveryIsNoticed FailureIsNoticed StopEnds
CHECK_DEADLOCK FALSE
