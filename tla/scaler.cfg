CONSTANTS
  Executors = {e1, e2}
  MinInstances = 1
  MaxInstances = 3
  IdleSeconds = 2
  CooldownSeconds = 2
  MaxCount = 4
SPECIFICATION FairSpec
INVARIANT Inductive
PROPERTIES NoFlapping CooldownIsKept LimitsAreKept OverloadIsAnswered IdleFleetShrinks
