CONSTANTS
  Callers = {c1, c2, c3, c4}
  FailureThreshold = 2
  HalfOpenMaxCalls = 2
SPECIFICATION FairSpec
INVARIANTS ProbesAreBounded Inductive
PROPERTY RefusalEnds
