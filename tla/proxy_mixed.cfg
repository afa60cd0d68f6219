CONSTANTS
  Instances = {a, b, c}
  Local = {a, b}
  Managed = {}
  NoInstance = none
  Forwards = {f}
  Streams = {s}
  Weight <- StreamsHeavier
  MaxRetries = 2
  RetryOn <- No5xx
  MaxActive = 3
  FailureThreshold = 1
  HalfOpenMaxCalls = 1
SPECIFICATION Spec
INVARIANTS
  AttemptsVisitNewInstances
  LocalFirst
  LoadNeverExceedsInFlight
PROPERTY KeepsGate
CHECK_DEADLOCK FALSE
