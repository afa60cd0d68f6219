CONSTANTS
  Instances = {a, b}
  Local = {a, b}
  Managed = {}
  NoInstance = none
  Forwards = {f}
  Streams = {}
  Weight <- EvenWeight
  MaxRetries = 1
  RetryOn <- AllFlags
  MaxActive = 2
  FailureThreshold = 1
  HalfOpenMaxCalls = 1
SPECIFICATION FairSpec
PROPERTY HalfOpenIsDecided
CHECK_DEADLOCK FALSE
