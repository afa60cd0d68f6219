CONSTANTS
  Instances = {a, b}
  Local = {a, b}
  Managed = {}
  NoInstance = none
  Forwards = {f}
  Streams = {}
  Weight <- EvenWeight
  MaxRetries = 2
  RetryOn <- AllFlags
  MaxActive = 3
  FailureThreshold = 2
  HalfOpenMaxCalls = 1
SPECIFICATION Spec
PROPERTY TimedOutMeansBusy
CHECK_DEADLOCK FALSE
