CONSTANTS
  mock = mock
  lmstudio = lmstudio
  tgi = tgi
  Instances = {mock, lmstudio}
  Local = {mock, lmstudio}
  Managed = {}
  NoInstance = none
  Forwards = {f}
  Streams = {s}
  Weight <- EvenWeight
  MaxRetries = 1
  RetryOn <- AllFlags
  MaxActive = 2
  FailureThreshold = 1
  HalfOpenMaxCalls = 1
  Engine <- Engines
  Mocks = {mock}
  MaxFaults = 1
SPECIFICATION GatewaySpec
PROPERTIES
  ErrorsCountAgainstTheEngine
CHECK_DEADLOCK FALSE
