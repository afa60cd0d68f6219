CONSTANTS
  mock = mock
  lmstudio = lmstudio
  tgi = tgi
  Instances = {mock, lmstudio, tgi}
  Local = {mock, lmstudio, tgi}
  Managed = {mock, lmstudio, tgi}
  NoInstance = none
  Forwards = {f}
  Streams = {s}
  Weight <- EvenWeight
  MaxRetries = 1
  RetryOn <- AllFlags
  MaxActive = 2
  FailureThreshold = 1
  HalfOpenMaxCalls = 1
  Engine <- Engines
  Mocks = {mock}
  MaxFaults = 1
SPECIFICATION LoneSpec
INVARIANTS
  Inductive
  GatewayInductive
  RefusedMeansUnseen
  QuietLeavesNobodyWaiting
PROPERTIES
  UnreadyIsRefused
  RepliesFitAnswers
  NoEngineRunsItTwice
  EveryClientIsAnswered
CHECK_DEADLOCK FALSE
