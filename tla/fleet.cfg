CONSTANTS
  mock = mock
  gpu = gpu
  any = any
  lm1 = lm1
  lm2 = lm2
  studio = studio
  server = server
  m1 = m1
  m2 = m2
  Ids = {mock, gpu, any, lm1, lm2}
  Addresses = {studio, server}
  Models = {m1, m2}
  Wildcard = wildcard
  Absent = absent
  Manual <- ByHand
  Watched = {gpu}
  FileConfig <- File
  Scripts = {p, q}
  LMStudio = studio
  Loaded <- BothModels
  InstanceId <- ScriptIds
  Requests = {r, s}
  Streams = {r, s}
  Cycle = 2
SYMMETRY Interchangeable
SPECIFICATION FleetSpec
INVARIANTS
  FleetTypeOK
  OneEntryPerBackend
  SetupServes
  ModelsAreOwed
  WarnedOfShadowing
  NeverOvercounted
CHECK_DEADLOCK FALSE
