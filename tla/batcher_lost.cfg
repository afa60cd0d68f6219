CONSTANTS
  Requests = {r1, r2, r3}
  Impatient = {}
  Timer = timer_task
  Outsider = outsider
  MaxBatchSize = 2
SPECIFICATION Spec
INVARIANT WaitersAreHeld
