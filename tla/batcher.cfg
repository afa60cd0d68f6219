CONSTANTS
  Requests = {r1, r2, r3, r4, r5}
  Impatient = {r1, r2, r3, r4, r5}
  Timer = timer_task
  Outsider = outsider
  MaxBatchSize = 3
SPECIFICATION FairSpec
INVARIANT Inductive
PROPERTIES MaxWaitIsKept OnlyCancelledBatchesAreLost
