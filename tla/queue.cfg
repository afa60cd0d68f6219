CONSTANTS
  Requests = {r1, r2, r3, r4}
  Urgent = {r1, r2}
  Consumers = {c1, c2, c3}
  Priority <- UrgentFirst
  MaxSize = 2
  MaxWait = 1
  NoRequest = none
SPECIFICATION FairSpec
INVARIANT Inductive
PROPERTIES LeavesForAReason UrgentIsServed
