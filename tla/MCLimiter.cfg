CONSTANTS
  Keys = {k1}
  Requests = {r1, r2}
  Heap = {v1, v2, v3}
  None = None
  Rate = 1
  Burst = 1
  Interval = 2
  Cleanup = 2
SPECIFICATION FairSpec
INVARIANTS TypeOK WithinRate
PROPERTIES NeverReplaced EveryRequestAnswered
