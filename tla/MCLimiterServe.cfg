CONSTANTS
  Keys = {k1}
  Requests = {r1}
  Heap = {v1, v2}
  None = None
  Rate = 1
  Burst = 2
  Interval = 2
  Cleanup = 4
SPECIFICATION FairSpec
PROPERTIES GoesOnServing
