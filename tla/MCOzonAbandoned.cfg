\* No faults: a request that is refused may cost a run its delivery.
SPECIFICATION Spec
CONSTANTS
  a = a  b = b  c = c  w1 = w1  w2 = w2
  Run <- TwoRuns
  Workers <- OneWorker
  MaxDay = 2
  Chunk = 1
  Recent = 2
  Manual <- FirstDay
  MaxRequests = 2
  MaxFaults = 0
INVARIANTS ActiveRunsAreUnderWay
CHECK_DEADLOCK FALSE
