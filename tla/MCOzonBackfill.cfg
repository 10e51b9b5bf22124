\* One worker, one fault: the backfill is resumed as long as the connection
\* stays ready.
SPECIFICATION FairSpec
CONSTANTS
  a = a  b = b  c = c  w1 = w1  w2 = w2
  Run <- ThreeRuns
  Workers <- OneWorker
  MaxDay = 2
  Chunk = 1
  Recent = 2
  Manual <- FirstDay
  MaxRequests = 2
  MaxFaults = 1
PROPERTIES ReadyBackfillEnds
CHECK_DEADLOCK FALSE
