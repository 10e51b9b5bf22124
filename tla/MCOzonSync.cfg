\* Two workers, two requests of the owner and two faults of any kind.
SPECIFICATION Spec
CONSTANTS
  a = a  b = b  c = c  w1 = w1  w2 = w2
  Run <- TwoRuns
  Workers <- TwoWorkers
  MaxDay = 2
  Chunk = 1
  Recent = 2
  Manual <- FirstDay
  MaxRequests = 2
  MaxFaults = 2
SYMMETRY Symmetry
INVARIANTS TypeOK OneActiveRun BackfillLeavesNoGap SavedDaysUseCurrentCosts
PROPERTIES FinishedRunsStayFinished
\* The connection may stop being ready, and no more run is planned then.
CHECK_DEADLOCK FALSE
