\* Liveness and the pause between steps: no symmetry, one worker, one lane.
SPECIFICATION HFairSpec
CONSTANTS
  r1 = r1  r2 = r2  w1 = w1  t1 = t1  t2 = t2
  Ranges = {r1, r2}
  Kicks <- FinanceOnly
  Workers = {w1}
  Tokens = {t1, t2}
  StepDelay = 2
  Lease = 2
  RetryDelays = {2}
  MaxAge = 2
  MaxFaults = 1
PROPERTIES RangeIsTried RunningEnds PacingKeptByOwnToken
CHECK_DEADLOCK FALSE
