\* The whole scheduler: two workers, leases that a step can outlive, faults.
SPECIFICATION Spec
CONSTANTS
  r1 = r1  r2 = r2  w1 = w1  w2 = w2  t1 = t1  t2 = t2  t3 = t3
  Ranges <- TwoRanges
  Kicks <- TwoRequests
  Workers <- TwoWorkers
  Tokens <- TwoTokens
  StepDelay = 1
  Lease = 2
  RetryDelays = {3}
  MaxAge = 3
  MaxFaults = 1
SYMMETRY Symmetry
INVARIANTS IInv OneStepPerSeller WorkHasWakeup
PROPERTIES SaveKeepsNewWork ImplementsSellerWork
CHECK_DEADLOCK FALSE
