SPECIFICATION Spec
CONSTANTS
  w1 = w1
  w2 = w2
  Workers <- TwoWorkers
  MaxJobs = 2
INVARIANT DeterministicStagesAreDone
CHECK_DEADLOCK FALSE
