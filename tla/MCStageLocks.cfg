SPECIFICATION FairSpec
CONSTANTS
  w1 = w1
  w2 = w2
  Workers <- TwoWorkers
  MaxJobs = 2
INVARIANTS WorkIsExclusive LocksAreTakenInOrder AloneReleasesItsLock
PROPERTY LocksComeFree
CHECK_DEADLOCK FALSE
