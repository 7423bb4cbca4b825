SPECIFICATION Spec
CONSTANTS
  w1 = w1
  w2 = w2
  Workers <- MCWorkers
  Nobody = Nobody
  DeadSession = DeadSession
  MaxPosts = 3
  MaxDeaths = 1
  MaxEvents = 3
SYMMETRY WorkerSymmetry
INVARIANTS ReportIsReviewed CompletedHasReport
PROPERTIES CancelledRunStops ImplementsExclusiveRun
CHECK_DEADLOCK FALSE
