SPECIFICATION LockSpec
CONSTANTS
  w1 = w1
  w2 = w2
  w3 = w3
  r1 = r1
  r2 = r2
  Threads <- MCThreads
  Requests <- MCRequests
  Nobody = Nobody
  MaxMessages = 4
  MaxLosses = 1
PROPERTY ImplementsExclusiveRun
CHECK_DEADLOCK FALSE
