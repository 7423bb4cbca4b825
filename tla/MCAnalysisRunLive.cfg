SPECIFICATION FairSpec
CONSTANTS
  w1 = w1
  w2 = w2
  Workers <- OneThread
  Nobody = Nobody
  DeadSession = DeadSession
  MaxPosts = 2
  MaxDeaths = 1
  MaxEvents = 2
PROPERTIES LockIsReleased AbandonedBecomesRetryable
CHECK_DEADLOCK FALSE
