SPECIFICATION FairSpec
CONSTANTS
  c1 = c1
  c2 = c2
  Callers <- MCCallers
  Items <- MCItems
  Answers <- MCAnswers
  Envelopes <- MCEnvelopes
  MaxRetries = 2
  Repairs = 1
  ChatDelay = 2
  BaseDelay = 1
  MaxDelay = 2
  Jitter = 0
INVARIANT CostIsBounded
PROPERTIES OwnCallsAreApart EveryCallEnds
