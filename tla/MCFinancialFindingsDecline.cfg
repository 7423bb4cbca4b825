SPECIFICATION Spec
CONSTANTS
  MinScore = 7200
  AmbiguityMargin = 300
  AbsoluteTolerance = 100
  PercentTolerance = 2500
  PointTolerance = 1000
  SmallPercent = 10000
  LargePercent = 100000
  SmallPoints = 5000
  LargePoints = 50000
  w1 = w1
  w2 = w2
  r1 = r1
  Workers <- MCWorkers
  Reviewers <- MCReviewers
  Qualifiers <- MCQualifiers
  Orders <- MCOrders
  Claims <- DeclineClaims
  ClaimLimit = 2
  ClaimEdits <- DeclineEdits
  Concepts <- MCConcepts
  Behavior <- MCBehavior
  FactSets <- DeclineFacts
  ComparisonFiling <- MCComparisonFiling
  Changes <- Nothing
  Sections <- Nothing
  ReviewTypes = {}
  ReviewSeverities = {"critical"}
  ReviewStatuses = {"approved"}
SYMMETRY Symmetry
INVARIANT TrueDeclinesHold
CHECK_DEADLOCK FALSE
