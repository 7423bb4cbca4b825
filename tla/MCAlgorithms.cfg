SPECIFICATION Spec
CONSTANTS
  Items <- MCItems
  Tokens <- MCTokens
  MaxItems = 3
  InputTokenBudget = 14
  SafetyMargin = 10
  FixedOverhead = 2
  PerItemOverhead = 1
  Likeness <- MCLikenessOf
  SectionWeights <- MCSectionWeights
  PassageWeights <- MCPassageWeights
  SectionMinScore = 6200
  PassageMinScore = 5800
  MaxTokens = 4
  OverlapTokens = 2
  RankConstant = 60
  RerankerLimit = 4
  Model = "bge"
  NormalOf <- MCNormalOf
  DigitsOf <- MCDigitsOf
  MaterialityWeights <- MCMateriality
  MinScore = 7000
  AmbiguityMargin = 500
  AbsoluteTolerance = 100
  PercentTolerance = 2500
  PointTolerance = 1000
  NumberOf <- MCNumberOf
  ScaleOf <- MCScaleOf
  TermsIn <- MCTermsIn
  Registry <- MCRegistry
  Unreported = Unreported
  FindingLimit = 2
  RequireReviewForAll = FALSE
  MinSeverity = "high"
  LowConfidence = 7000
  Alphabet <- MCAlphabet
  Bound <- MCBound
  Sections <- MCSectionsOfChange
  Facts <- MCFacts
  Orders <- MCOrders
  Qualifiers <- MCQualifiers
  SmallPercent = 10000
  LargePercent = 100000
  SmallPoints = 5000
  LargePoints = 50000
  Requests <- MCRequests
  RunsShown <- MCRunsShown
INVARIANTS PlanIsSound AlignmentIsSound SearchIsSound LabelsFitTheirPair ReadingsAreSound ProgressIsHonest ReportHidesNothing
CHECK_DEADLOCK FALSE
