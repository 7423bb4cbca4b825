SPECIFICATION Spec
CONSTANTS
  Pairs <- MCPairs
  Names <- MCNames
  Items <- MCItems
  Tokens <- MCTokens
  MaxItems = 2
  InputTokenBudget = 100
  SafetyMargin = 10
  FixedOverhead = 2
  PerItemOverhead = 1
  Unknown = Unknown
  None = None
  SettingSets = {"s1", "s2"}
  Layout <- MCLayout
  Text <- MCText
  Local <- MCLocal
  TwoSided <- MCTwoSided
  OneSided <- MCOneSided
  Contexts = {"old", "new"}
  VersionOf <- MCVersions
  FirstSettings = "s1"
  FirstContext = "old"
  MaxAttempts = 2
  MaxCrashes = 1
  MaxFaults = 1
  MaxReparses = 1
  MaxDrifts = 1
INVARIANTS ReusedMatchingIsComplete CompletedIsWhole NothingToRepair ResultsAreNotAskedAgain ResultsWereGiven
PROPERTY ClassifiedIsKept
CHECK_DEADLOCK FALSE
