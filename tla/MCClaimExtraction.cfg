SPECIFICATION Spec
CONSTANTS
  Items <- MCItems
  Tokens <- MCTokens
  MaxItems = 2
  InputTokenBudget = 100
  SafetyMargin = 10
  FixedOverhead = 2
  PerItemOverhead = 1
  Unknown = Unknown
  Materials <- MCMaterials
  Contexts = {"old", "new"}
  MaxAttempts = 3
  MaxCrashes = 1
  MaxFaults = 1
  MaxDrifts = 1
INVARIANTS CompletedIsComplete NothingAskedTwice ReportedReadyIsResolved FaultlessSuccessIsStored
PROPERTY CompletedStays
CHECK_DEADLOCK FALSE
