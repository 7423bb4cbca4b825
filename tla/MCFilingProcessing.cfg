SPECIFICATION LiveSpec
CONSTANTS
  first = first
  amended = amended
  empty = empty
  Nil = Nil
  Docs <- MCDocs
  Text <- MCText
  Tables <- MCTables
  Pieces <- MCPieces
  BatchSize = 1
  MaxRetries = 3
  Budgets <- MCBudgets
INVARIANTS ReadyIsWhole PaidForOnce
PROPERTY BecomesProcessedWhole RequestIsAnswered
CHECK_DEADLOCK FALSE
