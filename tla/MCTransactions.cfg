SPECIFICATION TransactionsSpec
CONSTANTS
  t1 = t1
  t2 = t2
  t3 = t3
  NoTask = NoTask
  Tasks <- TwoTasks
  Transactions <- ThreeTransactions
  MaxDepth = 3
  MaxScopes = 3
SYMMETRY Symmetry
INVARIANTS
  ScopeHasOneOwner
  CountsAreTrue
  OnlyRunningTransactionsAreTracked
PROPERTIES
  CommitsAreEarned
CHECK_DEADLOCK FALSE
