SPECIFICATION CanonicalSpec
CONSTANTS
  a1 = a1
  a2 = a2
  a3 = a3
  p1 = p1
  p2 = p2
  w1 = w1
  w2 = w2
  NoAttempt = NoAttempt
  Attempts <- ThreeAttempts
  Processes <- TwoProcesses
  Products <- TwoProducts
  InitialStock <- MCStock
  PoolLimit = 1
INVARIANT RailsInv
PROPERTIES
  ImplementsContract
  EveryRequestEnds
CHECK_DEADLOCK FALSE
