SPECIFICATION StoresSpec
CONSTANTS
  a1 = a1
  a2 = a2
  a3 = a3
  k1 = k1
  k2 = k2
  p1 = p1
  p2 = p2
  NoAttempt = NoAttempt
  Attempts <- ThreeAttempts
  Keys <- TwoKeys
  Products <- TwoProducts
  InitialStock <- OneUnit
  PoolLimit = 2
SYMMETRY Symmetry
INVARIANT StoresInv
PROPERTY ImplementsRetirableContract
CHECK_DEADLOCK FALSE
