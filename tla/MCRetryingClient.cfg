SPECIFICATION ClientSpec
CONSTANTS
  c1 = c1
  c2 = c2
  k1 = k1
  k2 = k2
  p1 = p1
  p2 = p2
  NoAttempt = NoAttempt
  MaxTries = 2
  Clients <- MCClients
  Attempts <- MCAttempts
  Keys <- MCKeys
  Products <- MCProducts
  InitialStock <- MCStock
SYMMETRY Symmetry
INVARIANTS
  Conservation
  RetriesAgree
  ClientInv
CHECK_DEADLOCK FALSE
