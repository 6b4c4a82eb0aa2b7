SPECIFICATION FairSpec
CONSTANTS
  r1 = r1
  r2 = r2
  NoRequest = NoRequest
  NoConnection = NoConnection
  Requests <- TwoRequests
  Connections <- ThreeConnections
  PoolSize = 2
INVARIANTS
  WorkerInv
  OutcomeMatchesDisk
PROPERTY RunsAndShutdownEnd
CHECK_DEADLOCK FALSE
