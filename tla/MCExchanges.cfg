SPECIFICATION ExchangesSpec
CONSTANTS
  r1 = r1
  r2 = r2
  t1 = t1
  t2 = t2
  None = None
  Requests <- TwoRequests
  Threads <- TwoThreads
  MaxRestarts = 2
INVARIANTS
  RecordsAreTruthful
  ContextIsOwn
PROPERTY EveryExchangeIsRecorded
CHECK_DEADLOCK FALSE
