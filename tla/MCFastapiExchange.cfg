SPECIFICATION ViewSpec
CONSTANTS
  r1 = r1
  r2 = r2
  r3 = r3
  c1 = c1
  c2 = c2
  s1 = s1
  NoRequest = NoRequest
  Requests <- ThreeRequests
  Records <- TwoRecords
  Scrapes <- OneScrape
  OtherStatuses = {"200"}
SYMMETRY Symmetry
INVARIANTS
  EverythingIsCountedOnce
  CompletionIsTruthful
  AnswersAreSettled
  ErrorsAreLoggedOnce
  ScrapeIsComplete
CHECK_DEADLOCK FALSE
