SPECIFICATION Spec
CONSTANTS
  r1 = r1
  r2 = r2
  Requests <- TwoRequests
INVARIANT FailuresAreErrors
CHECK_DEADLOCK FALSE
