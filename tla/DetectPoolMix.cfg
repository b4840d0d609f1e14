CONSTANTS
  NPort = 1
  NSession = 2
  MaxRequests = 3
SPECIFICATION Spec
CHECK_DEADLOCK FALSE
INVARIANT ReportsToItsClient
