CONSTANTS
  NPort = 1
  NSession = 2
  MaxRequests = 3
SPECIFICATION FairSpec
CHECK_DEADLOCK FALSE
INVARIANTS TypeOK FreeIsClosed
PROPERTIES LeaseSpec SeenSessionEnds EveryThreadExits
