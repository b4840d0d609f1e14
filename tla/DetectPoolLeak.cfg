CONSTANTS
  NPort = 1
  NSession = 2
  MaxRequests = 2
SPECIFICATION ReliableFairSpec
CHECK_DEADLOCK FALSE
PROPERTY SlotComesBack
