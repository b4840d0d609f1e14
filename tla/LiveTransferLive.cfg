CONSTANTS
  Supplier = {s1}
  NoSupplier = NoSupplier
  NULL = NULL
  SentLimit = 2
  BufLimit = 2
  MaxPairs = 1
  MaxResend = 3
  MaxSeq = 3
  MaxLife = 2
  MaxData = 1
  MaxRequests = 1
SPECIFICATION FairSpec
CHECK_DEADLOCK FALSE
PROPERTIES HoleCloses StreamSpec
