CONSTANTS
  Supplier = {s1}
  NoSupplier = NoSupplier
  NULL = NULL
  SentLimit = 3
  BufLimit = 3
  MaxPairs = 2
  MaxResend = 3
  MaxSeq = 5
  MaxLife = 1
  MaxData = 2
  MaxRequests = 1
SPECIFICATION Spec
CHECK_DEADLOCK FALSE
INVARIANTS TypeOK SentBufIndexed BodyMatchesHeader BufferShape FileIsRun
PROPERTIES RequestsOnlyMissing StreamSpec
