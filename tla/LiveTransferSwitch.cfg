CONSTANTS
  Supplier = {s1, s2}
  NoSupplier = NoSupplier
  NULL = NULL
  SentLimit = 2
  BufLimit = 2
  MaxPairs = 1
  MaxResend = 2
  MaxSeq = 3
  MaxLife = 1
  MaxData = 2
  MaxRequests = 1
SPECIFICATION Spec
CHECK_DEADLOCK FALSE
SYMMETRY SupplierSymmetry
INVARIANTS FileIsRun
PROPERTIES StreamSpec
