CONSTANTS
  NStream = 2
  FileLen = 2
  SupplierStart = 1
  FtdsStart = 1
  MaxSaved = 1
  Window = 2
  Slack = 0
  MaxSeq = 4
  MaxRestart = 1
  MaxSupplied = 1
SPECIFICATION Spec
INVARIANT SeqNumUnique
CHECK_DEADLOCK FALSE
