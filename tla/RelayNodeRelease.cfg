CONSTANTS
  NStream = 1
  FileLen = 1
  SupplierStart = 1
  FtdsStart = 1
  MaxSaved = 1
  Window = 2
  Slack = 0
  MaxSeq = 2
  MaxRestart = 1
  MaxSupplied = 0
SPECIFICATION FairSpec
PROPERTY ReleaseEnds
CHECK_DEADLOCK FALSE
