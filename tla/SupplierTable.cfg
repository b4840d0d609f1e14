CONSTANTS
  NConsumer = 3
  MaxRequest = 3
SPECIFICATION FairSpec
INVARIANTS TypeOK OneEntry
PROPERTIES WaitIsEnough OrphanStays SupplierTaskEnds
CHECK_DEADLOCK FALSE
