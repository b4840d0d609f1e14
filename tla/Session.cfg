CONSTANTS
  Supplier = {s1, s2}
  NoSupplier = NoSupplier
  Mortal = {s2}
  nnsAlive = 1
  MaxTimes = 1
  MaxLife = 2
  MaxNet = 2
SPECIFICATION FairSpec
INVARIANTS TypeOK SomebodyToAsk
PROPERTIES AddressKept ServedInTheEnd
CHECK_DEADLOCK FALSE
