CONSTANTS
  Client = {c1}
  SESSIONMAXNUM = 2
  MAX_CHECK_TIME = 1
  MaxRound = 2
  MaxNet = 3
SPECIFICATION FairSpec
CHECK_DEADLOCK FALSE
INVARIANTS TypeOK RoundsApart
PROPERTIES SessionComesBack RoundEnds
