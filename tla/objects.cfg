SPECIFICATION FairSpec
CONSTANTS
  MaxAttempts = 4
  ScanTimeout = 2
  MaxChunks = 3
  MaxSettle = 15
INVARIANTS TypeOK CleanMeansWhole SeenInTime
PROPERTIES IsVerdict CheckEnds
CHECK_DEADLOCK FALSE
