SPECIFICATION Spec
CONSTANTS
  Uploads = {u1}
  Calls = {c1, c2}
  Sweepers = {w1, w2}
  MaxPending = 1
  SessionTTL = 2
  PendingTTL = 2
  PutTTL = 1
  StaleAge = 2
  ClockSkew = 1
  MaxTime = 3
  RedisFaults = TRUE
  S3Faults = TRUE
  Crashes = TRUE
SYMMETRY Symmetry
CHECK_DEADLOCK FALSE
INVARIANTS TypeOK SharedPassedScan
PROPERTIES SweptOnlyWhenDue ConfirmedInTimeKept
