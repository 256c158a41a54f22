SPECIFICATION FairSpec
CONSTANTS
  Uploads = {u1}
  Calls = {c1}
  Sweepers = {w1}
  MaxPending = 1
  SessionTTL = 2
  PendingTTL = 2
  PutTTL = 1
  StaleAge = 9
  ClockSkew = 0
  MaxTime = 4
  RedisFaults = FALSE
  S3Faults = FALSE
  Crashes = FALSE
CHECK_DEADLOCK FALSE
PROPERTIES AbandonedUploadCollected
