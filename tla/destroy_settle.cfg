SPECIFICATION FairSpec
CONSTANTS
  Jobs = {j1, j2}
  Pollers = {p1, p2}
  MaxDestroyRetries = 2
  BaseDelay = 1
  DestroyDelay = 1
  QueueMaxAge = 9
  DLQMaxAge = 9
  MaxTime = 3
  RedisFaults = FALSE
  S3Faults = TRUE
  Crashes = FALSE
INVARIANTS JobKept
PROPERTIES JobsSettle
