SPECIFICATION Spec
CONSTANTS
  Jobs = {j1}
  Pollers = {p1, p2}
  MaxDestroyRetries = 3
  BaseDelay = 1
  DestroyDelay = 1
  QueueMaxAge = 2
  DLQMaxAge = 2
  MaxTime = 3
  RedisFaults = TRUE
  S3Faults = TRUE
  Crashes = TRUE
SYMMETRY Symmetry
INVARIANTS TypeOK DLQOnlyExhausted NoFileForgotten
