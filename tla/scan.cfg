SPECIFICATION Spec
CONSTANTS
  Hashes = {h1}
  Objects = {o1}
  Requests = {r1}
  Views = {}
  Confirms = {c1}
  Workers = {w1, w2}
  MaxTime = 2
  ClockSkew = 1
  DestroyedTTL = 1
  PendingScores = {3}
  RedisFaults = TRUE
  S3Faults = TRUE
  Crashes = TRUE
  TTLs = {2}
  TTLSlack = {0}
  ReuseObjects = FALSE
  CleanupLockTTL = 1
  MaxGracePeriod = 1
  StaleAge = 1
  PendingStaleAge = 1
  DestroyDelay = 1
SYMMETRY Symmetry
CHECK_DEADLOCK FALSE
INVARIANTS OpenShareHasFile
PROPERTIES UnexpiredFileKept
