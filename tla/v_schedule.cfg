SPECIFICATION Spec
CONSTANTS
  Hashes = {h1}
  Objects = {o1}
  Requests = {r1}
  Views = {}
  Confirms = {c1}
  Workers = {}
  MaxTime = 1
  ClockSkew = 0
  DestroyedTTL = 1
  PendingScores <- NoEntries
  RedisFaults = FALSE
  S3Faults = FALSE
  Crashes = FALSE
  TTLs = {1}
  TTLSlack = {0}
  ReuseObjects = FALSE
  CleanupLockTTL = 1
  MaxGracePeriod = 1
  StaleAge = 1
  PendingStaleAge = 1
  DestroyDelay = 1
CHECK_DEADLOCK FALSE
INVARIANTS RedirectSchedulesDestruction
