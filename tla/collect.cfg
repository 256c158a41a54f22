SPECIFICATION FairSpec
CONSTANTS
  Hashes = {h1, h2}
  Objects = {o1, o2}
  Requests = {r1}
  Views = {}
  Confirms = {c1, c2}
  Workers = {w1}
  MaxTime = 2
  ClockSkew = 0
  DestroyedTTL = 1
  PendingScores <- NoEntries
  RedisFaults = FALSE
  S3Faults = FALSE
  Crashes = FALSE
  TTLs = {1}
  TTLSlack = {1}
  ReuseObjects = FALSE
  CleanupLockTTL = 1
  MaxGracePeriod = 1
  StaleAge = 3
  PendingStaleAge = 3
  DestroyDelay = 1
CHECK_DEADLOCK FALSE
INVARIANTS NotBurnt
PROPERTIES FileEventuallyDeleted
