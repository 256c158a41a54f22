SPECIFICATION Spec
CONSTANTS
  Hashes = {h1, h2}
  Objects = {o1}
  Requests = {r1, r2}
  Views = {v1}
  Confirms = {c1, c2}
  Workers = {}
  MaxTime = 1
  ClockSkew = 0
  DestroyedTTL = 1
  PendingScores <- NoEntries
  RedisFaults = TRUE
  S3Faults = TRUE
  Crashes = FALSE
  TTLs = {1}
  TTLSlack = {0}
  ReuseObjects = TRUE
  CleanupLockTTL = 1
  MaxGracePeriod = 1
  StaleAge = 2
  PendingStaleAge = 2
  DestroyDelay = 1
SYMMETRY Symmetry
CHECK_DEADLOCK FALSE
INVARIANTS TypeOK MarkedNeverOpen AtMostOneRedirect
PROPERTIES NeverReopened KeepsPromise NoPageAfterWin
