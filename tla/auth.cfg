SPECIFICATION Spec
CONSTANTS
  Requests = {r1, r2, r3, r4}
  Tokens = {t1, t2, t3}
  Sessions = {s1}
  Regions = {g1, g2}
  RefreshTTL = 2
  AccessTTL = 1
  ClockSkew = 0
  MaxTime = 3
  RedisFaults = TRUE
  Failures = TRUE
SYMMETRY Symmetry
CHECK_DEADLOCK FALSE
INVARIANTS TypeOK EndedNotServed ExchangedIsGone StaysLoggedIn LogoutEnds
PROPERTY KeepsPromise
