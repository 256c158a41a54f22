SPECIFICATION FairSpec
CONSTANTS
  Requests = {r1, r2}
  MaxSlips = 2
  Uploads = {u1, u2, u3}
  MaxPendingPerAdmin = 1
  MaxTotalPending = 2
  MaxDaily = 2
  MaxRate = 3
  RateWindow = 3
  MaxEnum = 3
  EnumTTL = 2
  MaxFailed = 3
  FailedTTL = 2
INVARIANTS
  TypeOK
  PassesBounded
  TTLSoonSet
  BlockTight
  AttemptsBounded
  PendingBounded
  QuotaTight
PROPERTY RefusalsEnd
