CONSTANTS
  Users = {u1}
  NoUser = NoUser
  Pairs = {p1, p2}
  NoPair = NoPair
  Requests = {r1, r2}
  AccessTTL = 1
  RefreshTTL = 2
  Grace = 0
  RedisDelay = 0
  MaxTime = 2
  MaxCred = 1
  Operations <- SessionOperations
  AllowFailures = TRUE
CHECK_DEADLOCK FALSE
SYMMETRY Symmetry
SPECIFICATION Spec
INVARIANTS
  TypeOK
  OutdatedSessionsEnd
  NoSessionBeforeVerification
  RotatedOutIsInactive
