CONSTANTS
  Users = {u1}
  NoUser = NoUser
  Pairs = {p1, p2}
  NoPair = NoPair
  Requests = {r1, r2}
  AccessTTL = 2
  RefreshTTL = 3
  Grace = 0
  RedisDelay = 0
  MaxTime = 2
  MaxCred = 1
  Operations <- ResetOperations
  AllowFailures = FALSE
CHECK_DEADLOCK FALSE
SPECIFICATION Spec
INVARIANTS
  OldPasswordLoggedOut
