CONSTANTS
  Users = {u1}
  NoUser = NoUser
  Callers = {c1}
  Pairs = {p1}
  AccessTTL = 2
  RefreshTTL = 3
  Grace = 0
  RedisDelay = 0
  MaxTime = 3
SPECIFICATION Spec
INVARIANTS
  OutstandingRefused
CHECK_DEADLOCK FALSE
