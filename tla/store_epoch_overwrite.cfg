CONSTANTS
  Users = {u1}
  NoUser = NoUser
  Callers = {c1, c2}
  Pairs = {p1, p2}
  AccessTTL = 4
  RefreshTTL = 5
  Grace = 1
  RedisDelay = 1
  MaxTime = 6
SPECIFICATION Spec
PROPERTIES
  InvalidForGood
CHECK_DEADLOCK FALSE
