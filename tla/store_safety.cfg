CONSTANTS
  Users = {u1}
  NoUser = NoUser
  Callers = {c1, c2}
  Pairs = {p1, p2}
  AccessTTL = 3
  RefreshTTL = 4
  Grace = 1
  RedisDelay = 1
  MaxTime = 6
SYMMETRY Symmetry
SPECIFICATION Spec
INVARIANTS
  TypeOK
  RevocationHolds
  FreshNotRefused
  DeniedUntilExpiry
  HashOutlivesSessions
  StoreInv
PROPERTIES
  ImplementsRegistry
  RevalidatedByOverlap
CHECK_DEADLOCK FALSE
