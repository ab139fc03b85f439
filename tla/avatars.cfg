CONSTANTS
  Users = {u1, u2}
  NoUser = NoUser
  Requests = {r1, r2}
  Keys = {k1, k2, k3}
  NoKey = NoKey
  Elsewhere = Elsewhere
  AllowFailures = TRUE
CHECK_DEADLOCK FALSE
SYMMETRY Symmetry
SPECIFICATION Spec
INVARIANTS
  TypeOK
  RowNamesFile
  NoOrphans
PROPERTIES
  UploadedStays
