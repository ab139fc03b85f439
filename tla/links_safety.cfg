CONSTANTS
  Accounts = {a1}
  NoAccount = NoAccount
  Links = {l1, l2, l3}
  NoLink = NoLink
  Requests = {r1, r2, r3}
  ResetExpiry = 1
  VerifyExpiry = 1
  MaxTime = 1
  Endpoints <- AllEndpoints
  AllowFailures = TRUE
CHECK_DEADLOCK FALSE
SYMMETRY Symmetry
SPECIFICATION Spec
INVARIANTS
  TypeOK
  OneGrantPerLink
  GrantFindsAccount
  NobodyIsStuck
PROPERTIES
  SupersededIsDead
  NeverStranded
  TransactionsAreAtomic
