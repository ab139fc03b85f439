CONSTANTS
  Accounts = {a1}
  NoAccount = NoAccount
  Links = {l1}
  NoLink = NoLink
  Requests = {r1}
  ResetExpiry = 1
  VerifyExpiry = 2
  MaxTime = 0
  Endpoints <- AllEndpoints
  AllowFailures = TRUE
CHECK_DEADLOCK FALSE
SPECIFICATION Spec
INVARIANTS
  RegisteredHasLink
