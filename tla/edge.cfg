CONSTANTS
  Processes = {p1}
  NoProcess = NoProcess
  Requests = {r1, r2}
  Identities = {i1}
  NoKey = NoKey
  Second = 3
  Window = 1
  Max = 2
  MaxTime = 3
  MaxCount = 3
  AllowFailures = TRUE
SPECIFICATION FairSpec
INVARIANTS
  TypeOK
  AtMostMax
  RetryWhenReset
  ShutdownIsGraceful
PROPERTIES
  OnlyStatementsHoldUp
