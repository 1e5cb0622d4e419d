SPECIFICATION Spec
CONSTANTS
  Owner = {h1, h2}
  Attempt = {a1, a2, a3}
  NoOwner = NoOwner
  NoAttempt = NoAttempt
  MaxAttempts = 3
  TTL = 2
  MaxEpoch = 3
SYMMETRY IdSymmetry
INVARIANTS
  LedgerInv
  AttemptsFormChain
  ChainFences
  NothingBeforeLaunch
PROPERTIES
  LaunchSettledByHolder
  FactsStand
CHECK_DEADLOCK FALSE
