SPECIFICATION Spec
CONSTANTS
  Owner = {h1, h2}
  Job = {j1, r1}
  Recoverable = {r1}
  AttemptId = {a1, a2}
  OtherCompletion = {cA}
  Outcome = {"succeeded"}
  NoOwner = NoOwner
  NoJob = NoJob
  NoAttempt = NoAttempt
  TTL = 1
  MaxEpoch = 2
  MaxVersion = 3
SYMMETRY HostSymmetry
INVARIANTS
  StoreInv
PROPERTIES
  ImplementsLifecycle
CHECK_DEADLOCK FALSE
