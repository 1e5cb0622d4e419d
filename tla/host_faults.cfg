SPECIFICATION FairSpec
CONSTANTS
  Owner = {h1, h2}
  Job = {j1}
  Merges = {j1}
  AttemptId = {a1}
  NoOwner = NoOwner
  NoJob = NoJob
  NoAttempt = NoAttempt
  Survivor = {h1}
  StoreFails = TRUE
  TTL = 2
  MaxEpoch = 3
  MaxVersion = 4
INVARIANTS
  SuccessIsMerged
  NoZombie
PROPERTIES
  ImplementsStore
  OrphansEnd
  PretenceEnds
CHECK_DEADLOCK FALSE
