SPECIFICATION Spec
CONSTANTS
  Owner = {h1, h2}
  Job = {j1}
  Recoverable = {}
  AttemptId = {a1, a2}
  OtherCompletion = {cA}
  Outcome = {"succeeded", "interrupted"}
  NoOwner = NoOwner
  NoJob = NoJob
  NoAttempt = NoAttempt
  TTL = 2
  MaxEpoch = 3
  MaxVersion = 6
SYMMETRY HostSymmetry
INVARIANTS
  JobAgreesWithAttempts
  EpochFencesOwners
  EachAttemptPublishedOnce
  TerminalJobIsPublished
PROPERTIES
  EndedForGood
  OnlyLeaseHolderSettles
CHECK_DEADLOCK FALSE
