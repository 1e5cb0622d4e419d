SPECIFICATION Spec
CONSTANTS
  Host = {h1, h2}
  Mortal = {h1, h2}
  Op = {o1, o2}
  Target = {t1}
  Goals = {FALSE}
  Base = base
  Edited = edited
  NoHost = noHost
  NoOp = noOp
  NoTarget = noTarget
SYMMETRY Swaps
INVARIANTS
  SagaInv
  CompletedIsPublished
  AbortedLeavesNothing
  EffectsPrecedeJournal
PROPERTIES
  NothingIsUndone
CHECK_DEADLOCK FALSE
