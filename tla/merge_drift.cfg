SPECIFICATION Spec
CONSTANTS
  Host = {h1}
  Mortal = {}
  Task = {t1, t2}
  Outside = {}
  NoHost = NoHost
  NoTask = NoTask
CHECK_DEADLOCK FALSE
INVARIANT
  OwnAdvanceIsNotDrift
