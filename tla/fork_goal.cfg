SPECIFICATION Spec
CONSTANTS
  Host = {h1, h2}
  Mortal = {h1, h2}
  Op = {o1}
  Target = {t1}
  Goals = {TRUE}
  Base = base
  Edited = edited
  NoHost = noHost
  NoOp = noOp
  NoTarget = noTarget
INVARIANTS
  LostToAnother
CHECK_DEADLOCK FALSE
