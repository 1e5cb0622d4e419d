SPECIFICATION FairSpec
CONSTANTS
  Host = {h1, h2}
  Mortal = {h2}
  Task = {t1, t2}
  Outside = {u1}
  NoHost = NoHost
  NoTask = NoTask
CHECK_DEADLOCK FALSE
INVARIANTS
  
  
  InOrder
  OutsiderIsSeen
PROPERTIES
  QueueMoves
