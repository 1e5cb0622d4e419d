SPECIFICATION Spec
CONSTANTS
  Contender = {p1, p2, p3}
  Absent = Absent
  Empty = Empty
  RemoveFails = TRUE
SYMMETRY ContenderSymmetry
INVARIANTS
  LeaseInv
  HolderIsNamed
  ReleasedIsGone
  RetriesFinishTheCleanup
PROPERTIES
  OnlyTheDeadAreBuried
CHECK_DEADLOCK FALSE
