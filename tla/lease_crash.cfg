SPECIFICATION Spec
CONSTANTS
  Contender = {p1, p2}
  Absent = Absent
  Empty = Empty
  RemoveFails = FALSE
SYMMETRY ContenderSymmetry
INVARIANTS
  SomebodyCleansUp
CHECK_DEADLOCK FALSE
