SPECIFICATION Spec
CONSTANTS
  Contender = {p1, p2, p3}
  Absent = Absent
  Empty = Empty
  RemoveFails = TRUE
SYMMETRY ContenderSymmetry
INVARIANTS
  Exclusive
CHECK_DEADLOCK FALSE
