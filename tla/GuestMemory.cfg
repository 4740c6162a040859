CONSTANTS
  Areas <- MCAreas
  Later <- MCLater
  Enclosures = {A, B}
  GOD = GOD
  Limit = 19
  ArenaSize = 3
  MaxSlots = 7
  NoGPA = NoGPA
SPECIFICATION Spec
SYMMETRY Symmetry
INVARIANTS Disjoint OneMapping TablesReachable Backed
