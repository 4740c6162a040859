CONSTANTS
  Gs = {g1, g2, g3}
  Ms = {m1, m2, m3}
  Sandboxes = {A, B}
  Procs = 2
  MaxDepth = 1
  OUT = OUT
  ALL = ALL
  NoG = NoG
  MainG = g1
  M0 = m1
SPECIFICATION Spec
SYMMETRY Symmetry
PROPERTY Enclosed
INVARIANTS NoCrash
