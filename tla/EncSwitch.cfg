CONSTANTS
  Gs = {g1, g2, g3}
  Ms = {m1, m2, m3}
  Sandboxes = {A, B}
  VCPUs = {v1, v2}
  Procs = 2
  MaxDepth = 1
  CloneFrom = {"sched"}
  OUT = OUT
  GOD = GOD
  NoG = NoG
  NoV = NoV
  MainG = g1
  M0 = m1
SPECIFICATION Spec
SYMMETRY Symmetry
PROPERTY Enclosed
INVARIANTS Confined FilterMatches VcpuExclusive OnlyPoolFails
