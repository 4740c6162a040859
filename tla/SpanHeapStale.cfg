CONSTANTS
  Ms = {m1}
  Packages = {A, B}
  RUNTIME = RUNTIME
  Sandboxes = {A, B}
  PkgDeps <- MCPkgDeps
  Descs = {d1, d2, d3}
  NPages = 3
  NElems = 2
  MaxLocks = 0
  NoD = NoD
SPECIFICATION Spec
SYMMETRY Symmetry
INVARIANTS PagesFollowSpan
