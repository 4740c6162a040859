CONSTANTS
  Ms = {m1, m2}
  Packages = {A}
  RUNTIME = RUNTIME
  Sandboxes = {A, B}
  PkgDeps <- MCPkgDeps
  Descs = {d1, d2, d3}
  NPages = 3
  NElems = 2
  MaxLocks = 1
  NoD = NoD
SPECIFICATION Spec
SYMMETRY Symmetry
INVARIANTS TypeOK Homogeneous OneCachedSpan Partition Registered NoThrow
PROPERTY MapsOnlyOwned
