CONSTANTS
  A = A
  p = p
  q = q
  B = B
  ghost = ghost
  RUNTIME = RUNTIME
  GOSB = GOSB
  CGO = CGO
  CGO2 = CGO2
  TYPENAME = TYPENAME
  Pkgs = {RUNTIME, GOSB, CGO, p, q}
  Wanted = {p, ghost, TYPENAME}
  Deps <- MCDeps
  Rank <- MCRank
  Sandboxes = {A, B}
  MAIN = MAIN
  TRUSTED = TRUSTED
  PCLNTAB = PCLNTAB
  NKinds = 4
  RODATA = 2
  PCLN = 4
  NewSegment = {1, 2}
  MaxPage = 5
  MaxSpan = 1
  NoSb = NoSb
  NOBODY = NOBODY
SPECIFICATION Spec
SYMMETRY Symmetry
INVARIANTS DomainsRight SeesOnlyDomain Attributed
