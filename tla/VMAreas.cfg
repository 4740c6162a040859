CONSTANTS
  Spaces = {s1, s2}
  NPages = 4
  PageSize = 2
  LimitPage = 3
  Rights <- MCRights
SPECIFICATION Spec
SYMMETRY Symmetry
PROPERTY IsPageMap
INVARIANTS TypeOK Canonical MirrorComplements
