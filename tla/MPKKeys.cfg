CONSTANTS
  Pkgs = {1, 2}
  Sandboxes <- MCSandboxes
  Rights <- MCRights
  NKeys = 3
  Pages = {h1}
SPECIFICATION KeysSpec
INVARIANTS KeysTypeOK SectionsMatchViews HeapMatchesViews PanicsOnlyIfShort
