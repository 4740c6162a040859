CONSTANTS
  A = A
  B = B
  main = main
  lib = lib
  dep = dep
  Sandboxes = {A, B}
  Pkgs = {main, lib, dep}
  MAIN = main
  PythonRuntime = {}
  Conf <- MCConf
  Imports <- MCImports
  SubOf <- MCSubOf
  Deps <- MCDeps
  Areas = {x, y}
  MaxNest = 2
  MaxSwitch = 1
  GOD = GOD
  HOST = HOST
  NOBODY = NOBODY
  FREED = FREED
  RT = RT
SPECIFICATION FairSpec
INVARIANTS Confined ViewComplete SeesOnly SeesAll
PROPERTY ViewComputed
