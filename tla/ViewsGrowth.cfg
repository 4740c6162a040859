CONSTANTS
  Ts = {t1, t2}
  Main = t1
  A = A
  B = B
  p = p
  q = q
  Sandboxes = {A, B}
  RUNTIME = RUNTIME
  Ids = {RUNTIME, p, q}
  View <- MCView
  Pages = {h1}
  Areas = {a1, a2}
  HeapAreas = {a2}
  NEMR = 2
  NUpd = 1
  NoT = NoT
  GOD = GOD
SPECIFICATION Spec
INVARIANT GrowthServed
