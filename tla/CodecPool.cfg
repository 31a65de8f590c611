\* Goroutines sharing pooled codecs.
SPECIFICATION Spec
CONSTANTS
  Procs = {p1, p2}
  Codecs = {e1, e2, d1, d2, g1}
  KindOf <- MCKindOf
  None = None
  e1 = e1
  e2 = e2
  d1 = d1
  d2 = d2
  g1 = g1
SYMMETRY ProcSymmetry
INVARIANTS
  TypeOK
  Exclusive
  PooledClean
  OwnOutput
