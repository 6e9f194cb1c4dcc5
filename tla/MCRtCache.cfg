SPECIFICATION Spec
CONSTANTS
  Procs = {p1, p2, p3}
  Keys = {k1, k2}
  Groups = {g1}
  Ways = 2
  Index <- OneGroup
  EvictWay <- EvictLast
  Builds = {b1, b2}
  Nil = Nil
SYMMETRY Symm
INVARIANTS
  Canonical
  FastAgreesWithSlow
  TableWellFormed
