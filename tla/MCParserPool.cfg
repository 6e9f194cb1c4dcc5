SPECIFICATION Spec
CONSTANTS
  Procs = {p1, p2, p3}
  Parsers = {o1, o2, o3}
  Nil = Nil
SYMMETRY Symm
INVARIANTS
  Ownership
  Accounting
