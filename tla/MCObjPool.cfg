SPECIFICATION Spec
CONSTANTS
  Procs = {p1, p2}
  k1 = k1
  k2 = k2
  o1 = o1
  o2 = o2
  o3 = o3
  Keys <- TwoKeys
  NGroups = 2
  Ways = 3
  Index <- OneGroup
  Objs <- Objects
  KeyOf <- KeyOfObjects
  EntryIds = {e1, e2, e3, e4}
  Sizes = {1, 2, 3}
  ObjMax = 2
  Budget = 3
  ReserveDepth = 2
  Nil = Nil
SYMMETRY Symm
INVARIANTS
  Accounting
PROPERTIES
  Ownership
  ImplementsReserve
