CONSTANTS
  Programs <- MCPrograms
  Host = "H"
  MaxDepth = 3
SPECIFICATION Spec
CHECK_DEADLOCK FALSE
INVARIANTS
  Election
  Placement
