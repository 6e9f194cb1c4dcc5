CONSTANTS
  Programs <- MCPrograms
  Root = "A"
  ChainDepth = 5
  MemoLimit = 7
SPECIFICATION Spec
CHECK_DEADLOCK FALSE
INVARIANTS
  Mirror
  RecursionClosed
  PolyChecksExact
