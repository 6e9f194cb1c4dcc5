CONSTANTS
  Lex <- MCLex
  Typ <- MCTyp
  Poly <- MCPoly
  Tmpl <- MCTmpl
  AnyCls <- MCAnyCls
  HookFails <- MCHookFails
  IntText = {"1", "2"}
  Roots = {"Flat", "List", "Nested", "Tree", "Dict", "any", "Vals", "Var", "Kind", "Inl", "Feed"}
  Docs <- MCAllDocs
  Later <- MCLater
  Probe <- MCProbe
  Opts <- MCOpts
  Plain <- MCPlain
  MaxCalls = 3
  MaxDepth = 6
  ScopeCells = 2
  MaxStaged = 2
  MaxPtrChain = 3
  RegionSlots = 2
  TplBatch = 2
  BatchMax = 4
  MuInitial = 2
  RecRows = 2
  RowSlots = 2
  DetachK = 2
  DebtBudget = 20
  SpareMax = 8
  Amortize = 2
  StrTail = 1
SPECIFICATION Spec
CHECK_DEADLOCK FALSE
INVARIANTS
  Binding
  CallbacksExact
  ResultsKept
  FreeMemoryClean
