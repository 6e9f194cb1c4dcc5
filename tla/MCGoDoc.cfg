SPECIFICATION Spec
CONSTANTS
  MaxDepth = 2
  IntBits = 4
  UintDigits = 2
  MaxExp = 1
  MinExp = 2
  Texts <- MCTexts
  Later <- MCLater
  MaxParses = 2
  TapeGuess = 8
  StrTail = 1
  Amortize = 2
CHECK_DEADLOCK FALSE
INVARIANTS
  ExtentExact
  GrammarKept
  ReadsAsWritten
