CONSTANTS
    T <- MCT
    LenMod = 4
    MaxDepth = 4
    Inputs <- MCInputs
    Later <- MCLater
    Deviant <- MCDeviant
    MaxCalls = 2
SPECIFICATION Spec
INVARIANTS
  EncodesExactly
  PoolClean
  ResultsStable
