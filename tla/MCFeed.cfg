SPECIFICATION FairSpec
CONSTANTS
  Types <- MCTypes
  KindOf <- MCKindOf
  ChildOf <- MCChildOf
  Cases <- Both
  MaxRead = 3
  MaxZeroReads = 1
  ReaderFails = TRUE
  Nil = Nil
INVARIANTS
  ChunkingInvisible
  BoundariesKept
  WindowFaithful
PROPERTIES
  DecodeReturns
