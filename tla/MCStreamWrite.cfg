SPECIFICATION Spec
CONSTANTS
  Shapes <- Objects
  MaxElems = 2
  DrainMark = 3
  MaxCalls = 2
  Moves <- Producers
INVARIANTS
  BytesKept
  ReturnsExact
PROPERTIES
  NoWriteAfterError
