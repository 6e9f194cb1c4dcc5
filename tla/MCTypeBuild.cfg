SPECIFICATION Spec
CHECK_DEADLOCK FALSE
CONSTANTS
  Gor = {g1, g2}
  Types = {"R", "S", "A", "T", "Q", "P"}
  Child <- MCChild
  Inline <- MCInline
  Hook <- MCHook
  Quoted = {"R", "Q"}
  Roots = {"R", "T", "A", "P"}
  MaxCalls = 1
INVARIANTS
  BuildsAttended
  DescriptorsExact
  EncodersExact
PROPERTIES
  PublishedStays
  CallsReturn
