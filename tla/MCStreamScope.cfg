SPECIFICATION FairSpec
CONSTANTS
  Docs <- All
  Width = 3
INVARIANTS
  ExactlyOnce
  DrivesNest
  ErrorsHold
PROPERTIES
  GivenUpStaysGivenUp
  Terminates
