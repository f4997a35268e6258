\* Requests of any size, freed in any order.
SPECIFICATION Spec
CONSTANTS
  HeaderSize = 4
  Null = null
  Loads <- OnlyOdd
CHECK_DEADLOCK FALSE
INVARIANTS
  NoBlockLost
