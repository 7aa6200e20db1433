SPECIFICATION Spec
CONSTANTS
  TotalBlocks = 5
  BlockSize = 2
  SAddr = 2
  WordMod = 16
  Sizes <- MCSizes
  Pointers <- MCPointers
INVARIANTS WellFormed BigEnough
PROPERTY Implements
