SPECIFICATION Spec
CONSTANTS
  SectorsPerCluster = 2
  SectorSize = 2
  Files <- MCFiles
  Sizes <- MCSizes
  Members <- MCMembers
  Offsets <- MCOffsets
INVARIANTS ExactRead FirstClusterReads
PROPERTY MovesOnSuccess ReadEnds
