SPECIFICATION Spec
CONSTANTS
  SectorsPerCluster = 2
  SectorSize = 2
  Files <- TwoClusters
  Sizes <- MCSizes
  Members <- MCMembers
  Offsets <- MCOffsets
INVARIANT WholeFileLoads
