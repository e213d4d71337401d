SPECIFICATION FairSpec
CONSTANTS
  DefaultBlockSize = 16
  BlockSizes <- MCBlockSizes
  Sizes <- MCSizes
  MaxBlocks = 3
INVARIANTS
  TypeOK
  NoOverlap
  RegionsBacked
  NoLeak
  NoDoubleFree
PROPERTIES
  DestroyEnds
  ImplementsAllocator
CHECK_DEADLOCK FALSE
