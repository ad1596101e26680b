SPECIFICATION Spec
CONSTANTS
  BlockSizes <- SmallBlockSizes
  ChunkRatios <- SmallRatios
  VirtualSizes <- SmallSizes
  RegionLens <- SmallRegions
  BAT_ENTRY_SIZE = 2
  U64Limit = 11
CHECK_DEADLOCK FALSE
INVARIANTS
  GeometryTypeOK
  IndexInTable
  ChunksTile
