CONSTANTS
  Quant = 2
  Int32 = 11
  StaleSizes <- MCStale
  InodeShare = 2
  InitialFiles <- MCFiles
  BlockSizes = {2, 3, 4}
  NewImages <- MCNewImages
  Numbers = {0, 1, 2}
  Values <- MCValues
  Offsets <- MCOffsets
  Data <- MCData
  RawBlocks <- MCRaw
  MaxMounts = 4
SPECIFICATION Spec
INVARIANTS VolumeTypeOK MountsAccounted CacheCoherent SuperBlockKept
PROPERTIES ImageKept ImplementsDevice
VIEW StateView
