CONSTANTS
  NInodes = 2
  NData = 6
  BlockSize = 3
  NDirect = 1
  CutBlocks = {}
  Words <- MCWords
  HeapWords <- MCHeap
  Payloads <- MCPayloads
  Offsets <- MCOffsets
  ReadLengths <- MCLengths
  MaxLen = 12
  MaxPending = 1
SPECIFICATION ChainSpec
INVARIANTS NoSharing BitmapsSafe ObjectCoherent CallsHoldTheirInode ListCoversFile
PROPERTY ImplementsStore
CHECK_DEADLOCK FALSE
