CONSTANTS
  NInodes = 2
  NData = 3
  BlockSize = 2
  NDirect = 2
  CutBlocks = {}
  Words <- MCWords
  HeapWords <- MCHeap
  Payloads <- SmallPayloads
  Offsets <- MCOffsets
  ReadLengths <- MCLengths
  MaxLen = 6
  MaxPending = 1
SPECIFICATION AnyEditSpec
PROPERTY EditSucceeds
CHECK_DEADLOCK FALSE
