CONSTANTS
  NInodes = 2
  NData = 6
  BlockSize = 3
  NDirect = 1
  CutBlocks = {}
  Words <- MCWords
  HeapWords <- MCHeap
  Payloads <- LargePayloads
  Offsets <- MCOffsets
  ReadLengths <- MCLengths
  MaxLen = 12
  MaxPending = 1
SPECIFICATION AnyOrderSpec
INVARIANT FillsOwnChain
CHECK_DEADLOCK FALSE
