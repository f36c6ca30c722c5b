CONSTANTS
  NInodes = 2
  NData = 3
  BlockSize = 2
  NDirect = 3
  CutBlocks = {}
  Words <- MCWords
  HeapWords <- MCHeap
  Payloads <- MCPayloads
  Offsets <- MCOffsets
  ReadLengths <- MCLengths
  MaxLen = 9
  MaxPending = 1
SPECIFICATION DirectSpec
INVARIANTS NoSharing BitmapsSafe NoLeak ObjectCoherent CallsHoldTheirInode DirectInv WordsTracked
PROPERTIES ImplementsStore ShortWriteMeansFull
CHECK_DEADLOCK FALSE
