CONSTANTS
  NInodes = 1
  NData = 4
  BlockSize = 2
  NDirect = 1
  CutBlocks = {3}
  Words <- MCWords
  HeapWords <- MCHeap
  Payloads <- MCPayloads
  Offsets <- MCOffsets
  ReadLengths <- MCLengths
  MaxLen = 9
  MaxPending = 2
SPECIFICATION FairSpec
INVARIANTS TypeOK NothingPending LocalsInRange
PROPERTY CallsEnd
CHECK_DEADLOCK FALSE
