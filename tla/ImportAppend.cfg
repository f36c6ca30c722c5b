CONSTANTS
  NInodes = 2
  NData = 2
  BlockSize = 3
  NDirect = 5
  CutBlocks = {}
  Words <- MCWords
  HeapWords <- MCHeap
  Payloads = {}
  Offsets = {}
  ReadLengths = {}
  MaxLen = 12
  MaxPending = 1
  CommandLines <- AppendLines
  HostFiles <- MCHostFiles
  LongNames <- MCLongNames
  ChunkSize = 3
  DiskBlock = 1024
  DiskBlocks = 6
SPECIFICATION AnyAppendSpec
INVARIANT ImportIsWhole
CHECK_DEADLOCK FALSE
