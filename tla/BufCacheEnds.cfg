\* Two buffers that await a write in any number: getblk() ends, and the free
\* list is a queue.
SPECIFICATION FairSpec
CONSTANTS
  Buf = {p1, p2}
  NHASH = 2
  Blk = {0, 1, 2, 3}
  NoBlk = NoBlk
  HashList <- TwoBlocks
  FreeList <- BothFree
  Settable = {"D", "V", "O"}
  FreeHead = FreeHead
  NULL = NULL
PROPERTIES GetblkEnds ImplementsCache
