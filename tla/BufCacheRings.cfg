\* Three buffers, two hash queues, four blocks; the user marks buffers valid
\* and for delayed writing.
SPECIFICATION Spec
CONSTANTS
  Buf = {p1, p2, p3}
  NHASH = 2
  Blk = {0, 1, 2, 3}
  NoBlk = NoBlk
  HashList <- ThreeBlocks
  FreeList <- TwoFree
  Settable = {"V", "D"}
  FreeHead = FreeHead
  NULL = NULL
SYMMETRY Symmetry
INVARIANTS TypeOK FreeIfUnlocked QueuesComplete OneBufferPerBlock WaitedIsHeld
PROPERTIES HeldKeepsBlock
