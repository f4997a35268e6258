\* Six frames: memory whose size is not a power of two.
SPECIFICATION Spec
CONSTANTS
  frame_count = 6
  None = none
  PageSize = 2
  TableEntries = 2
  DirEntries = 12
  KernelTable = 9
  InitTables = 2
  NoTable = notable
  MaxMemory = 14
CHECK_DEADLOCK FALSE
INVARIANTS
  FreeChunksAligned
