\* Eight frames in regions of every shape, released in any order.  An allocator
\* that followed a bad pointer stops.  Page tables of two entries, three of them
\* in the kernel's window.
SPECIFICATION Spec
CONSTANTS
  frame_count = 8
  None = none
  PageSize = 2
  TableEntries = 2
  DirEntries = 12
  KernelTable = 9
  InitTables = 2
  NoTable = notable
  MaxMemory = 14
CHECK_DEADLOCK FALSE
INVARIANTS
  ChunksAreDisjoint
  FreeChunksAligned
  BootMergesFully
  MemoryIsMapped
PROPERTIES
  RequestsAreMet
