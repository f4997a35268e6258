SPECIFICATION Spec
CONSTANTS
  Buses = {0, 1}
  Slots = {0, 1}
  Functions = {0, 1, 2}
  Absent = Absent
  Byte = 8
  Nibble = 2
  Heads = 2
  SectorsPerTrack = 3
  Machines <- MCMachines
  Null = Null
  Requests <- MCRequests
  MaxReads = 2
  DescsPerSector = 2
  AddressSpace = 256
  StackFrames = 3
INVARIANTS
  InitFindsDrives
  ReadsAreFaithful
  ListingIsComplete
PROPERTY
  CommandsEnd
CHECK_DEADLOCK FALSE
