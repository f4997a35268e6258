\* Requests of whole multiples of eight bytes, freed in any order; or requests of
\* any size and alignment, never freed, where a full pool ends the run.
SPECIFICATION Spec
CONSTANTS
  HeaderSize = 4
  Null = null
  Loads <- WholeOrBoot
CHECK_DEADLOCK FALSE
INVARIANTS
  AllocationsAreSafe
  ListIsSound
  FreedMemoryIsReusable
