-------------------------------- MODULE MCBuddy -------------------------------
(* The memory that MemoryManager sets up at boot, for TLC: the buddy       *)
(* allocator, and the page tables for memory maps up to MaxMemory.         *)
EXTENDS Buddy, Paging

CONSTANT MaxMemory

EveryMapIsMapped == KernelIsMapped(MaxMemory)

(* Once the frames are released and the memory manager switches to its     *)
(* own page directory, every usable byte of memory is where the one        *)
(* before had it: at its address in the kernel's window.                   *)
MemoryIsMapped == phase = "up" => EveryMapIsMapped
=============================================================================
