-------------------------------- MODULE Paging --------------------------------
(***************************************************************************)
(* The page tables of the kernel: those that init_paging sets up before    *)
(* kmain, for the first few megabytes, and those that MemoryManager builds *)
(* from the memory map once there is a heap.  A directory maps an index to *)
(* a table, a table an index to a frame's address; flags are left out.     *)
(*                                                                         *)
(* Addresses are words of Space values, the tables are smaller than the    *)
(* processor's 1024 entries.                                               *)
(***************************************************************************)
EXTENDS Integers, Sequences

CONSTANTS PageSize,      (* PAGE_SIZE                                      *)
          TableEntries,  (* entries of a page table                        *)
          DirEntries,    (* entries of a page directory                    *)
          KernelTable,   (* the entry of KERNEL_VADDR_OFFSET               *)
          InitTables,    (* tables that init_paging fills for the kernel   *)
          NoTable        (* an entry that was not written                  *)

Span == PageSize * TableEntries
Space == Span * DirEntries
KERNEL_VADDR_OFFSET == KernelTable * Span

ASSUME PagingAssumption ==
  /\ {PageSize, TableEntries, DirEntries, KernelTable, InitTables} \subseteq Nat \ {0}
  /\ KernelTable + InitTables <= DirEntries
  /\ NoTable \notin [0 .. TableEntries - 1 -> Int]

Word(a) == a % Space
PAGE_TABLE_INDEX(a) == Word(a) \div Span
PAGE_INDEX(a) == (Word(a) \div PageSize) % TableEntries

(* Mutant: a memory that ends within a table leaves that table out.        *)
whole_tables(bytes) == bytes \div Span

(* ceil_divide of a word by what a table maps.                             *)
tables_for(bytes) == Word(bytes + Span - 1) \div Span

(* The table that maps the memory from i * Span on.                        *)
table(i) == [j \in 0 .. TableEntries - 1 |-> Word((j + i * TableEntries) * PageSize)]

(* Table i goes to the entry of its address in the kernel's window, for    *)
(* the first n tables; past the last entry, to those at the start.         *)
with_kernel_tables(dir, n) ==
  [k \in 0 .. DirEntries - 1 |->
     LET window == {i \in 0 .. n - 1 :
                      PAGE_TABLE_INDEX(KERNEL_VADDR_OFFSET + i * Span) = k}
     IN  IF window = {} THEN dir[k] ELSE table(CHOOSE i \in window : TRUE)]

unwritten == [k \in 0 .. DirEntries - 1 |-> NoTable]

(* init_paging: the code still runs at physical addresses when paging is   *)
(* turned on, so the first ones are mapped to themselves.                  *)
init_pg_dir == with_kernel_tables([unwritten EXCEPT ![0] = table(0)], InitTables)

(* get_physical_mem_size: the end of the memory map's last usable region.  *)
mem_size(map) ==
  LET usable == {i \in DOMAIN map : map[i].usable}
      last == map[CHOOSE i \in usable : \A j \in usable : j <= i]
  IN  IF usable = {} THEN 0 ELSE Word(last.base + last.length)

(* init_kernel_paging.  The directory comes from the heap as it is there.  *)
kernel_dir(map) ==
  LET last == Space - 1
      size == mem_size(map)
      top == Word(KERNEL_VADDR_OFFSET + size)
      end == IF top < last THEN top ELSE last
  IN  with_kernel_tables(unwritten, tables_for(Word(end - KERNEL_VADDR_OFFSET)))

(* What the processor makes of an address, or -1.                          *)
walk(dir, a) ==
  LET t == dir[PAGE_TABLE_INDEX(a)]
  IN  IF t = NoTable THEN -1 ELSE t[PAGE_INDEX(a)] + (a % PageSize)
-----------------------------------------------------------------------------
(* Memory maps as a BIOS reports them: up to three regions in the order of *)
(* their addresses.                                                        *)
MemoryMaps(top) ==
  {<<[base |-> 0, length |-> c, usable |-> p],
     [base |-> c, length |-> d - c, usable |-> q],
     [base |-> d, length |-> e - d, usable |-> r]>> :
     c \in 1 .. top, d \in 1 .. top, e \in 1 .. top,
     p \in BOOLEAN, q \in BOOLEAN, r \in BOOLEAN}

IsOrdered(map) == \A r \in {map[i] : i \in DOMAIN map} : r.length >= 0

(* Both directories give each byte of memory its address in the kernel's   *)
(* window: init_paging the bytes of its tables, and the first table's      *)
(* themselves; MemoryManager every usable byte of the memory map that the  *)
(* window has room for, wherever a region, a page or a table ends.  So     *)
(* nothing that is in use moves when the directory is switched.            *)
KernelIsMapped(top) ==
  /\ \A a \in 0 .. InitTables * Span - 1 : walk(init_pg_dir, KERNEL_VADDR_OFFSET + a) = a
  /\ \A a \in 0 .. Span - 1 : walk(init_pg_dir, a) = a
  /\ \A map \in {m \in MemoryMaps(top) : IsOrdered(m)} :
       LET dir == kernel_dir(map)
       IN  \A r \in {map[i] : i \in DOMAIN map} :
             r.usable => \A a \in r.base .. r.base + r.length - 1 :
               a < Space - KERNEL_VADDR_OFFSET => walk(dir, KERNEL_VADDR_OFFSET + a) = a
=============================================================================
