-------------------------------- MODULE Heap --------------------------------
(***************************************************************************)
(* The kernel heap: a pool of memory cut into blocks, each a header with   *)
(* its data behind it, linked in both directions; kmalloc takes the first  *)
(* block that fits and splits it, kfree merges a block with free ones next *)
(* to it.                                                                  *)
(*                                                                         *)
(* An address is an offset into the pool.  `at` is the memory as far as    *)
(* headers go: the header at every address where an intact one lies.  To   *)
(* write a header, or data, destroys the headers it overlaps.  heap_tail   *)
(* is left out: the code sets it and never reads it.                       *)
(***************************************************************************)
EXTENDS Naturals, FiniteSets, SequencesExt

CONSTANTS HeaderSize,  (* sizeof(HeapBlockHeader)                          *)
          Null,        (* the null pointer                                 *)
          Loads        (* what may be asked of the heap: the size of its   *)
                       (* pool (KMALLOC_POOL_SIZE), the sizes and          *)
                       (* alignments asked for, and whether memory is ever *)
                       (* freed                                            *)

ASSUME HeapAssumption ==
  /\ HeaderSize \in Nat \ {0} /\ Null \notin Nat
  /\ \A l \in Loads :
       /\ l.pool \in Nat /\ l.pool > HeaderSize
       /\ l.requests \subseteq [size : Nat \ {0}, alignment : Nat \ {0}]
       /\ l.may_free \in BOOLEAN

VARIABLES
  load,       (* what this run asks of the heap                            *)
  heap_head,  (* heap_head                                                 *)
  at,         (* the headers in the pool                                   *)
  live,       (* what kmalloc returned and kfree did not take back yet: the *)
              (* address of the data, and the request                      *)
  panic       (* kfree ran into PANIC()                                    *)

vars == <<load, heap_head, at, live, panic>>

data_start(a) == a + HeaderSize
block_end(mem, a) == data_start(a) + mem[a].data_size

(* Writing n cells at a destroys every header that reaches into them.      *)
destroy(mem, a, n) ==
  [b \in {c \in DOMAIN mem : c >= a + n \/ data_start(c) <= a} |-> mem[b]]

put_header(mem, a, header) ==
  LET rest == destroy(mem, a, HeaderSize)
  IN  [b \in DOMAIN rest \cup {a} |-> IF b = a THEN header ELSE rest[b]]

Header(size, next, prev) ==
  [allocated |-> FALSE, data_size |-> size, next |-> next, prev |-> prev]

Init ==
  /\ load \in Loads
  /\ heap_head = 0
  /\ at = [a \in {0} |-> Header(load.pool - HeaderSize, Null, Null)]
  /\ live = {}
  /\ panic = FALSE
-----------------------------------------------------------------------------
(* kmalloc_common                                                          *)

round_up(a, alignment) == alignment * ((a + alignment - 1) \div alignment)

(* Mutant: the room lost to alignment is not counted.                      *)
fits_unaligned(mem, a, r) == ~mem[a].allocated /\ mem[a].data_size >= r.size

(* The tests of the search; align_block returns 0 when they fail.          *)
fits(mem, a, r) ==
  /\ ~mem[a].allocated
  /\ mem[a].data_size >= r.size
  /\ round_up(data_start(a), r.alignment) + r.size <= block_end(mem, a)

(* The blocks in the order of the list.                                    *)
Chain ==
  LET follow(chain, n) ==
        LET a == Last(chain) IN
        IF a \notin DOMAIN at \/ at[a].next = Null THEN chain ELSE Append(chain, at[a].next)
  IN  FoldLeft(follow, <<heap_head>>, [n \in 1..Cardinality(DOMAIN at) |-> n])

first_fit(r) ==
  LET i == SelectInSeq(Chain, LAMBDA a : a \in DOMAIN at /\ fits(at, a, r))
  IN  IF i = 0 THEN Null ELSE Chain[i]

(* Each part of split_block turns the memory into the memory after it.     *)

(* No offset, no free block behind: the rest becomes a block if it can.    *)
split_behind(mem, a, split_at) ==
  LET next == mem[a].next
      remainder == block_end(mem, a) - split_at
      cut == [mem EXCEPT ![a].data_size = split_at - data_start(a), ![a].next = split_at]
      linked == [b \in DOMAIN cut |-> IF b = next THEN [cut[b] EXCEPT !.prev = split_at]
                                      ELSE cut[b]]
  IN  IF remainder <= HeaderSize THEN mem
      ELSE put_header(linked, split_at, Header(remainder - HeaderSize, next, a))

(* No offset, a free block behind: it is to take over the rest.            *)
split_into_next(mem, a, split_at) ==
  LET next == mem[mem[a].next]
      size == split_at - data_start(a)
  IN  put_header([mem EXCEPT ![a].data_size = size], split_at,
                 Header(next.data_size + (mem[a].data_size - size), next.next, a))

(* Mutant: the block before keeps pointing at the old header.              *)
move_header_unlinked(mem, a, b) ==
  LET prev == mem[a].prev
      moved == put_header(mem, b, Header(0, mem[a].next, prev))
  IN  IF prev # Null THEN [moved EXCEPT ![prev].data_size = @ + (b - a)] ELSE moved

(* The header moves to b, so that the data is aligned: what it leaves goes *)
(* to the block before it, or becomes a block, or is lost.                 *)
move_header(mem, a, b) ==
  LET prev == mem[a].prev
      moved == put_header(mem, b, Header(0, mem[a].next, prev))
  IN  IF prev # Null
      THEN [moved EXCEPT ![prev].data_size = @ + (b - a), ![prev].next = b]
      ELSE IF b - a > HeaderSize
      THEN [moved EXCEPT ![a] = Header(b - a - HeaderSize, b, Null), ![b].prev = a]
      ELSE moved

split_moved(mem, a, b, split_at) ==
  LET end == block_end(mem, a)
      remainder == end - split_at
      moved == move_header(mem, a, b)
  IN  IF remainder > HeaderSize
      THEN put_header([moved EXCEPT ![b].data_size = split_at - data_start(b),
                                    ![b].next = split_at],
                      split_at, Header(remainder - HeaderSize, Null, b))
      ELSE [moved EXCEPT ![b].data_size = end - b]

split_block(mem, a, b, split_at) ==
  IF b # a THEN split_moved(mem, a, b, split_at)
  ELSE IF mem[a].next # Null /\ ~mem[mem[a].next].allocated
  THEN split_into_next(mem, a, split_at)
  ELSE split_behind(mem, a, split_at)

(* The caller may write all it asked for.                                  *)
kmalloc(r) ==
  LET a == first_fit(r)
      data == round_up(data_start(a), r.alignment)
      b == data - HeaderSize
      split == split_block(at, a, b, data + r.size)
  IN
  /\ ~panic
  /\ a # Null
  /\ at' = destroy([split EXCEPT ![b].allocated = TRUE], data, r.size)
  /\ heap_head' = IF b # a /\ at[a].prev = Null /\ b - a <= HeaderSize THEN b ELSE heap_head
  /\ live' = live \cup {[addr |-> data, request |-> r]}
  /\ UNCHANGED <<load, panic>>
-----------------------------------------------------------------------------
(* kfree                                                                   *)

merge_blocks(mem, left, right) ==
  LET next == mem[right].next
      merged == [mem EXCEPT ![left].next = next,
                            ![left].data_size = @ + mem[right].data_size + HeaderSize]
  IN  IF next = Null THEN merged ELSE [merged EXCEPT ![next].prev = left]

(* Mutant: only the block behind is merged.                                *)
merge_before_skipped(mem, a) == [mem |-> mem, block |-> a]

merge_before(mem, a) ==
  IF mem[a].prev # Null /\ ~mem[mem[a].prev].allocated
  THEN [mem |-> merge_blocks(mem, mem[a].prev, a), block |-> mem[a].prev]
  ELSE [mem |-> mem, block |-> a]

merge_behind(mem, a) ==
  IF mem[a].next # Null /\ ~mem[mem[a].next].allocated
  THEN merge_blocks(mem, a, mem[a].next) ELSE mem

kfree(allocation) ==
  LET a == allocation.addr - HeaderSize IN
  /\ load.may_free
  /\ ~panic
  /\ live' = live \ {allocation}
  /\ IF a \notin DOMAIN at
     THEN panic' = TRUE /\ UNCHANGED at
     ELSE LET m == merge_before([at EXCEPT ![a].allocated = FALSE], a)
          IN  at' = merge_behind(m.mem, m.block) /\ UNCHANGED panic
  /\ UNCHANGED <<load, heap_head>>

Next ==
  \/ \E r \in load.requests : kmalloc(r)
  \/ \E allocation \in live : kfree(allocation)

Spec == Init /\ [][Next]_vars
-----------------------------------------------------------------------------
(* Memory handed out is in the pool and aligned, no two pieces of it       *)
(* overlap, and none overlaps a header that kfree or the search will read. *)
AllocationsAreSafe ==
  /\ \A x \in live : /\ x.addr % x.request.alignment = 0
                     /\ x.addr + x.request.size <= load.pool
  /\ \A x, y \in live : x # y =>
       x.addr + x.request.size + HeaderSize <= y.addr
         \/ y.addr + y.request.size + HeaderSize <= x.addr
  /\ \A x \in live : x.addr - HeaderSize \in DOMAIN at

(* Every block handed out can be reached from heap_head, however the list  *)
(* was cut and merged: what cannot be reached is lost for good.            *)
NoBlockLost == \A x \in live : x.addr - HeaderSize \in ToSet(Chain)

(* The list holds every block once, in the order of their addresses: each  *)
(* block ends where the next begins, and knows its neighbours; the         *)
(* allocated ones are those handed out.                                    *)
ListIsSound ==
  /\ ToSet(Chain) \subseteq DOMAIN at
  /\ at[heap_head].prev = Null
  /\ \A i \in 1..Len(Chain) - 1 :
       block_end(at, Chain[i]) = Chain[i + 1] /\ at[Chain[i + 1]].prev = Chain[i]
  /\ {a \in ToSet(Chain) : at[a].allocated} = {x.addr - HeaderSize : x \in live}

(* Where memory is freed it can be used again: the blocks cover the pool,  *)
(* and two free ones are never neighbours, so that all of it freed is one  *)
(* block again.                                                            *)
FreedMemoryIsReusable ==
  load.may_free =>
    /\ heap_head = 0
    /\ block_end(at, Last(Chain)) = load.pool
    /\ \A i \in 1..Len(Chain) - 1 : at[Chain[i]].allocated \/ at[Chain[i + 1]].allocated
=============================================================================
