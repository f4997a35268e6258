-------------------------------- MODULE Buddy --------------------------------
(***************************************************************************)
(* The buddy allocator for page frames.  A chunk is 2^order frames; a free *)
(* one is in the list of its order, and frames[i].chunk points at the      *)
(* chunk that starts at frame i.  One bit for each pair of buddies is set  *)
(* when one of the two is free.                                            *)
(*                                                                         *)
(* At boot init_frames releases the memory map's regions.  frames has      *)
(* frame_count entries; the region's end, which the code passes as if it   *)
(* were its last frame, may be the frame behind them.                      *)
(*                                                                         *)
(* The C++ objects are told apart by their first frame: two chunks never   *)
(* start at the same one.  The bits are taken to be clear at the start,    *)
(* which the code relies on and does not ensure.                           *)
(***************************************************************************)
EXTENDS Queues, Integers, FiniteSets, SequencesExt

CONSTANTS frame_count,
          None  (* the null pointer *)

ASSUME BuddyAssumption == frame_count \in Nat \ {0} /\ None \notin Int

(* 1U << k                                                                 *)
pow2[k \in Nat] == IF k = 0 THEN 1 ELSE 2 * pow2[k - 1]

floor_order(n) == CHOOSE k \in 0..n : pow2[k] <= n /\ n < pow2[k + 1]
ceil_order(n) == IF n <= 1 THEN 0 ELSE CHOOSE k \in 1..n : pow2[k - 1] < n /\ n <= pow2[k]

max_order == ceil_order(frame_count)
Orders == 0..max_order

VARIABLES
  bitmap,     (* the indices of the bits that are set                      *)
  order_map,  (* for each order the first frames of the free chunks        *)
  chunk,      (* frames[i].chunk: the order of the chunk, or None          *)
  released,   (* the frames free_range was told to release                 *)
  given,      (* what alloc_frames returned                                *)
  phase,      (* "boot" (in init_frames) or "up"                           *)
  crashed     (* the code followed a pointer to no chunk                   *)

vars == <<bitmap, order_map, chunk, released, given, phase, crashed>>

Init ==
  /\ bitmap = {}
  /\ order_map = [o \in Orders |-> <<>>]
  /\ chunk = [i \in 0..frame_count |-> None]
  /\ released = {}
  /\ given = {}
  /\ phase = "boot"
  /\ crashed = FALSE

(* Mutant: the pair is numbered as if it were a chunk.                     *)
bit_index_of_chunk(frame, order) == (frame + frame_count) \div pow2[order]

bit_index(frame, order) == (frame + frame_count) \div pow2[order + 1]

(* A chunk, as its constructor makes it.                                   *)
FrameChunk(frame, order) == [start |-> frame, order |-> order]

without(lists, o, frame) == [lists EXCEPT ![o] = remove(@, frame)]
-----------------------------------------------------------------------------
(* free_pages.  m is the allocator's state with the chunk being freed: its *)
(* first frame m.start and order m.order; m.done says it is in a list.     *)

(* The buddy is free: the two become one, at the address of the left one.  *)
merge(m) ==
  LET index == bit_index(m.start, m.order)
      first == index * pow2[m.order + 1] - frame_count
      right == first = m.start
      buddy == IF right THEN m.start + pow2[m.order] ELSE first
      gone == IF right THEN buddy ELSE m.start
  IN  IF \/ buddy \notin 0..frame_count
         \/ m.chunk[buddy] = None
         \/ buddy \notin ToSet(m.lists[m.chunk[buddy]])
      THEN [m EXCEPT !.crashed = TRUE]
      ELSE [m EXCEPT !.bits = @ \ {index},
                     !.lists = without(@, m.chunk[buddy], buddy),
                     !.chunk[gone] = None,
                     !.start = IF right THEN @ ELSE buddy,
                     !.order = @ + 1]

(* Mutant: the pair's bit is not set.                                      *)
insert_without_bit(m) ==
  [m EXCEPT !.lists[m.order] = Append(@, m.start),
            !.chunk[m.start] = m.order,
            !.done = TRUE]

insert(m) ==
  [m EXCEPT !.bits = @ \cup {bit_index(m.start, m.order)},
            !.lists[m.order] = Append(@, m.start),
            !.chunk[m.start] = m.order,
            !.done = TRUE]

(* One turn of the loop over the orders.                                   *)
merge_or_insert(m) ==
  IF m.done \/ m.crashed THEN m
  ELSE IF bit_index(m.start, m.order) \in m.bits THEN merge(m) ELSE insert(m)

free_pages(m) ==
  FoldLeft(LAMBDA n, i : merge_or_insert(n), m, [i \in 1..max_order - m.order + 1 |-> i])

(* Mutant: the chunk may be as large as what is left of the range.         *)
chunk_order_unaligned(left, right) == floor_order(right - left + 1)

(* The order of the next chunk of a range.                                 *)
chunk_order(left, right) ==
  LET most == Min({floor_order(right - left + 1), ceil_order(left)})
  IN  Max({o \in 0..most : left % pow2[o] = 0})

(* The next chunk of the range is released.                                *)
release(m, right) ==
  IF m.left > right \/ m.crashed THEN m
  ELSE LET order == chunk_order(m.left, right)
       IN  [free_pages([m EXCEPT !.start = m.left, !.order = order, !.done = FALSE])
              EXCEPT !.left = m.left + pow2[order]]

release_range(start, right, turns) ==
  FoldLeft(LAMBDA m, i : release(m, right), start, [i \in 1..turns |-> i])

free_range(left, right) ==
  LET start == [bits |-> bitmap, lists |-> order_map, chunk |-> chunk,
                start |-> 0, order |-> 0, done |-> TRUE, crashed |-> FALSE, left |-> left]
      end == release_range(start, right, right - left + 1)
  IN
  /\ phase = "boot" /\ ~crashed
  /\ (left..right) \cap released = {}
  /\ released' = released \cup (left..right)
  /\ bitmap' = end.bits /\ order_map' = end.lists /\ chunk' = end.chunk
  /\ crashed' = end.crashed
  /\ UNCHANGED <<given, phase>>

(* init_frames returns.                                                    *)
finish_init ==
  /\ phase = "boot" /\ ~crashed
  /\ phase' = "up"
  /\ UNCHANGED <<bitmap, order_map, chunk, released, given, crashed>>
-----------------------------------------------------------------------------
(* alloc_frames                                                            *)

(* Mutant: the order is rounded down.                                      *)
order_for_rounded_down(count) == floor_order(count)

order_for(count) == ceil_order(count)

(* Mutant: the left half stays where it was.                               *)
split_keeps_left(lists, frame, order) ==
  [lists EXCEPT ![order - 1] = @ \o <<frame>>]

(* split_chunk: the right half is then taken off its list again.           *)
split_lists(lists, frame, order) ==
  [without(lists, order, frame) EXCEPT ![order - 1] = Append(@, frame)]

right_half(frame, order) == frame + pow2[order - 1]

(* A chunk of the very order is taken off its list; only when it is the    *)
(* largest there is does the code return it.                               *)
take_exact(order) ==
  /\ order_map[order] # <<>>
  /\ order = max_order
  /\ order_map' = [order_map EXCEPT ![order] = Front(@)]
  /\ given' = given \cup {FrameChunk(Last(order_map[order]), order)}
  /\ UNCHANGED <<bitmap, chunk>>

(* Else a larger chunk is split, once; what was taken before is forgotten. *)
take_larger(order) ==
  LET exact == order_map[order]
      index == bit_index(Last(exact), order)
      lists == IF exact = <<>> THEN order_map ELSE [order_map EXCEPT ![order] = Front(@)]
      bits == IF exact = <<>> THEN bitmap
              ELSE IF index \in bitmap THEN bitmap \ {index} ELSE bitmap \cup {index}
      larger == {o \in order + 1..max_order : lists[o] # <<>>}
  IN
  /\ order < max_order
  /\ IF larger = {}
     THEN /\ order_map' = lists /\ bitmap' = bits
          /\ UNCHANGED <<chunk, given>>
     ELSE LET from == Min(larger)
              left == Head(lists[from])
              right == right_half(left, from)
          IN  /\ order_map' = split_lists(lists, left, from)
              /\ chunk' = [chunk EXCEPT ![left] = from - 1, ![right] = from - 1]
              /\ bitmap' = bits \cup {bit_index(right, from - 1)}
              /\ given' = given \cup {FrameChunk(right, from - 1)}

(* No larger chunk: the search reads one list too far, whose bytes belong  *)
(* to something else.  Found empty, it makes the code return null.         *)
search_runs_out(order) ==
  /\ \A o \in order + 1..max_order : order_map[o] = <<>>
  /\ order_map[order] = <<>> \/ order # max_order
  /\ crashed' = TRUE
  /\ UNCHANGED <<bitmap, order_map, chunk, given>>

alloc_frames(count) ==
  LET order == order_for(count) IN
  /\ phase = "up" /\ ~crashed
  /\ \/ take_exact(order) /\ UNCHANGED crashed
     \/ take_larger(order) /\ UNCHANGED crashed
     \/ search_runs_out(order)
  /\ UNCHANGED <<released, phase>>

Next ==
  \/ \E left, right \in 0..frame_count : left <= right /\ free_range(left, right)
  \/ finish_init
  \/ \E count \in 1..frame_count : alloc_frames(count)

Spec == Init /\ [][Next]_vars
-----------------------------------------------------------------------------
Free == UNION {{FrameChunk(f, o) : f \in ToSet(order_map[o])} : o \in Orders}

frames_of(c) == c.start..c.start + pow2[c.order] - 1

(* No frame is free twice, given twice, or free and given; no free or      *)
(* given frame was never released.                                         *)
ChunksAreDisjoint ==
  /\ \A c, d \in Free \cup given : c # d => frames_of(c) \cap frames_of(d) = {}
  /\ Free \cap given = {}
  /\ UNION {frames_of(c) : c \in Free \cup given} \subseteq released
  /\ \A o \in Orders : IsInjective(order_map[o])

(* free_pages asserts it of the chunk it gets, and its comment says it of  *)
(* every chunk: the first frame is a multiple of the chunk's length.       *)
FreeChunksAligned == \A c \in Free : c.start % pow2[c.order] = 0

(* When the regions have been released every frame of them is free, and a  *)
(* bit is set exactly when one of its two buddies is: none is left         *)
(* unmerged, and the next merge will find its buddy.                       *)
BootMergesFully ==
  phase = "boot" =>
    /\ UNION {frames_of(c) : c \in Free} = released
    /\ \A o \in Orders : \A f \in {g \in 0..frame_count - 1 : g % pow2[o + 1] = 0} :
         LET free == {f, f + pow2[o]} \cap ToSet(order_map[o])
         IN  Cardinality(free) # 2 /\ (bit_index(f, o) \in bitmap <=> free # {})
    /\ \A c \in Free : chunk[c.start] = c.order

(* The chunk alloc_frames returns has the frames it was asked for.         *)
RequestsAreMet ==
  [][\A count \in 1..frame_count : alloc_frames(count) =>
       \A c \in given' \ given : Cardinality(frames_of(c)) >= count]_vars
=============================================================================
