-------------------------------- MODULE MCHeap -------------------------------
(* The heap for TLC.  A cell stands for four bytes: the header is four     *)
(* cells, and kmalloc aligns requests of two cells and more to two.        *)
EXTENDS Heap

Request(size, alignment) == [size |-> size, alignment |-> alignment]

(* Multiples of eight bytes, freed in any order, in a pool that takes five *)
(* blocks.                                                                 *)
Whole == [pool |-> 30, may_free |-> TRUE,
          requests |-> {Request(2, 2), Request(4, 2), Request(6, 2)}]

(* Any size, one aligned further and one below eight bytes that is not     *)
(* aligned; nothing is freed, as during most of boot.                      *)
Boot == [pool |-> 48, may_free |-> FALSE,
         requests |-> {Request(1, 1), Request(2, 2), Request(3, 2), Request(5, 2),
                       Request(4, 8)}]

(* Any size, aligned as kmalloc does, freed in any order.                  *)
Odd == [pool |-> 38, may_free |-> TRUE,
        requests |-> {Request(1, 1), Request(2, 2), Request(3, 2), Request(5, 2)}]

WholeOrBoot == {Whole, Boot}
OnlyOdd == {Odd}
=============================================================================
