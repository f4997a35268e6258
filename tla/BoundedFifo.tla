----------------------------- MODULE BoundedFifo -----------------------------
(***************************************************************************)
(* What CircularQueue promises: first in, first out, and never more than   *)
(* Capacity elements.                                                      *)
(***************************************************************************)
EXTENDS Naturals, Sequences

CONSTANTS Capacity

VARIABLE items

Init == items = <<>>

Put ==
  /\ Len(items) < Capacity
  /\ Len(items') = Len(items) + 1
  /\ SubSeq(items', 1, Len(items)) = items

Get == items # <<>> /\ items' = Tail(items)

Next == Put \/ Get

Spec == Init /\ [][Next]_items
=============================================================================
