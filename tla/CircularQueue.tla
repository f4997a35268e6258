---------------------------- MODULE CircularQueue ----------------------------
(***************************************************************************)
(* CircularQueue<T>: a ring of capacity_ slots.  tail_ is the slot of the  *)
(* last element, not the one behind it, so an empty queue has no tail_:    *)
(* the first enqueue resets both indices to slot 0.                        *)
(***************************************************************************)
EXTENDS Naturals, Sequences

CONSTANTS capacity_,  (* the slots                                         *)
          Unused      (* what a slot holds before it is written            *)

ASSUME CapacityAssumption == capacity_ \in Nat \ {0}

VARIABLES data_, head_, tail_, size_

queue_ == <<data_, head_, tail_, size_>>

Slots == 0..capacity_ - 1

QueueInit ==
  /\ data_ = [i \in Slots |-> Unused]
  /\ head_ = 0
  /\ tail_ = 0
  /\ size_ = 0

(* Mutant: an empty queue advances tail_ like any other.                   *)
next_tail_without_reset == (tail_ + 1) % capacity_

(* The slot the next element goes to, and the head with it.                *)
next_tail == IF size_ = 0 THEN 0 ELSE (tail_ + 1) % capacity_

(* Mutant: the test for a full queue is missing.                           *)
enqueue_unbounded(e) ==
  /\ tail_' = next_tail
  /\ head_' = IF size_ = 0 THEN 0 ELSE head_
  /\ data_' = [data_ EXCEPT ![tail_'] = e]
  /\ size_' = size_ + 1

(* enqueue: returns false and changes nothing when the queue is full.      *)
enqueue(e) ==
  IF size_ = capacity_
  THEN UNCHANGED queue_
  ELSE /\ tail_' = next_tail
       /\ head_' = IF size_ = 0 THEN 0 ELSE head_
       /\ data_' = [data_ EXCEPT ![tail_'] = e]
       /\ size_' = size_ + 1

(* What dequeue returns: the code does not test for an empty queue.        *)
front == data_[head_]

dequeue ==
  /\ head_' = (head_ + 1) % capacity_
  /\ size_' = size_ - 1
  /\ UNCHANGED <<data_, tail_>>

(* The elements in the order they will leave.                              *)
Contents == [i \in 1..size_ |-> data_[(head_ + i - 1) % capacity_]]
=============================================================================
