---------------------------- MODULE IntrusiveList ----------------------------
(***************************************************************************)
(* List<Elem, node>: doubly linked lists whose links are in the elements.  *)
(* A node has one pair of links and moves between lists, as a task moves   *)
(* between run queue, expired queue and wait queue.                        *)
(*                                                                         *)
(* The other modules have sequences in place of these lists.  queue is     *)
(* those sequences, changed as the other modules change them: a history    *)
(* variable that no operation reads but for its caller's part of the       *)
(* bargain, which is to append what is in no list and to remove what is in *)
(* the list.  left_append has no caller.                                   *)
(***************************************************************************)
EXTENDS Queues

CONSTANTS Nodes, Lists,
          Null  (* the null pointer *)

ASSUME ListAssumption == Null \notin Nodes \cup Lists

VARIABLES
  next, prev, list,     (* of a ListNode                                   *)
  head_, tail_, size_,  (* of a List                                       *)
  panic,                (* an assertion failed, or null was followed       *)
  queue

links == <<next, prev, list>>
ends == <<head_, tail_, size_>>
listVars == <<links, ends, panic, queue>>

ListInit ==
  /\ next = [n \in Nodes |-> Null]
  /\ prev = [n \in Nodes |-> Null]
  /\ list = [n \in Nodes |-> Null]
  /\ head_ = [l \in Lists |-> Null]
  /\ tail_ = [l \in Lists |-> Null]
  /\ size_ = [l \in Lists |-> 0]
  /\ panic = FALSE
  /\ queue = [l \in Lists |-> <<>>]

ListPanic == panic' = TRUE /\ UNCHANGED <<links, ends>>

one_more(l) == size_' = [size_ EXCEPT ![l] = @ + 1]

append_last(l, n) ==
  /\ next' = [next EXCEPT ![tail_[l]] = n, ![n] = Null]
  /\ prev' = [prev EXCEPT ![n] = tail_[l]]
  /\ UNCHANGED head_

append_only(l, n) ==
  /\ next' = [next EXCEPT ![n] = Null]
  /\ prev' = [prev EXCEPT ![n] = Null]
  /\ head_' = [head_ EXCEPT ![l] = n]

append(l, n) ==
  /\ ~panic
  /\ \A k \in Lists : n \notin Elems(queue[k])
  /\ queue' = [queue EXCEPT ![l] = Append(@, n)]
  /\ IF prev[n] # Null \/ next[n] # Null \/ (tail_[l] = Null /\ head_[l] # Null)
     THEN ListPanic
     ELSE /\ \/ tail_[l] # Null /\ append_last(l, n)
             \/ tail_[l] = Null /\ append_only(l, n)
          /\ tail_' = [tail_ EXCEPT ![l] = n]
          /\ list' = [list EXCEPT ![n] = l]
          /\ one_more(l)
          /\ UNCHANGED panic

(* The node leaves with no neighbours.                                     *)
unlinked(n) ==
  /\ list' = [list EXCEPT ![n] = Null]
  /\ UNCHANGED panic

(* Mutant: the new last node still points at the one that left.            *)
take_last_dangling(l) ==
  LET t == tail_[l]  last == prev[t] IN
  /\ tail_' = [tail_ EXCEPT ![l] = last]
  /\ head_' = IF last = Null THEN [head_ EXCEPT ![l] = Null] ELSE head_
  /\ next' = [next EXCEPT ![t] = Null]
  /\ prev' = [prev EXCEPT ![t] = Null]
  /\ size_' = [size_ EXCEPT ![l] = @ - 1]
  /\ unlinked(t)

(* pop, without its assertion.                                             *)
take_last(l) ==
  LET t == tail_[l]  last == prev[t] IN
  /\ tail_' = [tail_ EXCEPT ![l] = last]
  /\ head_' = IF last = Null THEN [head_ EXCEPT ![l] = Null] ELSE head_
  /\ next' = [n \in Nodes |-> IF n \in {t, last} THEN Null ELSE next[n]]
  /\ prev' = [prev EXCEPT ![t] = Null]
  /\ size_' = [size_ EXCEPT ![l] = @ - 1]
  /\ unlinked(t)

(* left_pop, without its assertion.                                        *)
take_first(l) ==
  LET t == head_[l]  first == next[t] IN
  /\ head_' = [head_ EXCEPT ![l] = first]
  /\ tail_' = IF first = Null THEN [tail_ EXCEPT ![l] = Null] ELSE tail_
  /\ prev' = [n \in Nodes |-> IF n \in {t, first} THEN Null ELSE prev[n]]
  /\ next' = [next EXCEPT ![t] = Null]
  /\ size_' = [size_ EXCEPT ![l] = @ - 1]
  /\ unlinked(t)

(* A caller that finds the list not empty().                               *)
pop(l) ==
  /\ ~panic
  /\ size_[l] # 0
  /\ queue' = [queue EXCEPT ![l] = SubSeq(@, 1, Len(@) - 1)]
  /\ IF tail_[l] = Null THEN ListPanic ELSE take_last(l)

left_pop_node(l) ==
  /\ ~panic
  /\ size_[l] # 0
  /\ queue' = [queue EXCEPT ![l] = Tail(@)]
  /\ IF head_[l] = Null THEN ListPanic ELSE take_first(l)

(* Mutant: the links of the node that leaves are kept.                     *)
take_between_linked(l, n) ==
  /\ next' = [next EXCEPT ![prev[n]] = next[n]]
  /\ prev' = [prev EXCEPT ![next[n]] = prev[n]]
  /\ size_' = [size_ EXCEPT ![l] = @ - 1]
  /\ UNCHANGED <<head_, tail_, list, panic>>

(* The node forgets its neighbours and remembers the list.                 *)
take_between(l, n) ==
  /\ next' = [next EXCEPT ![prev[n]] = next[n], ![n] = Null]
  /\ prev' = [prev EXCEPT ![next[n]] = prev[n], ![n] = Null]
  /\ size_' = [size_ EXCEPT ![l] = @ - 1]
  /\ UNCHANGED <<head_, tail_, list, panic>>

remove_node(l, n) ==
  /\ ~panic
  /\ n \in Elems(queue[l])
  /\ queue' = [queue EXCEPT ![l] = remove(@, n)]
  /\ IF head_[l] = n THEN take_first(l)
     ELSE IF tail_[l] = n THEN take_last(l)
     ELSE IF list[n] # l \/ prev[n] = Null \/ next[n] = Null THEN ListPanic
     ELSE take_between(l, n)

ListNext ==
  \E l \in Lists :
    \/ pop(l)
    \/ left_pop_node(l)
    \/ \E n \in Nodes : append(l, n) \/ remove_node(l, n)

ListSpec == ListInit /\ [][ListNext]_listVars
-----------------------------------------------------------------------------
ListTypeOK ==
  /\ next \in [Nodes -> Nodes \cup {Null}] /\ prev \in [Nodes -> Nodes \cup {Null}]
  /\ list \in [Nodes -> Lists \cup {Null}]
  /\ head_ \in [Lists -> Nodes \cup {Null}] /\ tail_ \in [Lists -> Nodes \cup {Null}]
  /\ size_ \in [Lists -> Nat]
  /\ panic \in BOOLEAN
  /\ queue \in [Lists -> Seq(Nodes)]

(* As long as callers keep their part, no assertion of the lists fails: a  *)
(* node that left a list, from an end or from between, can join another.   *)
ListsNoPanic == ~panic

(* Forwards, backwards, from both ends and by its size a list is its       *)
(* sequence, whatever list its nodes were in before.                       *)
ListIsQueue(l) ==
  LET q == queue[l] IN
  /\ size_[l] = Len(q)
  /\ head_[l] = IF q = <<>> THEN Null ELSE q[1]
  /\ tail_[l] = IF q = <<>> THEN Null ELSE q[Len(q)]
  /\ \A i \in 1..Len(q) :
       /\ next[q[i]] = IF i = Len(q) THEN Null ELSE q[i + 1]
       /\ prev[q[i]] = IF i = 1 THEN Null ELSE q[i - 1]
       /\ list[q[i]] = l

(* The pointers of all lists are the sequences that stand for them.        *)
ListsAreQueues == \A l \in Lists : ListIsQueue(l)
=============================================================================
