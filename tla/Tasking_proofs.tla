---------------------------- MODULE Tasking_proofs ---------------------------
(***************************************************************************)
(* The lists of tasks, and the preemptive tasks that are in them with      *)
(* their mutex: for every set of nodes, lists and tasks, any number of     *)
(* slices and any number of nested critical sections.                      *)
(*                                                                         *)
(* IInv is the inductive invariant of the tasks.  Its core is that they    *)
(* are partitioned between the scheduler's queues and the wait queue, and  *)
(* that the owner of a taken lock is always among the ready ones: this is  *)
(* why schedule() always finds a task when another one blocks.  A task     *)
(* that is made and not appended yet is in no queue, and nobody's owner.   *)
(***************************************************************************)
EXTENDS Mutex, IntrusiveList, SequenceTheorems, TLAPS

(* No node or task is linked twice.                                        *)
Distinct(q) == \A i, j \in 1..Len(q) : q[i] = q[j] => i = j

-----------------------------------------------------------------------------
(* The intrusive lists hold their sequences.  The invariant adds to        *)
(* ListsAreQueues that no node is in a list twice and that a node in no    *)
(* list has no neighbours; that no node is in two lists follows from its   *)
(* list pointer.                                                           *)

InNoList(n) == \A l \in Lists : n \notin Elems(queue[l])

LooseNodes == \A n \in Nodes : InNoList(n) => next[n] = Null /\ prev[n] = Null

ListIInv ==
  /\ ListTypeOK
  /\ ~panic
  /\ ListsAreQueues
  /\ \A l \in Lists : Distinct(queue[l])
  /\ LooseNodes

(* A sequence without its element at p.                                    *)
Without(q, p) == [i \in 1..Len(q) - 1 |-> IF i < p THEN q[i] ELSE q[i + 1]]

LEMMA WithoutProperties ==
  ASSUME NEW S, NEW q \in Seq(S), NEW p \in 1..Len(q), Distinct(q)
  PROVE  /\ Without(q, p) \in Seq(S)
         /\ Len(Without(q, p)) = Len(q) - 1
         /\ \A i \in 1..Len(q) - 1 : Without(q, p)[i] = IF i < p THEN q[i] ELSE q[i + 1]
         /\ Distinct(Without(q, p))
         /\ Elems(Without(q, p)) = Elems(q) \ {q[p]}
<1> DEFINE w == Without(q, p)  k == Len(q)
<1>1. k \in Nat /\ \A i \in 1..k : q[i] \in S
  BY LenProperties, ElementOfSeq
<1>2. k - 1 \in Nat
  BY <1>1
<1>3. \A i \in 1..k - 1 : (IF i < p THEN q[i] ELSE q[i + 1]) \in S
  BY <1>1
<1>4. w \in Seq(S) /\ Len(w) = k - 1
  BY <1>2, <1>3, IsASeq, LenProperties DEF Without
<1>5. \A i \in 1..k - 1 : w[i] = IF i < p THEN q[i] ELSE q[i + 1]
  BY DEF Without
<1>6. Distinct(w)
  BY <1>1, <1>4, <1>5 DEF Distinct
<1>7. Elems(w) = Elems(q) \ {q[p]}
  <2>1. ASSUME NEW x \in Elems(w)  PROVE x \in Elems(q) \ {q[p]}
    <3>1. PICK i \in 1..k - 1 : x = w[i]
      BY <1>4 DEF Elems
    <3>2. PICK j \in 1..k : j # p /\ x = q[j]
      BY <1>1, <1>5, <3>1
    <3>3. QED
      BY <3>2 DEF Elems, Distinct
  <2>2. ASSUME NEW x \in Elems(q) \ {q[p]}  PROVE x \in Elems(w)
    <3>1. PICK i \in 1..k : x = q[i]
      BY DEF Elems
    <3>2. i # p
      BY <2>2, <3>1
    <3>3. CASE i < p
      <4>1. i \in 1..k - 1 /\ w[i] = x
        BY <1>1, <1>5, <3>1, <3>3
      <4>2. QED
        BY <1>4, <4>1 DEF Elems
    <3>4. CASE i > p
      <4>1. i - 1 \in 1..k - 1 /\ w[i - 1] = x
        BY <1>1, <1>5, <3>1, <3>4
      <4>2. QED
        BY <1>4, <4>1 DEF Elems
    <3>5. QED
      BY <1>1, <3>2, <3>3, <3>4
  <2>3. QED
    BY <2>1, <2>2
<1>8. QED
  BY <1>4, <1>5, <1>6, <1>7

(* The three ways to shorten a list leave the same sequence.               *)
LEMMA ShorterIsWithout ==
  ASSUME NEW S, NEW q \in Seq(S), q # <<>>, Distinct(q)
  PROVE  /\ Tail(q) = Without(q, 1)
         /\ SubSeq(q, 1, Len(q) - 1) = Without(q, Len(q))
         /\ \A p \in 1..Len(q) : remove(q, q[p]) = Without(q, p)
<1> DEFINE k == Len(q)
<1>1. k \in Nat \ {0} /\ \A i \in 1..k : q[i] \in S
  BY LenProperties, ElementOfSeq, EmptySeq
<1>2. Tail(q) = Without(q, 1)
  <2>1. /\ Tail(q) \in Seq(S) /\ Len(Tail(q)) = k - 1
        /\ \A i \in 1..k - 1 : Tail(q)[i] = q[i + 1]
    BY HeadTailProperties
  <2>2. 1 \in 1..k
    BY <1>1
  <2>3. /\ Without(q, 1) \in Seq(S) /\ Len(Without(q, 1)) = k - 1
        /\ \A i \in 1..k - 1 : Without(q, 1)[i] = q[i + 1]
    BY <1>1, <2>2, WithoutProperties
  <2>4. QED
    BY <2>1, <2>3, SeqEqual
<1>3. SubSeq(q, 1, k - 1) = Without(q, k)
  <2>1. /\ SubSeq(q, 1, k - 1) \in Seq(S) /\ Len(SubSeq(q, 1, k - 1)) = k - 1
        /\ \A i \in 1..k - 1 : SubSeq(q, 1, k - 1)[i] = q[i]
    <3>1. 1 \in Int /\ k - 1 \in Int /\ \A i \in 1..k - 1 : q[i] \in S
      BY <1>1
    <3> HIDE DEF k
    <3>2. /\ SubSeq(q, 1, k - 1) \in Seq(S)
          /\ Len(SubSeq(q, 1, k - 1)) = IF 1 <= k - 1 THEN k - 1 - 1 + 1 ELSE 0
          /\ \A i \in 1..k - 1 - 1 + 1 : SubSeq(q, 1, k - 1)[i] = q[1 + i - 1]
      BY ONLY <3>1, SubSeqProperties
    <3>3. QED
      BY <1>1, <3>2
  <2>2. k \in 1..k
    BY <1>1
  <2>3. /\ Without(q, k) \in Seq(S) /\ Len(Without(q, k)) = k - 1
        /\ \A i \in 1..k - 1 : Without(q, k)[i] = q[i]
    BY <1>1, <2>2, WithoutProperties
  <2>4. QED
    BY <2>1, <2>3, SeqEqual
<1>4. ASSUME NEW p \in 1..k  PROVE remove(q, q[p]) = Without(q, p)
  <2>1. Head(q) = q[1]
    BY HeadTailProperties
  <2>2. CASE p = 1
    BY <1>2, <2>1, <2>2 DEF remove
  <2>3. CASE p # 1
    <3>1. Head(q) # q[p]
      BY <1>1, <2>1, <2>3 DEF Distinct
    <3>2. (CHOOSE j \in 1..Len(q) : q[j] = q[p]) = p
      BY <1>1 DEF Distinct
    <3>3. remove(q, q[p]) = SubSeq(q, 1, p - 1) \o SubSeq(q, p + 1, k)
      BY <3>1, <3>2 DEF remove
    <3> DEFINE a == SubSeq(q, 1, p - 1)  b == SubSeq(q, p + 1, k)
    <3>4. /\ a \in Seq(S) /\ Len(a) = p - 1
          /\ \A i \in 1..p - 1 : a[i] = q[i]
      <4>1. 1 \in Int /\ p - 1 \in Int /\ \A i \in 1..p - 1 : q[i] \in S
        BY <1>1
      <4>2. /\ a \in Seq(S) /\ Len(a) = IF 1 <= p - 1 THEN p - 1 - 1 + 1 ELSE 0
            /\ \A i \in 1..p - 1 - 1 + 1 : a[i] = q[1 + i - 1]
        BY <4>1, SubSeqProperties
      <4>3. QED
        BY <1>1, <4>2
    <3>5. /\ b \in Seq(S) /\ Len(b) = k - p
          /\ \A i \in 1..k - p : b[i] = q[p + i]
      <4>1. p + 1 \in Int /\ k \in Int /\ \A i \in p + 1..k : q[i] \in S
        BY <1>1
      <4>2. /\ b \in Seq(S) /\ Len(b) = IF p + 1 <= k THEN k - (p + 1) + 1 ELSE 0
            /\ \A i \in 1..k - (p + 1) + 1 : b[i] = q[p + 1 + i - 1]
        BY <4>1, SubSeqProperties
      <4>3. QED
        BY <1>1, <4>2
    <3> HIDE DEF a, b
    <3>6. /\ a \o b \in Seq(S) /\ Len(a \o b) = k - 1
          /\ \A i \in 1..k - 1 : (a \o b)[i] = IF i < p THEN q[i] ELSE q[i + 1]
      <4>1. /\ a \o b \in Seq(S) /\ Len(a \o b) = Len(a) + Len(b)
            /\ \A i \in 1..Len(a) + Len(b) :
                 (a \o b)[i] = IF i <= Len(a) THEN a[i] ELSE b[i - Len(a)]
        BY <3>4, <3>5, ConcatProperties
      <4> DEFINE c == a \o b
      <4> HIDE DEF c
      <4>2. c \in Seq(S) /\ Len(c) = k - 1
        BY <1>1, <3>4, <3>5, <4>1 DEF c
      <4>3. ASSUME NEW i \in 1..k - 1  PROVE c[i] = IF i < p THEN q[i] ELSE q[i + 1]
        <5>1. CASE i < p
          BY <1>1, <3>4, <3>5, <4>1, <5>1 DEF c
        <5>2. CASE i >= p
          <6>1. c[i] = b[i - (p - 1)] /\ i - (p - 1) \in 1..k - p
            BY <1>1, <3>4, <3>5, <4>1, <5>2 DEF c
          <6>2. p + (i - (p - 1)) = i + 1
            BY <1>1
          <6>3. QED
            BY <1>1, <3>5, <5>2, <6>1, <6>2
        <5>3. QED
          BY <1>1, <5>1, <5>2
      <4>4. QED
        BY <4>2, <4>3 DEF c
    <3>7. a \o b = Without(q, p)
      <4>1. /\ Without(q, p) \in Seq(S) /\ Len(Without(q, p)) = k - 1
            /\ \A i \in 1..k - 1 : Without(q, p)[i] = IF i < p THEN q[i] ELSE q[i + 1]
        BY <1>1, WithoutProperties
      <4>2. QED
        BY <3>6, <4>1, SeqEqual
    <3>8. QED
      BY <3>3, <3>7 DEF a, b
  <2>4. QED
    BY <2>2, <2>3
<1>5. QED
  BY <1>2, <1>3, <1>4
-----------------------------------------------------------------------------
(* What the invariant says of one list.                                    *)
LEMMA OneList ==
  ASSUME ListIInv, NEW l \in Lists
  PROVE  /\ queue[l] \in Seq(Nodes) /\ Len(queue[l]) \in Nat
         /\ \A i \in 1..Len(queue[l]) : queue[l][i] \in Nodes /\ queue[l][i] # Null
         /\ queue[l] = <<>> <=> Len(queue[l]) = 0
         /\ ListIsQueue(l)
         /\ Distinct(queue[l])
<1>1. queue[l] \in Seq(Nodes)
  BY DEF ListIInv, ListTypeOK
<1>2. Len(queue[l]) \in Nat /\ \A i \in 1..Len(queue[l]) : queue[l][i] \in Nodes
  BY <1>1, LenProperties, ElementOfSeq
<1>3. queue[l] = <<>> <=> Len(queue[l]) = 0
  BY <1>1, EmptySeq
<1>4. QED
  BY <1>1, <1>2, <1>3, ListAssumption DEF ListIInv, ListsAreQueues

(* A node of one list is in no other.                                      *)
LEMMA OneListEach ==
  ASSUME ListIInv, NEW k \in Lists, NEW l \in Lists, k # l
  PROVE  Elems(queue[k]) \cap Elems(queue[l]) = {}
<1>1. \A n \in Elems(queue[k]) : list[n] = k
  BY OneList DEF ListIsQueue, Elems
<1>2. \A n \in Elems(queue[l]) : list[n] = l
  BY OneList DEF ListIsQueue, Elems
<1>3. QED
  BY <1>1, <1>2

(* A list whose ends, sequence and nodes a step leaves alone stays right.  *)
LEMMA OtherListsStay ==
  ASSUME ListIInv, NEW k \in Lists,
         queue'[k] = queue[k], size_'[k] = size_[k],
         head_'[k] = head_[k], tail_'[k] = tail_[k],
         \A n \in Elems(queue[k]) :
           next'[n] = next[n] /\ prev'[n] = prev[n] /\ list'[n] = list[n]
  PROVE  ListIsQueue(k)' /\ Distinct(queue'[k])
<1>1. ListIsQueue(k) /\ Distinct(queue[k])
  BY OneList
<1>2. \A i \in 1..Len(queue[k]) : queue[k][i] \in Elems(queue[k])
  BY DEF Elems
<1>3. QED
  BY <1>1, <1>2 DEF ListIsQueue

(* l loses its node at p, and only the links that must change do.          *)
Unlinked(l, p) ==
  LET q == queue[l]  n == q[p] IN
  /\ queue' = [queue EXCEPT ![l] = Without(q, p)]
  /\ next' = [m \in Nodes |-> IF m = n THEN Null
                               ELSE IF p > 1 /\ m = q[p - 1] THEN next[n] ELSE next[m]]
  /\ prev' = [m \in Nodes |-> IF m = n THEN Null
                               ELSE IF p < Len(q) /\ m = q[p + 1] THEN prev[n] ELSE prev[m]]
  /\ list' \in [Nodes -> Lists \cup {Null}]
  /\ \A m \in Nodes \ {n} : list'[m] = list[m]
  /\ head_' = [head_ EXCEPT ![l] = IF p = 1 THEN next[n] ELSE @]
  /\ tail_' = [tail_ EXCEPT ![l] = IF p = Len(q) THEN prev[n] ELSE @]
  /\ size_' = [size_ EXCEPT ![l] = @ - 1]
  /\ UNCHANGED panic

(* Losing a node, the lists stay right.                                    *)
LEMMA UnlinkedIInv ==
  ASSUME ListIInv, NEW l \in Lists, NEW p \in 1..Len(queue[l]), Unlinked(l, p)
  PROVE  ListIInv'
<1> DEFINE q == queue[l]  k == Len(q)  n == q[p]  w == Without(q, p)
<1>1. /\ q \in Seq(Nodes) /\ k \in Nat /\ ListIsQueue(l) /\ Distinct(q)
      /\ \A i \in 1..k : q[i] \in Nodes /\ q[i] # Null
  BY OneList
<1>2. /\ w \in Seq(Nodes) /\ Len(w) = k - 1 /\ Distinct(w)
      /\ \A i \in 1..k - 1 : w[i] = IF i < p THEN q[i] ELSE q[i + 1]
      /\ Elems(w) = Elems(q) \ {n}
  <2>1. q \in Seq(Nodes) /\ p \in 1..Len(q) /\ Distinct(q)
    BY <1>1
  <2> HIDE DEF q
  <2> QED
    BY ONLY <2>1, WithoutProperties
<1>3. ListTypeOK
  BY DEF ListIInv
<1>4. size_[l] = k /\ size_'[l] = k - 1 /\ queue'[l] = w
  BY <1>1, <1>3 DEF Unlinked, ListIsQueue, ListTypeOK
<1>queue. queue' = [queue EXCEPT ![l] = w]
  BY DEF Unlinked
<1> HIDE DEF w
<1>empty. w = <<>> <=> k = 1
  <2>1. w = <<>> <=> Len(w) = 0
    BY <1>2, EmptySeq
  <2>2. QED
    BY <1>1, <1>2, <2>1
<1>5. ListTypeOK'
  <2>1. queue' \in [Lists -> Seq(Nodes)]
    BY <1>2, <1>3, <1>queue DEF ListTypeOK
  <2>2. size_' \in [Lists -> Nat]
    BY <1>1, <1>3, <1>4 DEF Unlinked, ListTypeOK
  <2>3. n \in Nodes /\ next[n] \in Nodes \cup {Null} /\ prev[n] \in Nodes \cup {Null}
    BY <1>1, <1>3 DEF ListTypeOK
  <2>4. next' \in [Nodes -> Nodes \cup {Null}] /\ prev' \in [Nodes -> Nodes \cup {Null}]
    BY <1>3, <2>3 DEF Unlinked, ListTypeOK
  <2>5. head_' \in [Lists -> Nodes \cup {Null}] /\ tail_' \in [Lists -> Nodes \cup {Null}]
    BY <1>3, <2>3 DEF Unlinked, ListTypeOK
  <2>6. QED
    BY <1>3, <2>1, <2>2, <2>4, <2>5 DEF Unlinked, ListTypeOK
<1>6. ListIsQueue(l)'
  <2>1. /\ next[n] = IF p = k THEN Null ELSE q[p + 1]
        /\ prev[n] = IF p = 1 THEN Null ELSE q[p - 1]
        /\ head_[l] = q[1] /\ tail_[l] = q[k]
    BY <1>1 DEF ListIsQueue
  <2>2. head_'[l] = IF w = <<>> THEN Null ELSE w[1]
    <3>1. head_'[l] = IF p = 1 THEN next[n] ELSE head_[l]
      BY <1>3 DEF Unlinked, ListTypeOK
    <3>2. CASE k = 1
      BY <1>1, <1>empty, <2>1, <3>1, <3>2
    <3>3. CASE k > 1
      <4>1. w[1] = IF 1 < p THEN q[1] ELSE q[2]
        BY <1>1, <1>2, <3>3
      <4>2. QED
        BY <1>1, <1>empty, <2>1, <3>1, <3>3, <4>1
    <3>4. k \in Nat /\ p \in 1..k
      BY <1>1
    <3>5. k = 1 \/ k > 1
      <4> HIDE DEF k
      <4>1. QED
        BY <3>4
    <3>6. QED
      BY <3>2, <3>3, <3>5
  <2>3. tail_'[l] = IF w = <<>> THEN Null ELSE w[k - 1]
    <3>1. tail_'[l] = IF p = k THEN prev[n] ELSE tail_[l]
      BY <1>3 DEF Unlinked, ListTypeOK
    <3>2. CASE p = k
      BY <1>1, <1>2, <1>empty, <2>1, <3>1, <3>2
    <3>3. CASE p < k
      BY <1>1, <1>2, <1>empty, <2>1, <3>1, <3>3
    <3>4. QED
      BY <1>1, <3>2, <3>3
  <2>4. ASSUME NEW i \in 1..k - 1
        PROVE  /\ next'[w[i]] = IF i = k - 1 THEN Null ELSE w[i + 1]
               /\ prev'[w[i]] = IF i = 1 THEN Null ELSE w[i - 1]
               /\ list'[w[i]] = l
    <3> DEFINE j == IF i < p THEN i ELSE i + 1
    <3>1. /\ j \in 1..k /\ j # p /\ w[i] = q[j] /\ q[j] # n /\ q[j] \in Nodes
          /\ p > 1 => (q[j] = q[p - 1] <=> j = p - 1)
          /\ p < k => (q[j] = q[p + 1] <=> j = p + 1)
      <4>1. j \in 1..k /\ j # p /\ w[i] = q[j]
        BY <1>1, <1>2
      <4> HIDE DEF j
      <4>2. \A m \in 1..k : q[j] = q[m] <=> j = m
        BY <1>1, <4>1 DEF Distinct
      <4>3. (p > 1 => p - 1 \in 1..k) /\ (p < k => p + 1 \in 1..k)
        BY <1>1
      <4>4. QED
        BY <1>1, <4>1, <4>2, <4>3
    <3>2. /\ next[q[j]] = IF j = k THEN Null ELSE q[j + 1]
          /\ prev[q[j]] = IF j = 1 THEN Null ELSE q[j - 1]
          /\ list[q[j]] = l
      BY <1>1, <3>1 DEF ListIsQueue
    <3>3. /\ next'[q[j]] = IF p > 1 /\ j = p - 1 THEN next[n] ELSE next[q[j]]
          /\ prev'[q[j]] = IF p < k /\ j = p + 1 THEN prev[n] ELSE prev[q[j]]
          /\ list'[q[j]] = list[q[j]]
      BY <3>1 DEF Unlinked
    <3>4. next'[w[i]] = IF i = k - 1 THEN Null ELSE w[i + 1]
      <4>1. CASE i = p - 1
        <5>1. p > 1 /\ j = p - 1
          BY <1>1, <4>1
        <5>2. next'[w[i]] = next[n]
          BY <3>1, <3>3, <5>1
        <5>3. i = k - 1 <=> p = k
          BY <1>1, <4>1
        <5>4. i # k - 1 => w[i + 1] = q[p + 1]
          <6>1. i # k - 1 => i + 1 \in 1..k - 1 /\ ~(i + 1 < p) /\ (i + 1) + 1 = p + 1
            BY <1>1, <4>1
          <6>2. QED
            BY <1>2, <6>1
        <5>5. QED
          BY <2>1, <5>2, <5>3, <5>4
      <4>2. CASE i # p - 1
        <5>1. next'[w[i]] = next[q[j]]
          BY <1>1, <3>1, <3>3, <4>2
        <5>2. i # k - 1 => w[i + 1] = q[j + 1] /\ j # k
          <6>1. i # k - 1 =>
                  /\ i + 1 \in 1..k - 1 /\ j # k
                  /\ (IF i + 1 < p THEN i + 1 ELSE (i + 1) + 1) = j + 1
            BY <1>1, <4>2
          <6>2. i + 1 \in 1..k - 1 =>
                  w[i + 1] = q[IF i + 1 < p THEN i + 1 ELSE (i + 1) + 1]
            BY <1>2
          <6>3. QED
            BY <6>1, <6>2
        <5>3. i = k - 1 => j = k
          BY <1>1, <4>2
        <5>4. QED
          BY <3>2, <5>1, <5>2, <5>3
      <4>3. QED
        BY <4>1, <4>2
    <3>5. prev'[w[i]] = IF i = 1 THEN Null ELSE w[i - 1]
      <4>1. CASE i = p
        <5>1. p < k /\ j = p + 1
          BY <1>1, <4>1
        <5>2. prev'[w[i]] = prev[n]
          BY <3>1, <3>3, <5>1
        <5>3. i # 1 => w[i - 1] = q[p - 1]
          <6>1. i # 1 => i - 1 \in 1..k - 1 /\ i - 1 < p /\ i - 1 = p - 1
            BY <1>1, <4>1
          <6>2. QED
            BY <1>2, <6>1
        <5>4. QED
          BY <2>1, <4>1, <5>2, <5>3
      <4>2. CASE i # p
        <5>1. prev'[w[i]] = prev[q[j]]
          BY <1>1, <3>1, <3>3, <4>2
        <5>2. i # 1 => w[i - 1] = q[j - 1] /\ j # 1
          <6>1. i \in 1..k - 1 /\ k \in Nat /\ p \in 1..k
            BY <1>1
          <6>2. i # 1 => i - 1 \in 1..k - 1
            BY ONLY <6>1
          <6>3. CASE i < p
            <7>1. j = i /\ i - 1 < p
              BY ONLY <6>1, <6>3
            <7> HIDE DEF j, k
            <7>2. i # 1 => w[i - 1] = q[i - 1]
              BY ONLY <1>2, <6>2, <7>1
            <7>3. QED
              BY <7>1, <7>2
          <6>4. CASE i > p
            <7>1. j = i + 1 /\ ~(i - 1 < p) /\ (i - 1) + 1 = j - 1 /\ j # 1
              BY ONLY <6>1, <6>4
            <7> HIDE DEF j, k
            <7>2. i # 1 => w[i - 1] = q[(i - 1) + 1]
              BY ONLY <1>2, <6>2, <7>1
            <7>3. QED
              BY <7>1, <7>2
          <6>5. i < p \/ i > p
            BY ONLY <4>2, <6>1
          <6>6. QED
            BY <6>3, <6>4, <6>5
        <5>3. i = 1 => j = 1
          BY <1>1, <4>2
        <5>4. QED
          BY <3>2, <5>1, <5>2, <5>3
      <4>3. QED
        BY <4>1, <4>2
    <3>6. QED
      BY <3>1, <3>2, <3>3, <3>4, <3>5
  <2>5. QED
    BY <1>2, <1>4, <2>2, <2>3, <2>4 DEF ListIsQueue
<1>7. ASSUME NEW m \in Lists, m # l  PROVE ListIsQueue(m)' /\ Distinct(queue'[m])
  <2>1. /\ queue'[m] = queue[m] /\ size_'[m] = size_[m]
        /\ head_'[m] = head_[m] /\ tail_'[m] = tail_[m]
    BY <1>3, <1>7, <1>queue DEF Unlinked, ListTypeOK
  <2>2. Elems(queue[m]) \cap Elems(q) = {}
    BY <1>7, OneListEach
  <2>3. /\ n \in Elems(q)
        /\ p > 1 => q[p - 1] \in Elems(q)
        /\ p < k => q[p + 1] \in Elems(q)
    BY <1>1 DEF Elems
  <2>4. Elems(queue[m]) \subseteq Nodes
    BY OneList DEF Elems
  <2>5. \A x \in Elems(queue[m]) :
          next'[x] = next[x] /\ prev'[x] = prev[x] /\ list'[x] = list[x]
    BY <2>2, <2>3, <2>4 DEF Unlinked
  <2>6. QED
    BY <2>1, <2>5, OtherListsStay
<1>8. LooseNodes'
  <2> SUFFICES ASSUME NEW x \in Nodes, InNoList(x)'
               PROVE  next'[x] = Null /\ prev'[x] = Null
    BY DEF LooseNodes
  <2>1. CASE x = n
    BY <2>1 DEF Unlinked
  <2>2. CASE x # n
    <3>1. \A m \in Lists : x \notin Elems(queue[m])
      <4>1. ASSUME NEW m \in Lists, m # l  PROVE x \notin Elems(queue[m])
        BY <1>3, <1>queue, <4>1 DEF ListTypeOK, InNoList
      <4>2. x \notin Elems(q)
        BY <1>2, <1>4, <2>2 DEF InNoList
      <4>3. QED
        BY <4>1, <4>2
    <3>2. next[x] = Null /\ prev[x] = Null
      BY <3>1 DEF ListIInv, LooseNodes, InNoList
    <3>3. /\ p > 1 => q[p - 1] \in Elems(q)
          /\ p < k => q[p + 1] \in Elems(q)
      BY <1>1 DEF Elems
    <3>4. QED
      BY <2>2, <3>1, <3>2, <3>3 DEF Unlinked
  <2>3. QED
    BY <2>1, <2>2
<1>9. \A m \in Lists : ListIsQueue(m)' /\ Distinct(queue'[m])
  BY <1>2, <1>4, <1>6, <1>7
<1>10. QED
  BY <1>5, <1>8, <1>9 DEF ListIInv, Unlinked, ListsAreQueues

(* The step that appends leaves the lists right.                           *)
LEMMA AppendIInv ==
  ASSUME ListIInv, NEW l \in Lists, NEW n \in Nodes, append(l, n)
  PROVE  ListIInv'
<1> DEFINE q == queue[l]  k == Len(q)  w == Append(q, n)
<1>1. /\ q \in Seq(Nodes) /\ k \in Nat /\ ListIsQueue(l) /\ Distinct(q)
      /\ \A i \in 1..k : q[i] \in Nodes /\ q[i] # Null
      /\ q = <<>> <=> k = 0
  BY OneList
<1>2. ListTypeOK /\ n # Null
  BY ListAssumption DEF ListIInv
<1>3. InNoList(n) /\ prev[n] = Null /\ next[n] = Null
  BY DEF ListIInv, LooseNodes, InNoList, append
<1>4. \A i \in 1..k : q[i] # n
  BY <1>3 DEF InNoList, Elems
<1>5. /\ w \in Seq(Nodes) /\ Len(w) = k + 1
      /\ \A i \in 1..k + 1 : w[i] = IF i = k + 1 THEN n ELSE q[i]
  BY <1>1, AppendProperties
<1>6. queue' = [queue EXCEPT ![l] = w]
  BY DEF append
<1> HIDE DEF w
<1>7. Distinct(w) /\ Elems(w) = Elems(q) \cup {n}
  <2>1. Distinct(w)
    BY <1>1, <1>4, <1>5 DEF Distinct
  <2>2. Elems(w) = Elems(q) \cup {n}
    BY <1>1, <1>5 DEF Elems
  <2>3. QED
    BY <2>1, <2>2
<1>8. head_[l] = (IF k = 0 THEN Null ELSE q[1]) /\ tail_[l] = (IF k = 0 THEN Null ELSE q[k])
  BY <1>1 DEF ListIsQueue
<1>9. /\ tail_' = [tail_ EXCEPT ![l] = n] /\ list' = [list EXCEPT ![n] = l]
      /\ size_' = [size_ EXCEPT ![l] = @ + 1] /\ UNCHANGED panic
      /\ \/ k # 0 /\ append_last(l, n)
         \/ k = 0 /\ append_only(l, n)
  BY <1>1, <1>3, <1>8 DEF append, one_more
<1>10. /\ next' = [m \in Nodes |-> IF m = n THEN Null
                                   ELSE IF k # 0 /\ m = q[k] THEN n ELSE next[m]]
       /\ prev' = [prev EXCEPT ![n] = IF k = 0 THEN Null ELSE q[k]]
       /\ head_' = [head_ EXCEPT ![l] = IF k = 0 THEN n ELSE @]
  <2>1. CASE k # 0
    <3>1. tail_[l] = q[k] /\ q[k] \in Nodes /\ q[k] # n
      BY <1>1, <1>4, <1>8, <2>1
    <3>2. append_last(l, n)
      BY <1>9, <2>1
    <3>3. next' = [next EXCEPT ![q[k]] = n, ![n] = Null]
      BY <3>1, <3>2 DEF append_last
    <3>4. QED
      BY <1>2, <2>1, <3>1, <3>2, <3>3 DEF append_last, ListTypeOK
  <2>2. CASE k = 0
    BY <1>2, <1>9, <2>2 DEF append_only, ListTypeOK
  <2>3. QED
    BY <2>1, <2>2
<1>11. ListTypeOK'
  <2>1. queue' \in [Lists -> Seq(Nodes)]
    BY <1>2, <1>5, <1>6 DEF ListTypeOK
  <2>2. next' \in [Nodes -> Nodes \cup {Null}]
    BY <1>2, <1>10 DEF ListTypeOK
  <2>3. prev' \in [Nodes -> Nodes \cup {Null}] /\ head_' \in [Lists -> Nodes \cup {Null}]
    BY <1>1, <1>2, <1>10 DEF ListTypeOK
  <2>4. /\ tail_' \in [Lists -> Nodes \cup {Null}] /\ size_' \in [Lists -> Nat]
        /\ list' \in [Nodes -> Lists \cup {Null}] /\ panic' \in BOOLEAN
    BY <1>2, <1>9 DEF ListTypeOK
  <2>5. QED
    BY <2>1, <2>2, <2>3, <2>4 DEF ListTypeOK
<1>12. ListIsQueue(l)'
  <2>1. queue'[l] = w /\ size_'[l] = k + 1 /\ tail_'[l] = n
    BY <1>1, <1>2, <1>6, <1>9 DEF ListTypeOK, ListIsQueue
  <2>2. w # <<>> /\ w[k + 1] = n
    BY <1>1, <1>5, EmptySeq
  <2>3. head_'[l] = w[1]
    BY <1>1, <1>2, <1>5, <1>8, <1>10 DEF ListTypeOK
  <2>4. ASSUME NEW i \in 1..k + 1
        PROVE  /\ next'[w[i]] = IF i = k + 1 THEN Null ELSE w[i + 1]
               /\ prev'[w[i]] = IF i = 1 THEN Null ELSE w[i - 1]
               /\ list'[w[i]] = l
    <3>1. CASE i = k + 1
      <4>1. w[i] = n /\ (k # 0 => w[i - 1] = q[k])
        BY <1>1, <1>5, <3>1
      <4>2. QED
        BY <1>1, <1>2, <1>9, <1>10, <3>1, <4>1 DEF ListTypeOK
    <3>2. CASE i \in 1..k
      <4>1. /\ w[i] = q[i] /\ q[i] # n /\ q[i] \in Nodes
            /\ i # 1 => w[i - 1] = q[i - 1]
            /\ w[i + 1] = IF i = k THEN n ELSE q[i + 1]
            /\ q[i] = q[k] <=> i = k
        <5>1. i \in 1..k + 1 /\ i + 1 \in 1..k + 1 /\ (i # 1 => i - 1 \in 1..k)
          BY <1>1, <3>2
        <5>2. /\ w[i] = q[i]
              /\ i # 1 => w[i - 1] = q[i - 1]
              /\ w[i + 1] = IF i = k THEN n ELSE q[i + 1]
          <6>1. w[i] = q[i] /\ (i # 1 => w[i - 1] = q[i - 1])
            BY <1>1, <1>5, <3>2, <5>1
          <6>2. w[i + 1] = IF i + 1 = k + 1 THEN n ELSE q[i + 1]
            BY <1>5, <5>1
          <6>3. QED
            BY <1>1, <3>2, <6>1, <6>2
        <5>3. q[i] = q[k] <=> i = k
          BY <1>1, <3>2 DEF Distinct
        <5>4. QED
          BY <1>1, <1>4, <3>2, <5>2, <5>3
      <4>2. /\ next[q[i]] = IF i = k THEN Null ELSE q[i + 1]
            /\ prev[q[i]] = IF i = 1 THEN Null ELSE q[i - 1]
            /\ list[q[i]] = l
        BY <1>1, <3>2 DEF ListIsQueue
      <4>3. next'[q[i]] = (IF i = k THEN n ELSE q[i + 1])
        BY <1>1, <1>10, <3>2, <4>1, <4>2
      <4>4. prev'[q[i]] = prev[q[i]] /\ list'[q[i]] = list[q[i]]
        BY <1>2, <1>9, <1>10, <4>1 DEF ListTypeOK
      <4>5. QED
        BY <1>1, <3>2, <4>1, <4>2, <4>3, <4>4
    <3>3. QED
      BY <1>1, <3>1, <3>2
  <2>5. QED
    BY <1>5, <2>1, <2>2, <2>3, <2>4 DEF ListIsQueue
<1>13. ASSUME NEW m \in Lists, m # l  PROVE ListIsQueue(m)' /\ Distinct(queue'[m])
  <2>1. /\ queue'[m] = queue[m] /\ size_'[m] = size_[m]
        /\ head_'[m] = head_[m] /\ tail_'[m] = tail_[m]
    BY <1>2, <1>6, <1>9, <1>10, <1>13 DEF ListTypeOK
  <2>2. Elems(queue[m]) \cap Elems(q) = {} /\ n \notin Elems(queue[m])
    BY <1>3, <1>13, OneListEach DEF InNoList
  <2>3. k # 0 => q[k] \in Elems(q)
    BY <1>1 DEF Elems
  <2>4. Elems(queue[m]) \subseteq Nodes
    BY OneList DEF Elems
  <2>5. \A x \in Elems(queue[m]) :
          next'[x] = next[x] /\ prev'[x] = prev[x] /\ list'[x] = list[x]
    BY <1>2, <1>9, <1>10, <2>2, <2>3, <2>4 DEF ListTypeOK
  <2>6. QED
    BY <2>1, <2>5, OtherListsStay
<1>14. LooseNodes'
  <2> SUFFICES ASSUME NEW x \in Nodes, InNoList(x)'
               PROVE  next'[x] = Null /\ prev'[x] = Null
    BY DEF LooseNodes
  <2>1. x \notin Elems(w)
    BY <1>2, <1>6 DEF ListTypeOK, InNoList
  <2>2. InNoList(x)
    <3>1. ASSUME NEW m \in Lists, m # l  PROVE x \notin Elems(queue[m])
      BY <1>2, <1>6, <3>1 DEF ListTypeOK, InNoList
    <3>2. QED
      BY <1>7, <2>1, <3>1 DEF InNoList
  <2>3. next[x] = Null /\ prev[x] = Null /\ x # n
    BY <1>7, <2>1, <2>2 DEF ListIInv, LooseNodes
  <2>4. k # 0 => q[k] \in Elems(q)
    BY <1>1 DEF Elems
  <2>5. QED
    BY <1>2, <1>10, <2>2, <2>3, <2>4 DEF ListTypeOK, InNoList
<1>15. \A m \in Lists : ListIsQueue(m)' /\ Distinct(queue'[m])
  <2>1. queue'[l] = w
    BY <1>2, <1>6 DEF ListTypeOK
  <2>2. QED
    BY <1>7, <1>12, <1>13, <2>1
<1>16. QED
  BY <1>9, <1>11, <1>14, <1>15 DEF ListIInv, ListsAreQueues

(* What is taken from a list of the invariant is unlinked from it.         *)
LEMMA TakenIsUnlinked ==
  ASSUME ListIInv, NEW l \in Lists, NEW p \in 1..Len(queue[l]),
         queue' = [queue EXCEPT ![l] = Without(@, p)]
  PROVE  /\ p = 1 /\ take_first(l) => Unlinked(l, p)
         /\ p = Len(queue[l]) /\ take_last(l) => Unlinked(l, p)
         /\ p # 1 /\ p # Len(queue[l]) /\ take_between(l, queue[l][p]) => Unlinked(l, p)
<1> DEFINE q == queue[l]  k == Len(q)  n == q[p]
<1>1. /\ k \in Nat /\ p \in 1..k /\ ListIsQueue(l) /\ Distinct(q)
      /\ \A i \in 1..k : q[i] \in Nodes /\ q[i] # Null
  BY OneList
<1>2. ListTypeOK
  BY DEF ListIInv
<1>3. /\ head_[l] = q[1] /\ tail_[l] = q[k]
      /\ next[n] = IF p = k THEN Null ELSE q[p + 1]
      /\ prev[n] = IF p = 1 THEN Null ELSE q[p - 1]
  BY <1>1 DEF ListIsQueue
<1>4. n \in Nodes /\ n # Null
  BY <1>1
<1>5. p < k => q[p + 1] \in Nodes /\ q[p + 1] # n /\ q[p + 1] # Null
  <2>1. p < k => p + 1 \in 1..k
    BY <1>1
  <2>2. QED
    BY <1>1, <2>1 DEF Distinct
<1>6. p > 1 => q[p - 1] \in Nodes /\ q[p - 1] # n /\ q[p - 1] # Null
  <2>1. p > 1 => p - 1 \in 1..k
    BY <1>1
  <2>2. QED
    BY <1>1, <2>1 DEF Distinct
<1>7. p = k \/ p < k
  BY <1>1
<1>8. p = 1 \/ p > 1
  BY <1>1
<1>9. ASSUME p = 1, take_first(l)  PROVE Unlinked(l, p)
  <2>1. head_[l] = n
    BY <1>3, <1>9
  <2>2. next' = [m \in Nodes |-> IF m = n THEN Null ELSE next[m]]
    BY <1>2, <1>4, <1>9, <2>1 DEF take_first, ListTypeOK
  <2>3. prev' = [m \in Nodes |-> IF m = n THEN Null
                                 ELSE IF p < k /\ m = q[p + 1] THEN prev[n] ELSE prev[m]]
    BY <1>3, <1>5, <1>7, <1>9, <2>1, ListAssumption DEF take_first
  <2>4. /\ head_' = [head_ EXCEPT ![l] = next[n]]
        /\ tail_' = [tail_ EXCEPT ![l] = IF p = k THEN prev[n] ELSE @]
    BY <1>2, <1>3, <1>5, <1>7, <1>9, <2>1 DEF take_first, ListTypeOK
  <2>5. /\ list' \in [Nodes -> Lists \cup {Null}]
        /\ \A m \in Nodes \ {n} : list'[m] = list[m]
        /\ size_' = [size_ EXCEPT ![l] = @ - 1] /\ UNCHANGED panic
    BY <1>2, <1>9, <2>1 DEF take_first, unlinked, ListTypeOK
  <2>6. QED
    BY <1>9, <2>2, <2>3, <2>4, <2>5 DEF Unlinked
<1>10. ASSUME p = k, take_last(l)  PROVE Unlinked(l, p)
  <2>1. tail_[l] = n
    BY <1>3, <1>10
  <2>2. next' = [m \in Nodes |-> IF m = n THEN Null
                                 ELSE IF p > 1 /\ m = q[p - 1] THEN next[n] ELSE next[m]]
    BY <1>3, <1>6, <1>8, <1>10, <2>1, ListAssumption DEF take_last
  <2>3. prev' = [m \in Nodes |-> IF m = n THEN Null ELSE prev[m]]
    BY <1>2, <1>4, <1>10, <2>1 DEF take_last, ListTypeOK
  <2>4. /\ tail_' = [tail_ EXCEPT ![l] = prev[n]]
        /\ head_' = [head_ EXCEPT ![l] = IF p = 1 THEN next[n] ELSE @]
    BY <1>2, <1>3, <1>6, <1>8, <1>10, <2>1 DEF take_last, ListTypeOK
  <2>5. /\ list' \in [Nodes -> Lists \cup {Null}]
        /\ \A m \in Nodes \ {n} : list'[m] = list[m]
        /\ size_' = [size_ EXCEPT ![l] = @ - 1] /\ UNCHANGED panic
    BY <1>2, <1>10, <2>1 DEF take_last, unlinked, ListTypeOK
  <2>6. QED
    BY <1>1, <1>10, <2>2, <2>3, <2>4, <2>5 DEF Unlinked
<1>11. ASSUME p # 1, p # k, take_between(l, n)  PROVE Unlinked(l, p)
  <2>1. p > 1 /\ p < k
    BY <1>7, <1>8, <1>11
  <2>2. prev[n] = q[p - 1] /\ next[n] = q[p + 1]
    BY <1>3, <1>11
  <2>3. next' = [m \in Nodes |-> IF m = n THEN Null
                                 ELSE IF p > 1 /\ m = q[p - 1] THEN next[n] ELSE next[m]]
    <3>1. next' = [next EXCEPT ![q[p - 1]] = next[n], ![n] = Null]
      BY <1>11, <2>2 DEF take_between
    <3>2. QED
      BY <1>2, <1>4, <1>6, <2>1, <3>1 DEF ListTypeOK
  <2>4. prev' = [m \in Nodes |-> IF m = n THEN Null
                                 ELSE IF p < k /\ m = q[p + 1] THEN prev[n] ELSE prev[m]]
    <3>1. prev' = [prev EXCEPT ![q[p + 1]] = prev[n], ![n] = Null]
      BY <1>11, <2>2 DEF take_between
    <3>2. QED
      BY <1>2, <1>4, <1>5, <2>1, <3>1 DEF ListTypeOK
  <2>5. /\ head_' = [head_ EXCEPT ![l] = IF p = 1 THEN next[n] ELSE @]
        /\ tail_' = [tail_ EXCEPT ![l] = IF p = k THEN prev[n] ELSE @]
    BY <1>2, <1>11 DEF take_between, ListTypeOK
  <2>6. /\ list' \in [Nodes -> Lists \cup {Null}]
        /\ \A m \in Nodes \ {n} : list'[m] = list[m]
        /\ size_' = [size_ EXCEPT ![l] = @ - 1] /\ UNCHANGED panic
    BY <1>2, <1>11 DEF take_between, ListTypeOK
  <2>7. QED
    BY <2>3, <2>4, <2>5, <2>6 DEF Unlinked
<1>12. QED
  BY <1>9, <1>10, <1>11
-----------------------------------------------------------------------------
(* The lists are empty and the nodes loose at the start.                   *)
LEMMA ListInitIInv == ListInit => ListIInv
<1> SUFFICES ASSUME ListInit PROVE ListIInv
  OBVIOUS
<1>1. <<>> \in Seq(Nodes) /\ Len(<<>>) = 0
  BY EmptySeq
<1>2. ListTypeOK
  BY <1>1 DEF ListInit, ListTypeOK
<1>3. ListsAreQueues /\ \A l \in Lists : Distinct(queue[l])
  BY <1>1 DEF ListInit, ListsAreQueues, ListIsQueue, Distinct
<1>4. LooseNodes /\ ~panic
  BY DEF ListInit, LooseNodes
<1>5. QED
  BY <1>2, <1>3, <1>4 DEF ListIInv

(* Every step preserves the invariant.                                     *)
LEMMA ListNextIInv == ListIInv /\ [ListNext]_listVars => ListIInv'
<1> SUFFICES ASSUME ListIInv, [ListNext]_listVars PROVE ListIInv'
  OBVIOUS
<1>1. ASSUME NEW l \in Lists, size_[l] # 0
      PROVE  /\ queue[l] \in Seq(Nodes) /\ queue[l] # <<>> /\ Distinct(queue[l])
             /\ 1 \in 1..Len(queue[l]) /\ Len(queue[l]) \in 1..Len(queue[l])
             /\ head_[l] # Null /\ tail_[l] # Null
  <2>1. /\ queue[l] \in Seq(Nodes) /\ Len(queue[l]) \in Nat /\ ListIsQueue(l)
        /\ Distinct(queue[l])
        /\ queue[l] = <<>> <=> Len(queue[l]) = 0
        /\ \A i \in 1..Len(queue[l]) : queue[l][i] # Null
    BY OneList
  <2>2. queue[l] # <<>> /\ Len(queue[l]) # 0
    BY <1>1, <2>1 DEF ListIsQueue
  <2>3. 1 \in 1..Len(queue[l]) /\ Len(queue[l]) \in 1..Len(queue[l])
    BY <2>1, <2>2
  <2>4. QED
    BY <2>1, <2>2, <2>3 DEF ListIsQueue
<1>2. ASSUME NEW l \in Lists, pop(l)  PROVE ListIInv'
  <2>1. size_[l] # 0 /\ take_last(l)
    BY <1>1, <1>2 DEF pop
  <2>2. queue' = [queue EXCEPT ![l] = Without(@, Len(queue[l]))]
    BY <1>1, <1>2, <2>1, ShorterIsWithout DEF pop
  <2>3. QED
    BY <1>1, <2>1, <2>2, TakenIsUnlinked, UnlinkedIInv
<1>3. ASSUME NEW l \in Lists, left_pop_node(l)  PROVE ListIInv'
  <2>1. size_[l] # 0 /\ take_first(l)
    BY <1>1, <1>3 DEF left_pop_node
  <2>2. queue' = [queue EXCEPT ![l] = Without(@, 1)]
    BY <1>1, <1>3, <2>1, ShorterIsWithout DEF left_pop_node
  <2>3. QED
    BY <1>1, <2>1, <2>2, TakenIsUnlinked, UnlinkedIInv
<1>4. ASSUME NEW l \in Lists, NEW n \in Nodes, append(l, n)  PROVE ListIInv'
  BY <1>4, AppendIInv
<1>5. ASSUME NEW l \in Lists, NEW n \in Nodes, remove_node(l, n)  PROVE ListIInv'
  <2> DEFINE q == queue[l]  k == Len(q)
  <2>1. PICK p \in 1..k : n = q[p]
    BY <1>5 DEF remove_node, Elems
  <2>2. /\ q \in Seq(Nodes) /\ k \in Nat /\ ListIsQueue(l) /\ Distinct(q)
        /\ \A i \in 1..k : q[i] # Null
    BY OneList
  <2>3. q # <<>> /\ 1 \in 1..k /\ k \in 1..k
    <3>1. k # 0 /\ 1 \in 1..k /\ k \in 1..k
      BY <2>1, <2>2
    <3>2. QED
      BY <3>1, OneList
  <2>4. queue' = [queue EXCEPT ![l] = Without(@, p)]
    <3>1. remove(q, q[p]) = Without(q, p)
      BY <2>2, <2>3, ShorterIsWithout
    <3>2. QED
      BY <1>5, <2>1, <3>1 DEF remove_node
  <2>5. /\ head_[l] = n <=> p = 1
        /\ tail_[l] = n <=> p = k
    <3>1. head_[l] = q[1] /\ tail_[l] = q[k]
      BY <2>2, <2>3 DEF ListIsQueue
    <3>2. QED
      BY <2>1, <2>2, <2>3, <3>1 DEF Distinct
  <2>6. CASE p = 1
    <3>1. take_first(l)
      BY <1>5, <2>5, <2>6 DEF remove_node
    <3>2. QED
      BY <2>4, <2>6, <3>1, TakenIsUnlinked, UnlinkedIInv
  <2>7. CASE p # 1 /\ p = k
    <3>1. take_last(l)
      BY <1>5, <2>5, <2>7 DEF remove_node
    <3>2. QED
      BY <2>4, <2>7, <3>1, TakenIsUnlinked, UnlinkedIInv
  <2>8. CASE p # 1 /\ p # k
    <3>1. list[n] = l /\ prev[n] # Null /\ next[n] # Null
      <4>1. p - 1 \in 1..k /\ p + 1 \in 1..k
        BY <2>1, <2>2, <2>8
      <4>2. /\ list[q[p]] = l
            /\ next[q[p]] = IF p = k THEN Null ELSE q[p + 1]
            /\ prev[q[p]] = IF p = 1 THEN Null ELSE q[p - 1]
        BY <2>1, <2>2 DEF ListIsQueue
      <4>3. q[p - 1] # Null /\ q[p + 1] # Null
        BY <2>2, <4>1
      <4>4. QED
        BY <2>1, <2>8, <4>2, <4>3
    <3>2. take_between(l, n)
      BY <1>5, <2>5, <2>8, <3>1 DEF remove_node
    <3>3. QED
      BY <2>1, <2>4, <2>8, <3>2, TakenIsUnlinked, UnlinkedIInv
  <2>9. QED
    BY <2>6, <2>7, <2>8
<1>6. CASE UNCHANGED listVars
  BY <1>6 DEF listVars, links, ends, ListIInv, ListTypeOK, ListsAreQueues, ListIsQueue, LooseNodes,
              InNoList
<1>7. QED
  BY <1>2, <1>3, <1>4, <1>5, <1>6 DEF ListNext

LEMMA ListInvariance == ListSpec => []ListIInv
  BY ListInitIInv, ListNextIInv, PTL DEF ListSpec

(* The pointers of every list are the sequence that stands for it.         *)
THEOREM ListsHoldTheirQueues == ListSpec => []ListsAreQueues
<1>1. ListIInv => ListsAreQueues
  BY DEF ListIInv
<1>2. QED
  BY ListInvariance, <1>1, PTL

(* No assertion of append, pop, left_pop and remove fails.                 *)
THEOREM ListsDoNotPanic == ListSpec => []ListsNoPanic
<1>1. ListIInv => ListsNoPanic
  BY DEF ListIInv, ListsNoPanic
<1>2. QED
  BY ListInvariance, <1>1, PTL

(* What append asserts is what HasNeighbour of Scheduler says: a node has  *)
(* a neighbour exactly when it is in a list of two or more.                *)
THEOREM NeighboursInLists ==
  ListSpec => [](\A n \in Nodes :
    (prev[n] # Null \/ next[n] # Null) <=> \E l \in Lists : HasNeighbour(queue[l], n))
<1> DEFINE Agrees ==
      \A n \in Nodes :
        (prev[n] # Null \/ next[n] # Null) <=> \E l \in Lists : HasNeighbour(queue[l], n)
<1>1. ASSUME ListIInv  PROVE Agrees
  <2> SUFFICES ASSUME NEW n \in Nodes
               PROVE  (prev[n] # Null \/ next[n] # Null)
                        <=> \E l \in Lists : HasNeighbour(queue[l], n)
    OBVIOUS
  <2>1. CASE InNoList(n)
    BY <1>1, <2>1 DEF ListIInv, LooseNodes, InNoList, HasNeighbour
  <2>2. ASSUME NEW l \in Lists, n \in Elems(queue[l])
        PROVE  (prev[n] # Null \/ next[n] # Null) <=> Len(queue[l]) > 1
    <3> DEFINE q == queue[l]  k == Len(q)
    <3>1. PICK i \in 1..k : n = q[i]
      BY <2>2 DEF Elems
    <3>2. /\ k \in Nat /\ \A j \in 1..k : q[j] # Null
          /\ next[n] = IF i = k THEN Null ELSE q[i + 1]
          /\ prev[n] = IF i = 1 THEN Null ELSE q[i - 1]
      BY <1>1, <3>1, OneList DEF ListIsQueue
    <3>3. /\ i # k => i + 1 \in 1..k
          /\ i # 1 => i - 1 \in 1..k
          /\ k > 1 <=> i # k \/ i # 1
      BY <3>1, <3>2
    <3>4. QED
      BY <3>2, <3>3
  <2>3. ASSUME NEW k \in Lists, NEW l \in Lists,
               n \in Elems(queue[k]), n \in Elems(queue[l])
        PROVE  k = l
    BY <1>1, <2>3, OneListEach
  <2>4. QED
    BY <2>1, <2>2, <2>3 DEF InNoList, HasNeighbour
<1>2. QED
  BY ListInvariance, <1>1, PTL

-----------------------------------------------------------------------------
(* What each operation of the scheduler preserves, for every set of tasks, *)
(* every scheduler state and every number of slices.                       *)

(* Facts about the sequences that stand for the kernel's task lists.       *)

(* Appending a task that is not in the list adds it, once, at the end.     *)
LEMMA AppendToQueue ==
  ASSUME NEW q \in Seq(Tasks), NEW t \in Tasks
  PROVE  /\ Append(q, t) \in Seq(Tasks)
         /\ Append(q, t) # <<>>
         /\ Elems(Append(q, t)) = Elems(q) \cup {t}
         /\ Distinct(q) /\ t \notin Elems(q) => Distinct(Append(q, t))
         /\ q # <<>> => Head(Append(q, t)) = Head(q)
  BY AppendProperties DEF Elems, Distinct

(* Taking the head off a list without duplicates removes that task only.   *)
LEMMA TailOfQueue ==
  ASSUME NEW q \in Seq(Tasks), q # <<>>, Distinct(q)
  PROVE  /\ Tail(q) \in Seq(Tasks)
         /\ Head(q) \in Tasks
         /\ Head(q) \in Elems(q)
         /\ Elems(Tail(q)) = Elems(q) \ {Head(q)}
         /\ Distinct(Tail(q))
<1>1. /\ Head(q) \in Tasks /\ Tail(q) \in Seq(Tasks)
      /\ Len(q) \in Nat \ {0} /\ Len(Tail(q)) = Len(q) - 1
      /\ \A i \in 1..Len(Tail(q)) : Tail(q)[i] = q[i + 1]
      /\ Head(q) = q[1]
  BY HeadTailProperties
<1>2. Head(q) \in Elems(q)
  BY <1>1 DEF Elems
<1>3. Elems(Tail(q)) = Elems(q) \ {Head(q)}
  <2>1. Elems(Tail(q)) \subseteq Elems(q) \ {Head(q)}
    BY <1>1 DEF Elems, Distinct
  <2>2. ASSUME NEW t \in Elems(q) \ {Head(q)}
        PROVE  t \in Elems(Tail(q))
    <3>1. PICK i \in 1..Len(q) : t = q[i]
      BY DEF Elems
    <3>2. i # 1
      BY <1>1, <2>2, <3>1
    <3>3. i - 1 \in 1..Len(Tail(q)) /\ Tail(q)[i - 1] = t
      BY <1>1, <3>1, <3>2
    <3>4. QED
      BY <3>3 DEF Elems
  <2>3. QED
    BY <2>1, <2>2
<1>4. Distinct(Tail(q))
  BY <1>1 DEF Distinct
<1>5. QED
  BY <1>1, <1>2, <1>3, <1>4

(* A list has a task in it exactly when it is not empty.                   *)
LEMMA ElemsOfQueue ==
  ASSUME NEW q \in Seq(Tasks)
  PROVE  /\ Elems(q) \subseteq Tasks
         /\ q = <<>> <=> Elems(q) = {}
         /\ q # <<>> => Head(q) \in Elems(q)
         /\ Elems(<<>>) = {}
<1>1. Elems(q) \subseteq Tasks
  BY ElementOfSeq DEF Elems
<1>2. q # <<>> => Len(q) \in Nat \ {0} /\ Head(q) = q[1]
  BY HeadTailProperties
<1>3. q # <<>> => Head(q) \in Elems(q)
  BY <1>2 DEF Elems
<1>4. Elems(<<>>) = {}
  BY DEF Elems
<1>5. QED
  BY <1>1, <1>3, <1>4
-----------------------------------------------------------------------------
(* The tasks a scheduler can still run.                                    *)
Ready(s) == Elems(s.rq) \cup Elems(s.expired_q)

(* The two queues are disjoint and without duplicates, and every task in   *)
(* the run queue has slices left.                                          *)
SchedOK(s) ==
  /\ s \in SchedulerState
  /\ ~s.panic
  /\ Distinct(s.rq) /\ Distinct(s.expired_q)
  /\ Elems(s.rq) \cap Elems(s.expired_q) = {}
  /\ \A t \in Elems(s.rq) : s.time_slices[t] > 0

(* The running task is at the head of the run queue; only the dummy task   *)
(* runs from outside it, and not for as many ticks as it has slices.       *)
CurOK(s) ==
  IF s.cur_ = DummyTask
  THEN s.time_slices[DummyTask] = INT_MAX /\ s.need_reschedule[DummyTask]
  ELSE s.rq # <<>> /\ s.cur_ = Head(s.rq)

USE DEF AllTasks

(* Scheduler::init leaves the init task ready and the dummy task running.  *)
LEMMA InitOK ==
  /\ SchedOK(SchedulerInit)
  /\ CurOK(SchedulerInit)
  /\ Ready(SchedulerInit) = {InitTask}
<1>1. /\ Elems(<<InitTask>>) = {InitTask} /\ Distinct(<<InitTask>>)
      /\ Elems(<<>>) = {} /\ Distinct(<<>>)
  BY DEF Elems, Distinct
<1>2. SchedulerInit \in SchedulerState
  BY TasksAssumption, SlicesAssumption DEF SchedulerInit, SchedulerState, INT_MAX
<1> DEFINE i == SchedulerInit
<1>3. /\ i.rq = <<InitTask>> /\ i.expired_q = <<>> /\ i.cur_ = DummyTask
      /\ i.panic = FALSE /\ i.time_slices[InitTask] = Slices
      /\ i.time_slices[DummyTask] = INT_MAX /\ i.need_reschedule[DummyTask] = TRUE
  BY TasksAssumption DEF SchedulerInit
<1> HIDE DEF i
<1>4. i \in SchedulerState
  BY <1>2 DEF i
<1>5. SchedOK(i) /\ CurOK(i) /\ Ready(i) = {InitTask}
  BY <1>1, <1>3, <1>4, SlicesAssumption DEF SchedOK, CurOK, Ready
<1>6. QED
  BY <1>5 DEF i

(* activate_task makes a task ready that was not, behind those that are.   *)
LEMMA ActivateOK ==
  ASSUME NEW s, SchedOK(s), NEW t \in Tasks, t \notin Ready(s)
  PROVE  /\ SchedOK(activate_task(s, t))
         /\ Ready(activate_task(s, t)) = Ready(s) \cup {t}
         /\ activate_task(s, t).cur_ = s.cur_
         /\ CurOK(s) => CurOK(activate_task(s, t))
<1> DEFINE a == activate_task(s, t)
<1>1. a = [s EXCEPT !.time_slices[t] = Slices, !.rq = Append(@, t)]
  BY DEF activate_task, HasNeighbour, Ready
<1>2. s.rq \in Seq(Tasks) /\ s \in SchedulerState
  BY DEF SchedOK, SchedulerState
<1>3. /\ a.rq = Append(s.rq, t) /\ a.expired_q = s.expired_q /\ a.cur_ = s.cur_
      /\ a.panic = s.panic /\ a.need_reschedule = s.need_reschedule
      /\ a.time_slices = [s.time_slices EXCEPT ![t] = Slices]
  BY <1>1, <1>2 DEF SchedulerState
<1>4. /\ a.rq \in Seq(Tasks) /\ a.rq # <<>> /\ Elems(a.rq) = Elems(s.rq) \cup {t}
      /\ Distinct(a.rq) /\ (s.rq # <<>> => Head(a.rq) = Head(s.rq))
  BY <1>2, <1>3, AppendToQueue DEF Ready, SchedOK
<1>5. a \in SchedulerState
  <2>1. Append(s.rq, t) \in Seq(Tasks)
    BY <1>2, AppendToQueue
  <2>2. [s EXCEPT !.time_slices[t] = Slices, !.rq = Append(s.rq, t)] \in SchedulerState
    BY <1>2, <2>1, SlicesAssumption DEF SchedulerState
  <2>3. QED
    BY <1>1, <2>2
<1>6. \A u \in Elems(a.rq) : a.time_slices[u] > 0
  BY <1>2, <1>3, <1>4, SlicesAssumption, ElemsOfQueue DEF SchedOK, SchedulerState
<1>7. SchedOK(a)
  BY <1>3, <1>4, <1>5, <1>6 DEF SchedOK, Ready
<1>8. CurOK(s) => CurOK(a)
  BY <1>2, <1>3, <1>4, TasksAssumption DEF CurOK, SchedulerState
<1>9. QED
  BY <1>3, <1>4, <1>7, <1>8 DEF Ready

(* deactivate_task of the running task takes that task out and no other.   *)
LEMMA DeactivateOK ==
  ASSUME NEW s, SchedOK(s), s.rq # <<>>, NEW t, t = Head(s.rq)
  PROVE  /\ SchedOK(deactivate_task(s, t))
         /\ Ready(deactivate_task(s, t)) = Ready(s) \ {t}
         /\ deactivate_task(s, t).cur_ = s.cur_
<1> DEFINE d == deactivate_task(s, t)
<1>1. s \in SchedulerState /\ s.rq \in Seq(Tasks)
  BY DEF SchedOK, SchedulerState
<1>2. /\ Tail(s.rq) \in Seq(Tasks) /\ t \in Elems(s.rq)
      /\ Elems(Tail(s.rq)) = Elems(s.rq) \ {t} /\ Distinct(Tail(s.rq))
  BY <1>1, TailOfQueue DEF SchedOK
<1>3. d = [s EXCEPT !.rq = Tail(s.rq)]
  BY <1>1, <1>2 DEF deactivate_task, remove, SchedulerState
<1>4. d \in SchedulerState
  BY <1>1, <1>2, <1>3 DEF SchedulerState
<1>5. /\ d.rq = Tail(s.rq) /\ d.expired_q = s.expired_q /\ d.cur_ = s.cur_
      /\ d.panic = s.panic /\ d.time_slices = s.time_slices
  BY <1>1, <1>3 DEF SchedulerState
<1>6. QED
  BY <1>2, <1>4, <1>5 DEF SchedOK, Ready

(* tick keeps every ready task ready and its assertion does not fail; it   *)
(* takes the running task from the head of the run queue only together     *)
(* with the request to reschedule it.                                      *)
LEMMA TickOK ==
  ASSUME NEW s, SchedOK(s), CurOK(s)
  PROVE  /\ SchedOK(tick(s))
         /\ Ready(tick(s)) = Ready(s)
         /\ tick(s).cur_ = s.cur_
         /\ tick(s).need_reschedule[s.cur_] \/ CurOK(tick(s))
<1> DEFINE t == s.cur_
<1>1. /\ s \in SchedulerState /\ s.rq \in Seq(Tasks) /\ s.expired_q \in Seq(Tasks)
      /\ t \in AllTasks /\ s.time_slices[t] \in Nat
  BY DEF SchedOK, SchedulerState
<1>2. CASE s.rq = <<>>
  BY <1>2 DEF tick
<1>3. CASE s.rq # <<>> /\ s.time_slices[t] > 1
  <2> DEFINE r == [s EXCEPT !.time_slices[t] = s.time_slices[t] - 1]
  <2>1. tick(s) = r
    BY <1>3 DEF tick
  <2>2. r \in SchedulerState
    <3> DEFINE n == s.time_slices[t] - 1
    <3>1. n \in Nat
      BY <1>1, <1>3
    <3> HIDE DEF n
    <3>2. [s EXCEPT !.time_slices[t] = n] \in SchedulerState
      BY <1>1, <3>1 DEF SchedulerState
    <3>3. QED
      BY <3>2 DEF n
  <2>3. /\ r.rq = s.rq /\ r.expired_q = s.expired_q /\ r.cur_ = s.cur_ /\ r.panic = s.panic
        /\ r.need_reschedule = s.need_reschedule
        /\ r.time_slices = [s.time_slices EXCEPT ![t] = s.time_slices[t] - 1]
    BY <1>1 DEF SchedulerState
  <2> HIDE DEF r
  <2>4. \A u \in Elems(s.rq) : r.time_slices[u] > 0
    BY <1>1, <1>3, <2>3, ElemsOfQueue DEF SchedOK, SchedulerState
  <2>5. SchedOK(r) /\ Ready(r) = Ready(s)
    BY <2>2, <2>3, <2>4 DEF SchedOK, Ready
  <2>6. r.need_reschedule[t] \/ CurOK(r)
    BY <2>3 DEF CurOK
  <2>7. QED
    BY <2>1, <2>3, <2>5, <2>6
<1>4. CASE s.rq # <<>> /\ ~(s.time_slices[t] > 1)
  <2>1. t # DummyTask /\ t = Head(s.rq)
    BY <1>4 DEF CurOK, INT_MAX
  <2>2. /\ t \in Tasks /\ t \in Elems(s.rq) /\ Tail(s.rq) \in Seq(Tasks)
        /\ Elems(Tail(s.rq)) = Elems(s.rq) \ {t} /\ Distinct(Tail(s.rq))
    BY <1>1, <1>4, <2>1, TailOfQueue DEF SchedOK
  <2>3. s.time_slices[t] = 1
    BY <1>1, <1>4, <2>2 DEF SchedOK
  <2> DEFINE r == [s EXCEPT !.time_slices[t] = 0,
                            !.rq = Tail(s.rq),
                            !.expired_q = Append(s.expired_q, t),
                            !.need_reschedule[t] = TRUE]
  <2>4. tick(s) = r
    BY <1>4, <2>1, <2>2, <2>3 DEF tick, remove
  <2>5. /\ Append(s.expired_q, t) \in Seq(Tasks)
        /\ Elems(Append(s.expired_q, t)) = Elems(s.expired_q) \cup {t}
        /\ Distinct(Append(s.expired_q, t))
    BY <1>1, <2>2, AppendToQueue DEF SchedOK
  <2>6. r \in SchedulerState
    BY <1>1, <2>2, <2>5 DEF SchedulerState
  <2>7. /\ r.rq = Tail(s.rq) /\ r.expired_q = Append(s.expired_q, t)
        /\ r.cur_ = s.cur_ /\ r.panic = s.panic
        /\ r.need_reschedule = [s.need_reschedule EXCEPT ![t] = TRUE]
        /\ r.time_slices = [s.time_slices EXCEPT ![t] = 0]
    BY <1>1 DEF SchedulerState
  <2> HIDE DEF r
  <2>8. r.need_reschedule[t] = TRUE
    BY <1>1, <2>7 DEF SchedulerState
  <2>9. \A u \in Elems(r.rq) : r.time_slices[u] > 0
    BY <1>1, <2>2, <2>7, ElemsOfQueue DEF SchedOK, SchedulerState
  <2>10. SchedOK(r) /\ Ready(r) = Ready(s)
    BY <2>2, <2>5, <2>6, <2>7, <2>9 DEF SchedOK, Ready
  <2>11. QED
    BY <2>4, <2>7, <2>8, <2>10
<1>5. QED
  BY <1>2, <1>3, <1>4

(* swap_queues loses no task and leaves the run queue empty only when no   *)
(* task is ready.                                                          *)
LEMMA SwapOK ==
  ASSUME NEW s, SchedOK(s)
  PROVE  /\ SchedOK(swap_queues(s))
         /\ Ready(swap_queues(s)) = Ready(s)
         /\ swap_queues(s).cur_ = s.cur_
         /\ Ready(s) # {} => swap_queues(s).rq # <<>>
<1>1. s \in SchedulerState /\ s.rq \in Seq(Tasks) /\ s.expired_q \in Seq(Tasks)
  BY DEF SchedOK, SchedulerState
<1>2. CASE s.rq # <<>>
  BY <1>2 DEF swap_queues
<1>3. CASE s.rq = <<>>
  <2> DEFINE refill == [t \in AllTasks |-> IF t \in Elems(s.expired_q)
                                           THEN Slices ELSE s.time_slices[t]]
             r == [s EXCEPT !.rq = s.expired_q, !.expired_q = <<>>, !.time_slices = refill]
  <2>1. swap_queues(s) = r
    BY <1>3 DEF swap_queues
  <2>2. refill \in [AllTasks -> Nat]
    BY <1>1, SlicesAssumption DEF SchedulerState
  <2>3. r \in SchedulerState
    <3> HIDE DEF refill
    <3>1. <<>> \in Seq(Tasks)
      OBVIOUS
    <3>2. [s EXCEPT !.rq = s.expired_q, !.expired_q = <<>>, !.time_slices = refill]
             \in SchedulerState
      BY <1>1, <2>2, <3>1 DEF SchedulerState
    <3>3. QED
      BY <3>2
  <2>4. /\ r.rq = s.expired_q /\ r.expired_q = <<>> /\ r.cur_ = s.cur_
        /\ r.panic = s.panic /\ r.time_slices = refill
    BY <1>1 DEF SchedulerState
  <2>5. \A t \in Elems(r.rq) : r.time_slices[t] > 0
    <3>1. ASSUME NEW t \in Elems(s.expired_q)  PROVE refill[t] > 0
      <4>1. t \in AllTasks
        BY <1>1, ElemsOfQueue
      <4>2. refill[t] = Slices
        BY <4>1
      <4>3. QED
        BY <4>2, SlicesAssumption
    <3> HIDE DEF r, refill
    <3>2. QED
      BY <2>4, <3>1
  <2> HIDE DEF r
  <2>6. Elems(r.expired_q) = {} /\ Distinct(r.expired_q) /\ Elems(s.rq) = {}
    <3>1. Elems(<<>>) = {} /\ Distinct(<<>>)
      BY DEF Elems, Distinct
    <3>2. QED
      BY <1>3, <2>4, <3>1
  <2>7. SchedOK(r) /\ Ready(r) = Ready(s)
    BY <2>3, <2>4, <2>5, <2>6 DEF SchedOK, Ready
  <2>8. Ready(s) # {} => r.rq # <<>>
    BY <1>1, <2>4, <2>6, ElemsOfQueue DEF Ready
  <2>9. QED
    BY <2>1, <2>4, <2>7, <2>8
<1>4. QED
  BY <1>2, <1>3

(* schedule, when some task is ready, runs the head of the run queue.      *)
LEMMA ScheduleOK ==
  ASSUME NEW s, SchedOK(s), Ready(s) # {}
  PROVE  /\ SchedOK(schedule(s))
         /\ Ready(schedule(s)) = Ready(s)
         /\ CurOK(schedule(s))
         /\ schedule(s).cur_ \in Ready(s)
<1> DEFINE p == swap_queues(s)
           r == [p EXCEPT !.need_reschedule[p.cur_] = FALSE, !.cur_ = Head(p.rq)]
<1>1. SchedOK(p) /\ Ready(p) = Ready(s) /\ p.rq # <<>>
  BY SwapOK
<1> HIDE DEF p
<1>2. p \in SchedulerState /\ p.rq \in Seq(Tasks)
  BY <1>1 DEF SchedOK, SchedulerState
<1>3. Head(p.rq) \in Tasks /\ Head(p.rq) \in Elems(p.rq)
  BY <1>1, <1>2, TailOfQueue DEF SchedOK
<1>4. schedule(s) = r
  BY <1>1, <1>3, TasksAssumption DEF schedule, pick_next, p
<1>5. r \in SchedulerState
  BY <1>2, <1>3 DEF SchedulerState
<1>6. /\ r.rq = p.rq /\ r.expired_q = p.expired_q /\ r.cur_ = Head(p.rq)
      /\ r.panic = p.panic /\ r.time_slices = p.time_slices
  BY <1>2 DEF SchedulerState
<1> HIDE DEF r
<1>7. SchedOK(r) /\ Ready(r) = Ready(p)
  BY <1>1, <1>5, <1>6 DEF SchedOK, Ready
<1>8. CurOK(r) /\ r.cur_ \in Ready(p)
  BY <1>1, <1>3, <1>6, TasksAssumption DEF CurOK, Ready
<1>9. QED
  BY <1>1, <1>4, <1>7, <1>8

(* The return from an interrupt leaves the running task at the head of the *)
(* run queue, whether or not it switched.                                  *)
LEMMA IntrReturnOK ==
  ASSUME NEW s, SchedOK(s), Ready(s) # {},
         s.need_reschedule[s.cur_] \/ CurOK(s)
  PROVE  /\ SchedOK(intr_return(s))
         /\ Ready(intr_return(s)) = Ready(s)
         /\ CurOK(intr_return(s))
         /\ intr_return(s).cur_ \in Ready(s) \cup {s.cur_}
<1>1. s.panic = FALSE
  BY DEF SchedOK, SchedulerState
<1>2. CASE s.need_reschedule[s.cur_]
  <2>1. intr_return(s) = schedule(s)
    BY <1>1, <1>2 DEF intr_return
  <2>2. QED
    BY <2>1, ScheduleOK
<1>3. CASE ~s.need_reschedule[s.cur_]
  <2>1. intr_return(s) = s
    BY <1>1, <1>3 DEF intr_return
  <2>2. QED
    BY <1>3, <2>1
<1>4. QED
  BY <1>2, <1>3

-----------------------------------------------------------------------------
(* The tasks and their mutex                                               *)

USE DEF AllTasks

Places == {"none", "made", "body", "create", "acquire"}

VarsOK ==
  /\ val \in BOOLEAN
  /\ owner \in Tasks \cup {NoTask}
  /\ wait_queue \in Seq(Tasks)
  /\ at \in [Tasks -> Places]
  /\ inside \in [Tasks -> Nat]

(* Every created task is in one queue, a waiting one inside acquire.       *)
Partition ==
  /\ Distinct(wait_queue)
  /\ Elems(wait_queue) \cap Ready(sched) = {}
  /\ Elems(wait_queue) \cup Ready(sched) = Created
  /\ Ready(sched) # {}
  /\ \A t \in Elems(wait_queue) : at[t] = "acquire"

(* The lock is free or its owner is ready and not inside acquire.          *)
OwnerReady ==
  /\ val <=> owner = NoTask
  /\ owner # NoTask => owner \in Ready(sched) /\ at[owner] \in {"body", "create"}

IInv ==
  /\ SchedOK(sched) /\ CurOK(sched)
  /\ VarsOK
  /\ Partition
  /\ OwnerReady

(* A running task is ready, a created one.                                 *)
LEMMA CurIsReady ==
  ASSUME SchedOK(sched), CurOK(sched), sched.cur_ \in Tasks
  PROVE  sched.cur_ = Head(sched.rq) /\ sched.rq # <<>> /\ sched.cur_ \in Ready(sched)
<1>1. sched.rq \in Seq(Tasks)
  BY DEF SchedOK, SchedulerState
<1>2. sched.cur_ # DummyTask
  BY TasksAssumption
<1>3. sched.rq # <<>> /\ sched.cur_ = Head(sched.rq)
  BY <1>2 DEF CurOK
<1>4. QED
  BY <1>1, <1>3, ElemsOfQueue DEF Ready

(* The initial state of the system.                                        *)
LEMMA InitIInv == Init => IInv
<1> SUFFICES ASSUME Init PROVE IInv
  OBVIOUS
<1>1. SchedOK(sched) /\ CurOK(sched) /\ Ready(sched) = {InitTask}
  BY InitOK DEF Init
<1>2. VarsOK
  BY TasksAssumption DEF Init, VarsOK, Places
<1>3. Elems(wait_queue) = {} /\ Distinct(wait_queue)
  BY DEF Init, Elems, Distinct
<1>4. Created = {InitTask}
  BY TasksAssumption DEF Init, Created
<1>5. Partition
  BY <1>1, <1>3, <1>4 DEF Partition
<1>6. OwnerReady
  BY DEF Init, OwnerReady
<1>7. QED
  BY <1>1, <1>2, <1>5, <1>6 DEF IInv

(* The scheduler part of an interrupt keeps every ready task ready.        *)
LEMMA InterruptIInv == ASSUME IInv, TimerIrq \/ DeviceIrq PROVE IInv'
<1>1. SchedOK(sched) /\ CurOK(sched) /\ Ready(sched) # {}
  BY DEF IInv, Partition
<1>2. SchedOK(sched') /\ CurOK(sched') /\ Ready(sched') = Ready(sched)
  <2>1. CASE TimerIrq
    <3> DEFINE s == tick(sched)
    <3>1. /\ SchedOK(s) /\ Ready(s) = Ready(sched)
          /\ s.need_reschedule[s.cur_] \/ CurOK(s)
      BY <1>1, TickOK
    <3> HIDE DEF s
    <3>2. sched' = intr_return(s)
      BY <2>1 DEF TimerIrq, s
    <3>3. QED
      BY <1>1, <3>1, <3>2, IntrReturnOK
  <2>2. CASE DeviceIrq
    <3>1. sched' = intr_return(sched)
      BY <2>2 DEF DeviceIrq
    <3>2. QED
      BY <1>1, <3>1, IntrReturnOK
  <2>3. QED
    BY <2>1, <2>2
<1>3. UNCHANGED <<val, owner, wait_queue, inside, at>>
  BY DEF TimerIrq, DeviceIrq, lock
<1>4. VarsOK'
  BY <1>3 DEF IInv, VarsOK
<1>5. Created' = Created /\ Elems(wait_queue)' = Elems(wait_queue)
  BY <1>3 DEF Created, Elems
<1>6. Partition'
  BY <1>2, <1>3, <1>5 DEF IInv, Partition, Distinct
<1>7. OwnerReady'
  BY <1>2, <1>3 DEF IInv, OwnerReady
<1>8. QED
  BY <1>2, <1>4, <1>6, <1>7 DEF IInv

(* Nothing but the place of tasks changes when one is made.                *)
LEMMA CreateIInv == ASSUME IInv, NEW t \in Tasks, ktask_create(t) PROVE IInv'
<1> DEFINE c == sched.cur_
<1>1. /\ c \in Tasks /\ at[c] = "body" /\ at[t] = "none"
      /\ at' = [at EXCEPT ![t] = "made", ![c] = "create"]
      /\ UNCHANGED <<sched, val, owner, wait_queue, inside>>
  BY DEF ktask_create, InBody, Running, lock
<1>2. at \in [Tasks -> Places] /\ owner \in Tasks \cup {NoTask}
  BY DEF IInv, VarsOK
<1> HIDE DEF c
<1>3. at' \in [Tasks -> Places]
  BY <1>1, <1>2 DEF Places
<1>4. /\ at'[t] = "made" /\ at'[c] = "create" /\ t # c
      /\ \A u \in Tasks \ {t, c} : at'[u] = at[u]
  BY <1>1, <1>2
<1>5. VarsOK'
  BY <1>1, <1>3 DEF IInv, VarsOK
<1>6. Created' = Created
  BY <1>1, <1>4 DEF Created
<1>7. Elems(wait_queue)' = Elems(wait_queue) /\ Elems(wait_queue) \subseteq Tasks
  BY <1>1, ElemsOfQueue DEF Elems, IInv, VarsOK
<1>8. \A u \in Elems(wait_queue) : at'[u] = "acquire"
  BY <1>1, <1>4, <1>7 DEF IInv, Partition
<1>9. Partition'
  BY <1>1, <1>6, <1>7, <1>8 DEF IInv, Partition, Distinct, Ready
<1>10. OwnerReady'
  BY <1>1, <1>2, <1>4, TasksAssumption DEF IInv, OwnerReady
<1>11. QED
  BY <1>1, <1>5, <1>9, <1>10 DEF IInv

(* A new task is in no queue before it is activated.                       *)
LEMMA ActivateMadeIInv == ASSUME IInv, NEW t \in Tasks, activate_made(t) PROVE IInv'
<1> DEFINE c == sched.cur_
<1>1. t \notin Ready(sched) /\ SchedOK(sched) /\ CurOK(sched) /\ t \notin Elems(wait_queue)
  BY DEF IInv, Partition, Created, activate_made
<1>2. SchedOK(sched') /\ CurOK(sched') /\ Ready(sched') = Ready(sched) \cup {t}
  BY <1>1, ActivateOK DEF activate_made
<1>3. /\ c \in Tasks /\ at[c] = "create" /\ at[t] = "made"
      /\ at' = [at EXCEPT ![t] = "body", ![c] = "body"]
      /\ UNCHANGED <<val, owner, wait_queue, inside>>
  BY DEF activate_made, InAppend, Running, lock
<1>4. at \in [Tasks -> Places] /\ owner \in Tasks \cup {NoTask}
  BY DEF IInv, VarsOK
<1> HIDE DEF c
<1>5. at' \in [Tasks -> Places]
  BY <1>3, <1>4 DEF Places
<1>6. /\ at'[t] = "body" /\ at'[c] = "body" /\ t # c
      /\ \A u \in Tasks \ {t, c} : at'[u] = at[u]
  BY <1>3, <1>4
<1>7. VarsOK'
  BY <1>3, <1>5 DEF IInv, VarsOK
<1>8. Created' = Created \cup {t}
  BY <1>3, <1>6 DEF Created
<1>9. Elems(wait_queue)' = Elems(wait_queue) /\ Elems(wait_queue) \subseteq Tasks
  BY <1>3, ElemsOfQueue DEF Elems, IInv, VarsOK
<1>10. \A u \in Elems(wait_queue) : at'[u] = "acquire"
  BY <1>1, <1>3, <1>6, <1>9 DEF IInv, Partition
<1>11. Partition'
  BY <1>1, <1>2, <1>3, <1>8, <1>9, <1>10 DEF IInv, Partition, Distinct
<1>12. OwnerReady'
  BY <1>2, <1>3, <1>4, <1>6 DEF IInv, OwnerReady
<1>13. QED
  BY <1>2, <1>7, <1>11, <1>12 DEF IInv

(* Taking a free lock makes the running task its owner.                    *)
LEMMA TakeIInv ==
  ASSUME IInv, NEW t \in Tasks, sched.cur_ = t, TakeLock(t)  PROVE IInv'
<1>1. SchedOK(sched) /\ CurOK(sched) /\ t \in Ready(sched)
  BY CurIsReady DEF IInv
<1>2. /\ owner' = t /\ val' = FALSE /\ at' = [at EXCEPT ![t] = "body"]
      /\ inside' = [inside EXCEPT ![t] = @ + 1] /\ UNCHANGED <<sched, wait_queue>>
  BY DEF TakeLock
<1>3. VarsOK'
  <2>1. inside' \in [Tasks -> Nat]
    BY <1>2 DEF IInv, VarsOK
  <2>2. at' \in [Tasks -> Places]
    BY <1>2 DEF IInv, VarsOK, Places
  <2>3. val' \in BOOLEAN /\ owner' \in Tasks \cup {NoTask} /\ wait_queue' \in Seq(Tasks)
    BY <1>2 DEF IInv, VarsOK
  <2>4. QED
    BY <2>1, <2>2, <2>3 DEF VarsOK
<1>4. Created' = Created /\ Elems(wait_queue)' = Elems(wait_queue)
  BY <1>1, <1>2 DEF Created, Elems, IInv, VarsOK, Partition
<1>5. t \notin Elems(wait_queue) /\ Elems(wait_queue) \subseteq Tasks
  BY <1>1, ElemsOfQueue DEF IInv, VarsOK, Partition
<1>6. Partition'
  BY <1>2, <1>4, <1>5 DEF IInv, Partition, Distinct, VarsOK, Ready
<1>7. OwnerReady'
  BY <1>1, <1>2, TasksAssumption DEF IInv, OwnerReady, VarsOK
<1>8. QED
  BY <1>1, <1>2, <1>3, <1>6, <1>7 DEF IInv

(* A task that blocks on a taken lock leaves its owner ready.              *)
LEMMA WaitIInv ==
  ASSUME IInv, NEW t \in Tasks, sched.cur_ = t, owner # t, ~val, WaitForLock(t)
  PROVE  IInv'
<1>1. /\ SchedOK(sched) /\ CurOK(sched) /\ t \in Ready(sched)
      /\ t = Head(sched.rq) /\ sched.rq # <<>>
  BY CurIsReady DEF IInv
<1> DEFINE s == add(sched, t)
<1>2. SchedOK(s) /\ Ready(s) = Ready(sched) \ {t}
  BY <1>1, DeactivateOK DEF add
<1>3. owner \in Ready(sched) /\ owner # NoTask /\ at[owner] \in {"body", "create"}
  BY DEF IInv, OwnerReady
<1> HIDE DEF s
<1>4. SchedOK(schedule(s)) /\ CurOK(schedule(s)) /\ Ready(schedule(s)) = Ready(s)
  BY <1>2, <1>3, ScheduleOK
<1>5. /\ sched' = schedule(s) /\ wait_queue' = Append(wait_queue, t)
      /\ at' = [at EXCEPT ![t] = "acquire"] /\ UNCHANGED <<val, owner, inside>>
  BY DEF WaitForLock, s
<1>6. /\ wait_queue' \in Seq(Tasks) /\ Elems(wait_queue') = Elems(wait_queue) \cup {t}
      /\ Distinct(wait_queue')
  BY <1>1, <1>5, AppendToQueue DEF IInv, VarsOK, Partition
<1>7. VarsOK'
  BY <1>5, <1>6 DEF IInv, VarsOK, Places
<1>8. Created' = Created
  BY <1>1, <1>5 DEF Created, IInv, VarsOK, Partition
<1>9. \A u \in Elems(wait_queue') : at'[u] = "acquire"
  BY <1>5, <1>6, ElemsOfQueue DEF IInv, VarsOK, Partition
<1>10. Partition'
  BY <1>1, <1>2, <1>3, <1>4, <1>5, <1>6, <1>8, <1>9 DEF IInv, Partition
<1>11. OwnerReady'
  BY <1>2, <1>3, <1>4, <1>5 DEF IInv, OwnerReady, VarsOK
<1>12. QED
  BY <1>4, <1>5, <1>7, <1>10, <1>11 DEF IInv

(* acquire: a holder returns at once, a free lock is taken, a taken one    *)
(* waited for.                                                             *)
LEMMA AcquireIInv == ASSUME IInv, NEW t \in Tasks, acquire(t) PROVE IInv'
<1>1. sched.cur_ = t /\ at[t] = "body"
  BY DEF acquire, InBody, Running
<1>2. CASE owner = t /\ inside' = [inside EXCEPT ![t] = @ + 1]
           /\ UNCHANGED <<sched, val, owner, wait_queue, at>>
  <2>1. VarsOK'
    BY <1>2 DEF IInv, VarsOK
  <2>2. Created' = Created /\ Elems(wait_queue)' = Elems(wait_queue)
    BY <1>2 DEF Created, Elems
  <2>3. QED
    BY <1>2, <2>1, <2>2 DEF IInv, Partition, OwnerReady, Distinct, Ready
<1>3. CASE owner # t /\ val /\ TakeLock(t)
  BY <1>1, <1>3, TakeIInv
<1>4. CASE owner # t /\ ~val /\ WaitForLock(t)
  BY <1>1, <1>4, WaitIInv
<1>5. QED
  BY <1>2, <1>3, <1>4 DEF acquire

(* A task behind schedule() in acquire is not the owner.                   *)
LEMMA ResumeIInv == ASSUME IInv, NEW t \in Tasks, acquire_resume(t) PROVE IInv'
<1>1. sched.cur_ = t /\ at[t] = "acquire"
  BY DEF acquire_resume
<1>2. owner # t
  BY <1>1, TasksAssumption DEF IInv, OwnerReady
<1>3. CASE val /\ TakeLock(t)
  BY <1>1, <1>3, TakeIInv
<1>4. CASE ~val /\ WaitForLock(t)
  BY <1>1, <1>2, <1>4, WaitIInv
<1>5. QED
  BY <1>3, <1>4 DEF acquire_resume

(* wake_up_one moves the head of the wait queue to the run queue.          *)
LEMMA WakeOK ==
  ASSUME IInv, sched.cur_ \in Tasks
  PROVE  LET s == wake_up_one(sched)
             q == left_pop(wait_queue)
         IN  /\ SchedOK(s) /\ CurOK(s) /\ s.cur_ = sched.cur_
             /\ q \in Seq(Tasks) /\ Distinct(q) /\ Elems(q) \subseteq Elems(wait_queue)
             /\ Elems(q) \cap Ready(s) = {}
             /\ Elems(q) \cup Ready(s) = Elems(wait_queue) \cup Ready(sched)
             /\ Ready(sched) \subseteq Ready(s)
             /\ wait_queue # <<>> => Head(wait_queue) \in Ready(s)
             /\ wait_queue # <<>> => Head(wait_queue) \in Elems(wait_queue)
<1> DEFINE s == wake_up_one(sched)
           q == left_pop(wait_queue)
<1>1. /\ SchedOK(sched) /\ CurOK(sched) /\ wait_queue \in Seq(Tasks) /\ Distinct(wait_queue)
      /\ Elems(wait_queue) \cap Ready(sched) = {}
  BY DEF IInv, VarsOK, Partition
<1>2. CASE wait_queue = <<>>
  BY <1>1, <1>2 DEF wake_up_one, left_pop
<1>3. CASE wait_queue # <<>>
  <2> DEFINE h == Head(wait_queue)
             a == activate_task(sched, h)
             r == [a EXCEPT !.need_reschedule[sched.cur_] = TRUE]
  <2>1. /\ h \in Tasks /\ h \in Elems(wait_queue)
        /\ Tail(wait_queue) \in Seq(Tasks) /\ Distinct(Tail(wait_queue))
        /\ Elems(Tail(wait_queue)) = Elems(wait_queue) \ {h}
    BY <1>1, <1>3, TailOfQueue
  <2>2. q = Tail(wait_queue)
    BY <1>3 DEF left_pop
  <2>3. s = r
    BY <1>3 DEF wake_up_one
  <2> HIDE DEF h
  <2>4. /\ SchedOK(a) /\ CurOK(a) /\ Ready(a) = Ready(sched) \cup {h}
        /\ a.cur_ = sched.cur_
    BY <1>1, <2>1, ActivateOK
  <2> HIDE DEF a
  <2>5. a \in SchedulerState
    BY <2>4 DEF SchedOK
  <2>6. r \in SchedulerState
    BY <2>5 DEF SchedulerState
  <2>7. /\ r.rq = a.rq /\ r.expired_q = a.expired_q /\ r.cur_ = a.cur_ /\ r.panic = a.panic
        /\ r.time_slices = a.time_slices
    BY <2>5 DEF SchedulerState
  <2> HIDE DEF r, s, q
  <2>8. SchedOK(r) /\ Ready(r) = Ready(a)
    BY <2>4, <2>6, <2>7 DEF SchedOK, Ready
  <2>9. CurOK(r)
    BY <2>4, <2>7, TasksAssumption DEF CurOK
  <2>10. QED
    BY <1>1, <2>1, <2>2, <2>3, <2>4, <2>7, <2>8, <2>9 DEF h, s, q
<1>4. QED
  BY <1>2, <1>3

(* release wakes a waiter and frees the lock.                              *)
LEMMA ReleaseIInv == ASSUME IInv, NEW t \in Tasks, release(t) PROVE IInv'
<1>1. sched.cur_ = t /\ t \in Tasks /\ inside[t] > 0
  BY DEF release, InBody, Running
<1>2. /\ sched' = wake_up_one(sched) /\ wait_queue' = left_pop(wait_queue)
      /\ val' = TRUE /\ owner' = NoTask /\ UNCHANGED at
      /\ inside' = [inside EXCEPT ![t] = @ - 1]
  BY DEF release
<1>3. /\ SchedOK(sched') /\ CurOK(sched')
      /\ wait_queue' \in Seq(Tasks) /\ Distinct(wait_queue')
      /\ Elems(wait_queue') \subseteq Elems(wait_queue)
      /\ Elems(wait_queue') \cap Ready(sched') = {}
      /\ Elems(wait_queue') \cup Ready(sched') = Elems(wait_queue) \cup Ready(sched)
      /\ Ready(sched) \subseteq Ready(sched')
  BY <1>1, <1>2, WakeOK
<1>4. inside' \in [Tasks -> Nat]
  BY <1>1, <1>2 DEF IInv, VarsOK
<1>5. VarsOK'
  BY <1>2, <1>3, <1>4 DEF IInv, VarsOK
<1>6. Created' = Created
  BY <1>2 DEF Created
<1>7. Partition'
  BY <1>2, <1>3, <1>6 DEF IInv, Partition
<1>8. OwnerReady'
  BY <1>2 DEF OwnerReady
<1>9. QED
  BY <1>3, <1>5, <1>7, <1>8 DEF IInv

(* The stop of the model changes nothing else.                             *)
LEMMA SameIInv ==
  ASSUME IInv, UNCHANGED <<sched, val, owner, wait_queue, at, inside>>
  PROVE  IInv'
<1>1. VarsOK' /\ OwnerReady'
  BY DEF IInv, VarsOK, OwnerReady
<1>2. Created' = Created
  BY DEF Created
<1>3. Partition'
  BY <1>2 DEF IInv, Partition
<1>4. QED
  BY <1>1, <1>3 DEF IInv

LEMMA StopChangesNothing ==
  ASSUME TimerIrqInAppend \/ Stopped \/ UNCHANGED vars
  PROVE  UNCHANGED <<sched, val, owner, wait_queue, at, inside>>
BY DEF TimerIrqInAppend, Stopped, vars, lock

(* IInv is inductive.                                                      *)
LEMMA NextIInv == IInv /\ [Next]_vars => IInv'
<1> SUFFICES ASSUME IInv, [Next]_vars PROVE IInv'
  OBVIOUS
<1>1. CASE TimerIrq \/ DeviceIrq
  BY <1>1, InterruptIInv
<1>2. ASSUME NEW t \in Tasks, ktask_create(t)  PROVE IInv'
  BY <1>2, CreateIInv
<1>3. ASSUME NEW t \in Tasks, activate_made(t)  PROVE IInv'
  BY <1>3, ActivateMadeIInv
<1>4. ASSUME NEW t \in Tasks, acquire(t)  PROVE IInv'
  BY <1>4, AcquireIInv
<1>5. ASSUME NEW t \in Tasks, acquire_resume(t)  PROVE IInv'
  BY <1>5, ResumeIInv
<1>6. ASSUME NEW t \in Tasks, release(t)  PROVE IInv'
  BY <1>6, ReleaseIInv
<1>7. CASE TimerIrqInAppend \/ Stopped \/ UNCHANGED vars
  BY <1>7, StopChangesNothing, SameIInv
<1>8. QED
  BY <1>1, <1>2, <1>3, <1>4, <1>5, <1>6, <1>7 DEF Next

LEMMA Invariance == Spec => []IInv
BY InitIInv, NextIInv, PTL DEF Spec
-----------------------------------------------------------------------------
(* Every reachable state is well typed.                                    *)
THEOREM TypeCorrectness == Spec => []TypeOK
<1> DEFINE TornOK == torn \in BOOLEAN
<1>1. Init => TornOK
  BY DEF Init
<1>2. TornOK /\ [Next]_vars => TornOK'
  BY DEF Next, TimerIrq, TimerIrqInAppend, DeviceIrq, ktask_create, activate_made, acquire,
         acquire_resume, release, TakeLock, WaitForLock, Stopped, vars
<1>3. IInv /\ TornOK => TypeOK
  BY DEF IInv, SchedOK, VarsOK, TypeOK, Places
<1> HIDE DEF TornOK
<1>4. QED
  BY Invariance, <1>1, <1>2, <1>3, PTL DEF Spec

(* The kernel never runs into an assertion of tick or of the lists, and    *)
(* schedule always has a task, however the mutex is used and whatever      *)
(* interrupts come while a task is appended, but for the one tick that     *)
(* ends the slice there.                                                   *)
THEOREM PanicFreedom == Spec => []NoPanic
<1>1. IInv => NoPanic
  BY DEF IInv, SchedOK, NoPanic
<1>2. QED
  BY Invariance, <1>1, PTL

(* Elements and duplicates of a concatenation of two task lists.           *)
LEMMA ConcatQueues ==
  ASSUME NEW p \in Seq(Tasks), NEW q \in Seq(Tasks)
  PROVE  /\ p \o q \in Seq(Tasks)
         /\ Elems(p \o q) = Elems(p) \cup Elems(q)
         /\ Distinct(p) /\ Distinct(q) /\ Elems(p) \cap Elems(q) = {} => Distinct(p \o q)
<1>1. /\ p \o q \in Seq(Tasks) /\ Len(p) \in Nat /\ Len(q) \in Nat
      /\ Len(p \o q) = Len(p) + Len(q)
      /\ \A i \in 1..Len(p) : (p \o q)[i] = p[i]
      /\ \A i \in 1..Len(q) : (p \o q)[Len(p) + i] = q[i]
  BY ConcatProperties, LenProperties
<1>2. \A i \in 1..Len(p \o q) :
         \/ i \in 1..Len(p) /\ (p \o q)[i] = p[i]
         \/ i - Len(p) \in 1..Len(q) /\ (p \o q)[i] = q[i - Len(p)]
  <2>1. ASSUME NEW i \in 1..Len(p \o q), i \notin 1..Len(p)
        PROVE  i - Len(p) \in 1..Len(q) /\ (p \o q)[i] = q[i - Len(p)]
    <3>1. i - Len(p) \in 1..Len(q) /\ Len(p) + (i - Len(p)) = i
      BY <1>1, <2>1
    <3>2. QED
      BY <1>1, <3>1
  <2>2. QED
    BY <1>1, <2>1
<1>3. Elems(p \o q) \subseteq Elems(p) \cup Elems(q)
  BY <1>2 DEF Elems
<1>4. Elems(p) \subseteq Elems(p \o q)
  BY <1>1 DEF Elems
<1>5. Elems(q) \subseteq Elems(p \o q)
  <2>1. ASSUME NEW i \in 1..Len(q)  PROVE q[i] \in Elems(p \o q)
    <3>1. Len(p) + i \in 1..Len(p \o q) /\ (p \o q)[Len(p) + i] = q[i]
      BY <1>1
    <3>2. QED
      BY <3>1 DEF Elems
  <2>2. QED
    BY <2>1 DEF Elems
<1>6. ASSUME Distinct(p), Distinct(q), Elems(p) \cap Elems(q) = {},
             NEW i \in 1..Len(p \o q), NEW j \in 1..Len(p \o q), (p \o q)[i] = (p \o q)[j]
      PROVE  i = j
  <2>1. \A k \in 1..Len(p), l \in 1..Len(q) : p[k] # q[l]
    BY <1>6 DEF Elems
  <2>2. CASE i \in 1..Len(p) /\ j \in 1..Len(p)
    BY <1>1, <1>6, <2>2 DEF Distinct
  <2>3. CASE i \notin 1..Len(p) /\ j \notin 1..Len(p)
    <3>1. i - Len(p) = j - Len(p)
      BY <1>2, <1>6, <2>3 DEF Distinct
    <3>2. QED
      BY <1>1, <3>1
  <2>4. CASE i \in 1..Len(p) /\ j \notin 1..Len(p)
    BY <1>1, <1>2, <1>6, <2>1, <2>4
  <2>5. CASE i \notin 1..Len(p) /\ j \in 1..Len(p)
    BY <1>1, <1>2, <1>6, <2>1, <2>5
  <2>6. QED
    BY <2>2, <2>3, <2>4, <2>5
<1>7. QED
  BY <1>1, <1>3, <1>4, <1>5, <1>6 DEF Distinct

(* Run queue, expired queue and wait queue partition the created tasks,    *)
(* at every step of a creation that no slice's end has cut in two.         *)
THEOREM QueuesPartitionTasks == Spec => []NoTaskLostOrDuplicated
<1>1. ASSUME IInv PROVE NoTaskLostOrDuplicated
  <2>1. /\ sched.rq \in Seq(Tasks) /\ sched.expired_q \in Seq(Tasks)
        /\ wait_queue \in Seq(Tasks)
        /\ Distinct(sched.rq) /\ Distinct(sched.expired_q) /\ Distinct(wait_queue)
        /\ Elems(sched.rq) \cap Elems(sched.expired_q) = {}
        /\ (Elems(sched.rq) \cup Elems(sched.expired_q)) \cap Elems(wait_queue) = {}
        /\ Elems(sched.rq) \cup Elems(sched.expired_q) \cup Elems(wait_queue) = Created
    BY <1>1 DEF IInv, SchedOK, SchedulerState, VarsOK, Partition, Ready
  <2> DEFINE r == sched.rq \o sched.expired_q
  <2>2. /\ r \in Seq(Tasks) /\ Distinct(r)
        /\ Elems(r) = Elems(sched.rq) \cup Elems(sched.expired_q)
    BY <2>1, ConcatQueues
  <2> HIDE DEF r
  <2>3. Distinct(r \o wait_queue) /\ Elems(r \o wait_queue) = Created
    BY <2>1, <2>2, ConcatQueues
  <2>4. QED
    BY <2>3 DEF NoTaskLostOrDuplicated, Distinct, r
<1>2. QED
  BY Invariance, <1>1, PTL

(* A release hands the lock's freedom to a waiter that is made ready.      *)
THEOREM WakeupsAreNotLost == Spec => []NoLostWakeup
<1>1. Init => NoLostWakeup
  BY DEF Init, NoLostWakeup
<1>2. ASSUME IInv, NoLostWakeup, [Next]_vars  PROVE NoLostWakeup'
  <2> SUFFICES ASSUME val', wait_queue' # <<>>
               PROVE  \E w \in Ready(sched') : at'[w] = "acquire"
    BY DEF NoLostWakeup, Ready
  <2>1. val /\ wait_queue # <<>> => \E w \in Ready(sched) : at[w] = "acquire"
    BY <1>2 DEF NoLostWakeup, Ready
  <2>2. SchedOK(sched) /\ CurOK(sched) /\ Ready(sched) # {} /\ Ready(sched) \subseteq Created
    BY <1>2 DEF IInv, Partition
  <2>3. CASE TimerIrq \/ DeviceIrq
    <3>1. UNCHANGED <<val, wait_queue, at>>
      BY <2>3 DEF TimerIrq, DeviceIrq, lock
    <3>2. Ready(sched') = Ready(sched)
      BY <2>2, <2>3, TickOK, IntrReturnOK DEF TimerIrq, DeviceIrq
    <3>3. QED
      BY <2>1, <3>1, <3>2
  <2>4. ASSUME NEW t \in Tasks, ktask_create(t) \/ activate_made(t)
        PROVE  \E w \in Ready(sched') : at'[w] = "acquire"
    <3>1. /\ at[t] \in {"none", "made"} /\ at[sched.cur_] \in {"body", "create"}
          /\ UNCHANGED <<val, wait_queue>>
          /\ \E p, q : at' = [at EXCEPT ![t] = p, ![sched.cur_] = q]
      BY <2>4 DEF ktask_create, activate_made, InBody, InAppend, Running, lock
    <3>2. t \notin Ready(sched)
      BY <2>2, <3>1 DEF Created
    <3>3. Ready(sched) \subseteq Ready(sched')
      BY <2>2, <2>4, <3>2, ActivateOK DEF ktask_create, activate_made
    <3>4. PICK w \in Ready(sched) : at[w] = "acquire"
      BY <2>1, <3>1
    <3>5. w # t /\ w # sched.cur_ /\ w \in Tasks
      BY <2>2, <3>1, <3>2, <3>4 DEF Created
    <3>6. at'[w] = "acquire"
      BY <1>2, <3>1, <3>4, <3>5 DEF IInv, VarsOK
    <3>7. QED
      BY <3>3, <3>4, <3>6
  <2>5. ASSUME NEW t \in Tasks, acquire(t)
        PROVE  \E w \in Ready(sched') : at'[w] = "acquire"
    BY <2>1, <2>5 DEF acquire, TakeLock, WaitForLock
  <2>6. ASSUME NEW t \in Tasks, acquire_resume(t)
        PROVE  \E w \in Ready(sched') : at'[w] = "acquire"
    BY <2>1, <2>6 DEF acquire_resume, TakeLock, WaitForLock
  <2>7. ASSUME NEW t \in Tasks, release(t)
        PROVE  \E w \in Ready(sched') : at'[w] = "acquire"
    <3>1. /\ sched.cur_ \in Tasks /\ UNCHANGED at
          /\ sched' = wake_up_one(sched) /\ wait_queue' = left_pop(wait_queue)
      BY <2>7 DEF release, InBody, Running
    <3>2. wait_queue # <<>>
      BY <3>1 DEF left_pop
    <3>3. Head(wait_queue) \in Ready(sched') /\ Head(wait_queue) \in Elems(wait_queue)
      BY <1>2, <3>1, <3>2, WakeOK
    <3>4. QED
      BY <1>2, <3>1, <3>3 DEF IInv, Partition
  <2>8. CASE TimerIrqInAppend \/ Stopped \/ UNCHANGED vars
    BY <2>1, <2>8, StopChangesNothing
  <2>9. QED
    BY <1>2, <2>3, <2>4, <2>5, <2>6, <2>7, <2>8 DEF Next
<1>3. QED
  BY Invariance, <1>1, <1>2, PTL DEF Spec
-----------------------------------------------------------------------------
(* Without nested calls of acquire, only the owner is inside, and once.    *)
OwnerInside == \A t \in Tasks : inside[t] = IF owner = t THEN 1 ELSE 0

LEMMA OwnerInsideInvariant ==
  ASSUME ~Reentrant
  PROVE  Spec => []OwnerInside
<1>1. Init => OwnerInside
  BY TasksAssumption DEF Init, OwnerInside
<1>2. ASSUME IInv, OwnerInside, [Next]_vars  PROVE OwnerInside'
  <2>1. inside \in [Tasks -> Nat] /\ (val <=> owner = NoTask)
    BY <1>2 DEF IInv, VarsOK, OwnerReady
  <2>2. ASSUME NEW t \in Tasks, val, TakeLock(t)  PROVE OwnerInside'
    <3>1. owner = NoTask /\ owner' = t /\ inside' = [inside EXCEPT ![t] = @ + 1]
      BY <2>1, <2>2 DEF TakeLock
    <3>2. \A u \in Tasks : inside[u] = 0
      BY <1>2, <3>1, TasksAssumption DEF OwnerInside
    <3>3. QED
      BY <2>1, <3>1, <3>2 DEF OwnerInside
  <2>3. ASSUME NEW t \in Tasks, WaitForLock(t)  PROVE OwnerInside'
    BY <1>2, <2>3 DEF WaitForLock, OwnerInside
  <2>4. CASE TimerIrq \/ DeviceIrq
    BY <1>2, <2>4 DEF TimerIrq, DeviceIrq, lock, OwnerInside
  <2>5. ASSUME NEW t \in Tasks, ktask_create(t) \/ activate_made(t)  PROVE OwnerInside'
    BY <1>2, <2>5 DEF ktask_create, activate_made, lock, OwnerInside
  <2>6. ASSUME NEW t \in Tasks, acquire(t)  PROVE OwnerInside'
    <3>1. inside[t] = 0 /\ owner # t
      BY <1>2, <2>6 DEF acquire, OwnerInside
    <3>2. QED
      BY <2>2, <2>3, <2>6, <3>1 DEF acquire
  <2>7. ASSUME NEW t \in Tasks, acquire_resume(t)  PROVE OwnerInside'
    BY <2>2, <2>3, <2>7 DEF acquire_resume
  <2>8. ASSUME NEW t \in Tasks, release(t)  PROVE OwnerInside'
    <3>1. /\ owner' = NoTask /\ inside[t] > 0
          /\ inside' = [inside EXCEPT ![t] = @ - 1]
      BY <2>8 DEF release
    <3>2. owner = t /\ inside[t] = 1
      BY <1>2, <3>1 DEF OwnerInside
    <3>3. QED
      BY <1>2, <2>1, <3>1, <3>2, TasksAssumption DEF OwnerInside
  <2>9. CASE TimerIrqInAppend \/ Stopped \/ UNCHANGED vars
    BY <1>2, <2>9, StopChangesNothing DEF OwnerInside
  <2>10. QED
    BY <1>2, <2>4, <2>5, <2>6, <2>7, <2>8, <2>9 DEF Next
<1>3. QED
  BY Invariance, <1>1, <1>2, PTL DEF Spec

(* Two tasks are never inside together, if no holder calls acquire again.  *)
THEOREM MutexIsExclusive ==
  ASSUME ~Reentrant
  PROVE  Spec => []MutualExclusion
<1>1. OwnerInside => MutualExclusion
  BY DEF OwnerInside, MutualExclusion
<1>2. QED
  BY OwnerInsideInvariant, <1>1, PTL

(* The mutex implements the abstract lock, under the same assumption.      *)
THEOREM MutexImplementsLock ==
  ASSUME ~Reentrant
  PROVE  Spec => ImplementsLock
<1> DEFINE holder == IF val THEN NoTask ELSE owner
<1>1. Init => Lock!Init
  BY DEF Init, Lock!Init
<1>2. ASSUME IInv, OwnerInside, [Next]_vars  PROVE [Lock!Next]_holder
  <2>1. val <=> owner = NoTask
    BY <1>2 DEF IInv, OwnerReady
  <2>2. ASSUME NEW t \in Tasks, val, TakeLock(t)  PROVE [Lock!Next]_holder
    <3>1. Lock!Acquire(t)
      BY <2>2 DEF TakeLock, Lock!Acquire
    <3>2. QED
      BY <3>1 DEF Lock!Next
  <2>3. ASSUME NEW t \in Tasks, WaitForLock(t)  PROVE [Lock!Next]_holder
    BY <2>3 DEF WaitForLock
  <2>4. CASE TimerIrq \/ DeviceIrq
    BY <2>4 DEF TimerIrq, DeviceIrq, lock
  <2>5. ASSUME NEW t \in Tasks, ktask_create(t) \/ activate_made(t)  PROVE [Lock!Next]_holder
    BY <2>5 DEF ktask_create, activate_made, lock
  <2>6. ASSUME NEW t \in Tasks, acquire(t)  PROVE [Lock!Next]_holder
    <3>1. owner # t
      BY <1>2, <2>6 DEF acquire, OwnerInside
    <3>2. QED
      BY <2>2, <2>3, <2>6, <3>1 DEF acquire
  <2>7. ASSUME NEW t \in Tasks, acquire_resume(t)  PROVE [Lock!Next]_holder
    BY <2>2, <2>3, <2>7 DEF acquire_resume
  <2>8. ASSUME NEW t \in Tasks, release(t)  PROVE [Lock!Next]_holder
    <3>1. owner = t /\ owner' = NoTask /\ val' = TRUE
      BY <1>2, <2>8 DEF release, OwnerInside
    <3>2. owner # NoTask
      BY <3>1, TasksAssumption
    <3>3. Lock!Release(t)
      BY <2>1, <3>1, <3>2 DEF Lock!Release
    <3>4. QED
      BY <3>3 DEF Lock!Next
  <2>9. CASE TimerIrqInAppend \/ Stopped \/ UNCHANGED vars
    BY <2>9, StopChangesNothing
  <2>10. QED
    BY <1>2, <2>4, <2>5, <2>6, <2>7, <2>8, <2>9 DEF Next
<1>3. QED
  BY Invariance, OwnerInsideInvariant, <1>1, <1>2, PTL
  DEF Spec, ImplementsLock, Lock!Spec
-----------------------------------------------------------------------------
(* The state of a task, read off the queues, from the invariant.           *)
LEMMA TaskStateIs ==
  ASSUME IInv, NEW t \in Tasks
  PROVE  /\ TaskState[t] = "running" <=> t = sched.cur_
         /\ TaskState[t] = "ready" <=> t # sched.cur_ /\ t \in Ready(sched)
         /\ TaskState[t] = "waiting" <=> t \in Elems(wait_queue)
         /\ TaskState[t] = "none" <=> at[t] \in {"none", "made"}
         /\ TaskState[t] = IF t = sched.cur_ THEN "running"
                           ELSE IF t \in Ready(sched) THEN "ready"
                           ELSE IF t \in Elems(wait_queue) THEN "waiting" ELSE "none"
<1>1. TaskState[t] = IF t = sched.cur_ THEN "running"
                     ELSE IF t \in Ready(sched) THEN "ready"
                     ELSE IF t \in Elems(wait_queue) THEN "waiting" ELSE "none"
  BY DEF TaskState, Ready
<1>2. t = sched.cur_ => t \in Ready(sched)
  BY CurIsReady DEF IInv
<1>3. /\ Elems(wait_queue) \cap Ready(sched) = {}
      /\ t \in Elems(wait_queue) \cup Ready(sched) <=> at[t] \notin {"none", "made"}
  BY DEF IInv, Partition, Created
<1>4. QED
  BY <1>1, <1>2, <1>3

(* The tasks the abstract specification calls running.                     *)
LEMMA RunningIs ==
  ASSUME IInv
  PROVE  Lifecycle!Running = IF sched.cur_ \in Tasks THEN {sched.cur_} ELSE {}
<1>1. \A t \in Tasks : TaskState[t] = "running" <=> t = sched.cur_
  BY TaskStateIs
<1>2. QED
  BY <1>1 DEF Lifecycle!Running

(* A switch that leaves the other queues alone hands the processor over.   *)
LEMMA SwitchHandsOver ==
  ASSUME IInv, IInv', sched.cur_' \in Ready(sched), sched.cur_' # sched.cur_,
         NEW left \in {"ready", "waiting"},
         \A t \in Tasks : TaskState[t]' =
            IF t = sched.cur_' THEN "running"
            ELSE IF t = sched.cur_ THEN left ELSE TaskState[t]
  PROVE  Lifecycle!HandOver(sched.cur_', left)
<1>1. sched.cur_' \in Tasks
  BY ElemsOfQueue DEF IInv, SchedOK, SchedulerState, Ready
<1>2. TaskState[sched.cur_'] = "ready"
  BY <1>1, TaskStateIs
<1>3. \A t \in Tasks : t \in Lifecycle!Running <=> t = sched.cur_
  BY RunningIs
<1>4. TaskState' = [t \in Tasks |-> IF t = sched.cur_' THEN "running"
                                    ELSE IF t \in Lifecycle!Running THEN left
                                    ELSE TaskState[t]]
  <2>1. TaskState' = [t \in Tasks |-> TaskState'[t]]
    BY DEF TaskState
  <2> HIDE DEF TaskState
  <2>2. QED
    BY <1>3, <2>1
<1>5. QED
  BY <1>2, <1>4 DEF Lifecycle!HandOver

(* A step that keeps the processor and the queues keeps all task states.   *)
LEMMA SameState ==
  ASSUME IInv, IInv', sched.cur_' = sched.cur_, Ready(sched') = Ready(sched),
         Elems(wait_queue') = Elems(wait_queue)
  PROVE  TaskState' = TaskState
<1>1. TaskState = [t \in Tasks |-> IF t = sched.cur_ THEN "running"
                     ELSE IF t \in Ready(sched) THEN "ready"
                     ELSE IF t \in Elems(wait_queue) THEN "waiting" ELSE "none"]
  BY DEF TaskState, Ready
<1>2. TaskState' = [t \in Tasks |-> IF t = sched'.cur_ THEN "running"
                     ELSE IF t \in Ready(sched') THEN "ready"
                     ELSE IF t \in Elems(wait_queue') THEN "waiting" ELSE "none"]
  BY DEF TaskState, Ready, Elems
<1>3. QED
  BY <1>1, <1>2

(* Interrupts preempt.                                                     *)
LEMMA InterruptPreempts ==
  ASSUME IInv, IInv', TimerIrq \/ DeviceIrq
  PROVE  [Lifecycle!Next]_TaskState
<1>1. SchedOK(sched) /\ CurOK(sched) /\ Ready(sched) # {}
  BY DEF IInv, Partition
<1>2. Ready(sched') = Ready(sched) /\ sched.cur_' \in Ready(sched) \cup {sched.cur_}
  <2>1. CASE TimerIrq
    <3> DEFINE s == tick(sched)
    <3>1. /\ SchedOK(s) /\ Ready(s) = Ready(sched) /\ s.cur_ = sched.cur_
          /\ s.need_reschedule[s.cur_] \/ CurOK(s)
      BY <1>1, TickOK
    <3> HIDE DEF s
    <3>2. sched' = intr_return(s)
      BY <2>1 DEF TimerIrq, s
    <3>3. QED
      BY <1>1, <3>1, <3>2, IntrReturnOK
  <2>2. CASE DeviceIrq
    BY <1>1, <2>2, IntrReturnOK DEF DeviceIrq
  <2>3. QED
    BY <2>1, <2>2
<1>3. UNCHANGED wait_queue
  BY DEF TimerIrq, DeviceIrq, lock
<1>4. CASE sched.cur_' = sched.cur_
  BY <1>2, <1>3, <1>4, SameState
<1>5. CASE sched.cur_' # sched.cur_
  <2>1. ASSUME NEW t \in Tasks
        PROVE  TaskState[t]' = IF t = sched.cur_' THEN "running"
                               ELSE IF t = sched.cur_ THEN "ready" ELSE TaskState[t]
    <3>1. t = sched.cur_ => t \in Ready(sched)
      BY CurIsReady DEF IInv
    <3>2. TaskState[t]' = IF t = sched'.cur_ THEN "running"
                          ELSE IF t \in Ready(sched') THEN "ready"
                          ELSE IF t \in Elems(wait_queue') THEN "waiting" ELSE "none"
      BY DEF TaskState, Ready, Elems
    <3>3. QED
      BY <1>2, <1>3, <3>1, <3>2, TaskStateIs
  <2>2. Lifecycle!HandOver(sched.cur_', "ready")
    BY <1>2, <1>5, <2>1, SwitchHandsOver
  <2>3. sched.cur_' \in Tasks
    BY <1>2, <1>5, ElemsOfQueue DEF IInv, SchedOK, SchedulerState, Ready
  <2>4. QED
    BY <2>2, <2>3 DEF Lifecycle!Next, Lifecycle!Preempt
<1>6. QED
  BY <1>4, <1>5

(* Blocking on the lock is waiting.                                        *)
LEMMA BlockingWaits ==
  ASSUME IInv, IInv', NEW t \in Tasks, sched.cur_ = t, owner # t, ~val, WaitForLock(t)
  PROVE  Lifecycle!Wait
<1>1. /\ SchedOK(sched) /\ t \in Ready(sched) /\ t = Head(sched.rq) /\ sched.rq # <<>>
  BY CurIsReady DEF IInv
<1>2. owner \in Ready(sched)
  BY DEF IInv, OwnerReady
<1> DEFINE s == add(sched, t)
<1>3. SchedOK(s) /\ Ready(s) = Ready(sched) \ {t}
  BY <1>1, DeactivateOK DEF add
<1>4. sched' = schedule(s) /\ wait_queue' = Append(wait_queue, t)
  BY DEF WaitForLock
<1> HIDE DEF s
<1>5. Ready(sched') = Ready(sched) \ {t} /\ sched.cur_' \in Ready(sched) \ {t}
  BY <1>2, <1>3, <1>4, ScheduleOK
<1>6. Elems(wait_queue') = Elems(wait_queue) \cup {t}
  BY <1>4, AppendToQueue DEF IInv, VarsOK
<1>7. ASSUME NEW u \in Tasks
      PROVE  TaskState[u]' = IF u = sched.cur_' THEN "running"
                             ELSE IF u = sched.cur_ THEN "waiting" ELSE TaskState[u]
  <2>1. TaskState[u]' = IF u = sched'.cur_ THEN "running"
                        ELSE IF u \in Ready(sched') THEN "ready"
                        ELSE IF u \in Elems(wait_queue') THEN "waiting" ELSE "none"
    BY DEF TaskState, Ready, Elems
  <2>2. QED
    BY <1>5, <1>6, <2>1, TaskStateIs
<1>8. Lifecycle!HandOver(sched.cur_', "waiting")
  BY <1>5, <1>7, SwitchHandsOver
<1>9. sched.cur_' \in Tasks
  BY <1>5, ElemsOfQueue DEF IInv, SchedOK, SchedulerState, Ready
<1>10. Lifecycle!Running # {}
  BY RunningIs
<1>11. QED
  BY <1>8, <1>9, <1>10 DEF Lifecycle!Wait

(* A step that makes one task ready, from `from`, and keeps the rest.      *)
LEMMA BecomesReady ==
  ASSUME IInv, IInv', NEW t \in Tasks, t \notin Ready(sched),
         sched.cur_' = sched.cur_, Ready(sched') = Ready(sched) \cup {t},
         \A u \in Tasks : u # t => (u \in Elems(wait_queue') <=> u \in Elems(wait_queue))
  PROVE  TaskState' = [TaskState EXCEPT ![t] = "ready"]
<1>1. t # sched.cur_
  BY CurIsReady DEF IInv
<1>2. ASSUME NEW u \in Tasks
      PROVE  TaskState[u]' = IF u = t THEN "ready" ELSE TaskState[u]
  <2>1. TaskState[u]' = IF u = sched'.cur_ THEN "running"
                        ELSE IF u \in Ready(sched') THEN "ready"
                        ELSE IF u \in Elems(wait_queue') THEN "waiting" ELSE "none"
    BY DEF TaskState, Ready, Elems
  <2>2. QED
    BY <1>1, <2>1, TaskStateIs
<1>3. TaskState' = [u \in Tasks |-> TaskState'[u]] /\ TaskState = [u \in Tasks |-> TaskState[u]]
  BY DEF TaskState
<1> HIDE DEF TaskState
<1>4. QED
  BY <1>2, <1>3

(* The end of a creation, and wake-ups, are the abstract ones.             *)
LEMMA CreateCreates ==
  ASSUME IInv, IInv', NEW t \in Tasks, activate_made(t)
  PROVE  Lifecycle!Create(t)
<1>1. /\ t \notin Ready(sched) /\ SchedOK(sched) /\ at[t] = "made"
      /\ sched.cur_ \in Tasks /\ UNCHANGED wait_queue
  BY DEF IInv, Partition, Created, activate_made, lock, InAppend, Running
<1>2. sched'.cur_ = sched.cur_ /\ Ready(sched') = Ready(sched) \cup {t}
  BY <1>1, ActivateOK DEF activate_made
<1>3. TaskState' = [TaskState EXCEPT ![t] = "ready"]
  BY <1>1, <1>2, BecomesReady
<1>4. QED
  BY <1>1, <1>3, TaskStateIs, RunningIs DEF Lifecycle!Create

LEMMA ReleaseWakes ==
  ASSUME IInv, IInv', NEW t \in Tasks, release(t)
  PROVE  [Lifecycle!Next]_TaskState
<1>1. /\ sched.cur_ \in Tasks /\ sched' = wake_up_one(sched)
      /\ wait_queue' = left_pop(wait_queue)
  BY DEF release, InBody, Running
<1>2. SchedOK(sched) /\ wait_queue \in Seq(Tasks) /\ Distinct(wait_queue)
  BY DEF IInv, VarsOK, Partition
<1>3. CASE wait_queue = <<>>
  BY <1>1, <1>3, SameState DEF wake_up_one, left_pop
<1>4. CASE wait_queue # <<>>
  <2> DEFINE h == Head(wait_queue)
  <2>1. h \in Tasks /\ h \in Elems(wait_queue) /\ wait_queue' = Tail(wait_queue)
        /\ Elems(Tail(wait_queue)) = Elems(wait_queue) \ {h}
    BY <1>1, <1>2, <1>4, TailOfQueue DEF left_pop
  <2>2. h \notin Ready(sched)
    BY <2>1 DEF IInv, Partition
  <2>3. /\ SchedOK(sched') /\ CurOK(sched') /\ sched'.cur_ = sched.cur_
        /\ Ready(sched) \subseteq Ready(sched') /\ h \in Ready(sched')
        /\ Elems(wait_queue') \cap Ready(sched') = {}
        /\ Elems(wait_queue') \cup Ready(sched') = Elems(wait_queue) \cup Ready(sched)
    BY <1>1, <1>4, WakeOK
  <2>4. Ready(sched') = Ready(sched) \cup {h}
    BY <2>1, <2>2, <2>3 DEF IInv, Partition
  <2>5. TaskState' = [TaskState EXCEPT ![h] = "ready"]
    BY <2>1, <2>2, <2>3, <2>4, BecomesReady
  <2>6. Lifecycle!Wake(h)
    BY <1>1, <2>1, <2>5, TaskStateIs, RunningIs DEF Lifecycle!Wake
  <2>7. QED
    BY <2>1, <2>6 DEF Lifecycle!Next
<1>5. QED
  BY <1>3, <1>4

(* Tasks under the scheduler and the mutex go through the states of        *)
(* Task.hpp as the abstract specification lets them, however the mutex is  *)
(* used: the processor never idles and is handed to ready tasks only.      *)
THEOREM KernelImplementsLifecycle == Spec => ImplementsLifecycle
<1>1. Init => Lifecycle!Init
  <2> SUFFICES ASSUME Init PROVE Lifecycle!Init
    OBVIOUS
  <2>1. IInv /\ sched.cur_ = DummyTask /\ Ready(sched) = {InitTask} /\ wait_queue = <<>>
    BY InitIInv, InitOK DEF Init, SchedulerInit
  <2>2. TaskState = [t \in Tasks |-> IF t = sched.cur_ THEN "running"
                       ELSE IF t \in Ready(sched) THEN "ready"
                       ELSE IF t \in Elems(wait_queue) THEN "waiting" ELSE "none"]
    BY DEF TaskState, Ready
  <2>3. QED
    BY <2>1, <2>2, ElemsOfQueue, TasksAssumption DEF Lifecycle!Init, IInv, VarsOK
<1>2. ASSUME IInv, IInv', [Next]_vars  PROVE [Lifecycle!Next]_TaskState
  <2>1. CASE TimerIrq \/ DeviceIrq
    BY <1>2, <2>1, InterruptPreempts
  <2>2. ASSUME NEW t \in Tasks, activate_made(t)  PROVE [Lifecycle!Next]_TaskState
    BY <1>2, <2>2, CreateCreates DEF Lifecycle!Next
  <2>3. ASSUME NEW t \in Tasks, TakeLock(t)  PROVE [Lifecycle!Next]_TaskState
    <3>1. UNCHANGED <<sched, wait_queue>>
      BY <2>3 DEF TakeLock
    <3>2. QED
      BY <1>2, <3>1, SameState
  <2>4. ASSUME NEW t \in Tasks, sched.cur_ = t, owner # t, ~val, WaitForLock(t)
        PROVE  [Lifecycle!Next]_TaskState
    BY <1>2, <2>4, BlockingWaits DEF Lifecycle!Next
  <2>5. ASSUME NEW t \in Tasks, acquire(t)  PROVE [Lifecycle!Next]_TaskState
    <3>1. CASE UNCHANGED <<sched, val, owner, wait_queue, at>>
      BY <1>2, <3>1, SameState
    <3>2. CASE owner # t /\ val /\ TakeLock(t)
      BY <2>3, <3>2
    <3>3. CASE owner # t /\ ~val /\ WaitForLock(t)
      BY <2>4, <2>5, <3>3 DEF acquire, InBody, Running
    <3>4. QED
      BY <2>5, <3>1, <3>2, <3>3 DEF acquire
  <2>6. ASSUME NEW t \in Tasks, acquire_resume(t)  PROVE [Lifecycle!Next]_TaskState
    <3>1. sched.cur_ = t /\ owner # t
      BY <1>2, <2>6, TasksAssumption DEF acquire_resume, IInv, OwnerReady
    <3>2. QED
      BY <2>3, <2>4, <2>6, <3>1 DEF acquire_resume
  <2>7. ASSUME NEW t \in Tasks, release(t)  PROVE [Lifecycle!Next]_TaskState
    BY <1>2, <2>7, ReleaseWakes
  <2>8. CASE TimerIrqInAppend \/ Stopped \/ UNCHANGED vars \/ \E t \in Tasks : ktask_create(t)
    <3>1. UNCHANGED <<sched, wait_queue>>
      BY <2>8, StopChangesNothing DEF ktask_create, lock
    <3>2. QED
      BY <1>2, <3>1, SameState
  <2>9. QED
    BY <1>2, <2>1, <2>2, <2>5, <2>6, <2>7, <2>8 DEF Next
<1>3. QED
  BY Invariance, <1>1, <1>2, PTL DEF Spec, ImplementsLifecycle, Lifecycle!Spec
=============================================================================
