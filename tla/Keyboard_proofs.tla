--------------------------- MODULE Keyboard_proofs ---------------------------
(***************************************************************************)
(* The safety of the keyboard driver for every capacity of its queue, any  *)
(* set of keys, any number of key events and any arguments of get_keys.    *)
(*                                                                         *)
(* IInv is the inductive invariant.  Its core is that tail_ is where head_ *)
(* and size_ say it is, that what is on the way to the init task was typed *)
(* before what is still on the wire, and that the bytes on the wire tell   *)
(* the driver of every change of the shift keys before it matters.         *)
(***************************************************************************)
EXTENDS Keyboard, SequenceTheorems, TLAPS

-----------------------------------------------------------------------------
(* The ring, as a function of its slots d, its head h and its length s     *)

(* The slot of the i-th element.                                           *)
SlotOf(h, i) == (h + i - 1) % capacity_

Elements(d, h, s) == [i \in 1..s |-> d[SlotOf(h, i)]]

(* An index that runs past the last slot wraps once.                       *)
LEMMA SlotOfWraps ==
  ASSUME NEW h \in Slots, NEW i \in 1..capacity_ + 1
  PROVE  /\ SlotOf(h, i) \in Slots
         /\ SlotOf(h, i) = IF h + i - 1 < capacity_ THEN h + i - 1 ELSE h + i - 1 - capacity_
<1> USE CapacityAssumption
<1>1. CASE h + i - 1 < capacity_
  BY <1>1 DEF Slots, SlotOf
<1>2. CASE h + i - 1 >= capacity_
  BY <1>2 DEF Slots, SlotOf
<1> QED
  BY <1>1, <1>2 DEF Slots

(* One slot on is the slot of the next element: behind the last element,   *)
(* and from the head.                                                      *)
LEMMA SlotOfNext ==
  ASSUME NEW h \in Slots, NEW i \in 1..capacity_
  PROVE  /\ SlotOf(h, 1) = h
         /\ (SlotOf(h, i) + 1) % capacity_ = SlotOf(h, i + 1)
<1> USE CapacityAssumption
<1>1. SlotOf(h, 1) = h
  BY SlotOfWraps DEF Slots
<1>2. /\ SlotOf(h, i) = IF h + i - 1 < capacity_ THEN h + i - 1 ELSE h + i - 1 - capacity_
      /\ SlotOf(h, i + 1) = IF h + i < capacity_ THEN h + i ELSE h + i - capacity_
  BY SlotOfWraps DEF Slots
<1>3. CASE h + i - 1 < capacity_
  <2>1. CASE h + i < capacity_
    BY <1>1, <1>2, <1>3, <2>1 DEF Slots
  <2>2. CASE h + i = capacity_
    BY <1>1, <1>2, <1>3, <2>2 DEF Slots
  <2> QED
    BY <1>1, <1>3, <2>1, <2>2 DEF Slots
<1>4. CASE h + i - 1 >= capacity_
  BY <1>1, <1>2, <1>4 DEF Slots
<1> QED
  BY <1>1, <1>3, <1>4 DEF Slots

(* Elements of one lap are in different slots.                             *)
LEMMA SlotOfInjective ==
  ASSUME NEW h \in Slots, NEW i \in 1..capacity_, NEW j \in 1..capacity_, i # j
  PROVE  SlotOf(h, i) # SlotOf(h, j)
<1> USE CapacityAssumption
<1>1. /\ SlotOf(h, i) = IF h + i - 1 < capacity_ THEN h + i - 1 ELSE h + i - 1 - capacity_
      /\ SlotOf(h, j) = IF h + j - 1 < capacity_ THEN h + j - 1 ELSE h + j - 1 - capacity_
  BY SlotOfWraps
<1> QED
  BY <1>1 DEF Slots

(* The elements, where there are any, are a sequence.                      *)
LEMMA ElementsSeq ==
  ASSUME NEW S, NEW h \in Slots, NEW s \in 0..capacity_, NEW d,
         \A i \in 1..s : d[SlotOf(h, i)] \in S
  PROVE  /\ Elements(d, h, s) \in Seq(S)
         /\ Len(Elements(d, h, s)) = s
         /\ \A i \in 1..s : Elements(d, h, s)[i] = d[SlotOf(h, i)]
BY CapacityAssumption DEF Elements

(* Writing the slot behind the last element appends.                       *)
LEMMA EnqueueAppends ==
  ASSUME NEW S, NEW h \in Slots, NEW s \in 0..capacity_ - 1, NEW d, NEW d2, NEW e \in S,
         Elements(d, h, s) \in Seq(S),
         d2[SlotOf(h, s + 1)] = e,
         \A slot \in Slots \ {SlotOf(h, s + 1)} : d2[slot] = d[slot]
  PROVE  Elements(d2, h, s + 1) = Append(Elements(d, h, s), e)
<1> USE CapacityAssumption
<1>1. s + 1 \in 0..capacity_
  OBVIOUS
<1>2. ASSUME NEW i \in 1..s  PROVE d2[SlotOf(h, i)] = d[SlotOf(h, i)]
  BY <1>1, SlotOfInjective, SlotOfWraps
<1>3. \A i \in 1..s : d[SlotOf(h, i)] \in S
  BY DEF Elements
<1>4. \A i \in 1..s + 1 : d2[SlotOf(h, i)] \in S
  BY <1>2, <1>3
<1>5. /\ Elements(d2, h, s + 1) \in Seq(S)
      /\ Len(Elements(d2, h, s + 1)) = s + 1
      /\ \A i \in 1..s + 1 : Elements(d2, h, s + 1)[i] = d2[SlotOf(h, i)]
  BY <1>1, <1>4, ElementsSeq
<1>6. /\ Len(Elements(d, h, s)) = s
      /\ \A i \in 1..s : Elements(d, h, s)[i] = d[SlotOf(h, i)]
  BY <1>3, ElementsSeq
<1>7. /\ Append(Elements(d, h, s), e) \in Seq(S)
      /\ Len(Append(Elements(d, h, s), e)) = s + 1
      /\ \A i \in 1..s + 1 : Append(Elements(d, h, s), e)[i] = d2[SlotOf(h, i)]
  BY <1>2, <1>6, AppendProperties
<1> QED
  BY <1>5, <1>7, SeqEqual

(* Moving the head on drops the first element.                             *)
LEMMA DequeueTail ==
  ASSUME NEW S, NEW h \in Slots, NEW s \in 1..capacity_, NEW d,
         Elements(d, h, s) \in Seq(S)
  PROVE  /\ d[h] = Head(Elements(d, h, s))
         /\ Elements(d, SlotOf(h, 2), s - 1) = Tail(Elements(d, h, s))
<1> USE CapacityAssumption
<1>1. \A i \in 1..s : d[SlotOf(h, i)] \in S
  BY DEF Elements
<1>2. /\ Len(Elements(d, h, s)) = s
      /\ \A i \in 1..s : Elements(d, h, s)[i] = d[SlotOf(h, i)]
  BY <1>1, ElementsSeq
<1>3. SlotOf(h, 2) \in Slots
  BY SlotOfWraps
<1>4. ASSUME NEW i \in 1..s - 1  PROVE SlotOf(SlotOf(h, 2), i) = SlotOf(h, i + 1)
  <2> DEFINE g == SlotOf(h, 2)
  <2>1. i + 1 \in 1..capacity_ + 1 /\ i \in 1..capacity_ + 1 /\ 2 \in 1..capacity_ + 1
    OBVIOUS
  <2>2. g = IF h + 2 - 1 < capacity_ THEN h + 2 - 1 ELSE h + 2 - 1 - capacity_
    BY <2>1, SlotOfWraps
  <2>3. SlotOf(h, i + 1) = IF h + (i + 1) - 1 < capacity_ THEN h + (i + 1) - 1
                           ELSE h + (i + 1) - 1 - capacity_
    BY <2>1, SlotOfWraps
  <2> HIDE DEF g
  <2>4. SlotOf(g, i) = IF g + i - 1 < capacity_ THEN g + i - 1 ELSE g + i - 1 - capacity_
    BY <1>3, <2>1, SlotOfWraps DEF g
  <2>5. SlotOf(g, i) = SlotOf(h, i + 1)
    BY <2>2, <2>3, <2>4 DEF Slots
  <2> QED
    BY <2>5 DEF g
<1>5. /\ Elements(d, SlotOf(h, 2), s - 1) \in Seq(S)
      /\ Len(Elements(d, SlotOf(h, 2), s - 1)) = s - 1
      /\ \A i \in 1..s - 1 : Elements(d, SlotOf(h, 2), s - 1)[i] = d[SlotOf(h, i + 1)]
  <2>1. \A i \in 1..s - 1 : d[SlotOf(SlotOf(h, 2), i)] \in S
    BY <1>1, <1>4
  <2> QED
    BY <1>3, <1>4, <2>1, ElementsSeq
<1>6. d[h] = Head(Elements(d, h, s))
  BY <1>2, SlotOfNext
<1>7. Elements(d, SlotOf(h, 2), s - 1) = Tail(Elements(d, h, s))
  <2> DEFINE u == Elements(d, h, s)
             t == Elements(d, SlotOf(h, 2), s - 1)
  <2>1. u \in Seq(S) /\ Len(u) = s /\ u # <<>>
    BY <1>2
  <2>2. /\ t \in Seq(S) /\ Len(t) = s - 1
        /\ \A i \in 1..s - 1 : t[i] = u[i + 1]
    BY <1>2, <1>5
  <2> HIDE DEF t, u
  <2>3. /\ Tail(u) \in Seq(S) /\ Len(Tail(u)) = s - 1
        /\ \A i \in 1..s - 1 : Tail(u)[i] = u[i + 1]
    BY <2>1, HeadTailProperties
  <2>4. t = Tail(u)
    BY <2>2, <2>3, SeqEqual
  <2> QED
    BY <2>4 DEF t, u
<1> QED
  BY <1>6, <1>7
-----------------------------------------------------------------------------
(* The inductive invariant                                                 *)

KeyBytes == [key : Keys, make : BOOLEAN, nr : Nat, shift : BOOLEAN]

Combinations ==
  [nr : Nat, ascii : {"shifted", "plain", "none"}, may_shift : BOOLEAN]

(* The indices are slots, and the last element of a queue that has one is  *)
(* size_ - 1 slots behind the first.                                       *)
RingOK ==
  /\ DOMAIN data_ = Slots
  /\ head_ \in Slots /\ tail_ \in Slots /\ size_ \in 0..capacity_
  /\ size_ # 0 => tail_ = SlotOf(head_, size_)

TypeOK ==
  /\ RingOK
  /\ Contents \in Seq(Combinations)
  /\ buffer \in Seq(Combinations) /\ used \in Seq(Combinations)
  /\ wire \in Seq(KeyBytes \cup {Prefix})
  /\ held \subseteq Keys /\ fake \in BOOLEAN /\ events \in Nat /\ synced \in BOOLEAN

(* What was typed earlier is further on its way.                           *)
Numbered ==
  /\ \A i \in 1..Len(Stream) : Stream[i].nr < events
  /\ \A i \in 1..Len(wire) : wire[i] # Prefix => wire[i].nr < events
  /\ \A i, j \in 1..Len(wire) :
       i < j /\ wire[i] # Prefix /\ wire[j] # Prefix => wire[i].nr < wire[j].nr
  /\ \A i \in 1..Len(Stream), j \in 1..Len(wire) :
       wire[j] # Prefix => Stream[i].nr < wire[j].nr

NoShiftIn(i, j) == \A n \in i..j : ~IsShift(wire[n])

(* From place p of the wire on a shift key is down, or a fake shift stands *)
(* in for one, until the next code of a shift key.                         *)
DownFrom(p) ==
  /\ \A j \in p..Len(wire) : NoShiftIn(p, j) /\ wire[j] # Prefix => wire[j].shift
  /\ NoShiftIn(p, Len(wire)) => ShiftDown

(* So it is behind the make code of a shift key, and from the              *)
(* driver's place on when it has the bit.                                  *)
ShiftKnown ==
  /\ synced /\ "SHIFT" \in modifiers_ => DownFrom(1)
  /\ \A p \in 1..Len(wire) : IsShift(wire[p]) /\ wire[p].make => DownFrom(p + 1)

IInv == TypeOK /\ KeysInOrder /\ Numbered /\ ShiftKnown /\ NoPhantomShift
-----------------------------------------------------------------------------
(* What the operations do to the queue                                     *)

LEMMA ContentsIsElements == Contents = Elements(data_, head_, size_)
BY DEF Contents, Elements, SlotOf

LEMMA EnqueueStep ==
  ASSUME TypeOK, NEW e \in Combinations, enqueue(e)
  PROVE  /\ RingOK'
         /\ \/ size_ = capacity_ /\ Contents' = Contents
            \/ size_ < capacity_ /\ Contents' = Append(Contents, e)
<1> USE CapacityAssumption DEF TypeOK, RingOK
<1>1. CASE size_ = capacity_
  BY <1>1 DEF enqueue, queue_, Contents
<1>2. CASE size_ # capacity_
  <2> DEFINE h == IF size_ = 0 THEN 0 ELSE head_
  <2>1. /\ tail_' = next_tail /\ head_' = h /\ size_' = size_ + 1
        /\ data_' = [data_ EXCEPT ![tail_'] = e]
    BY <1>2 DEF enqueue
  <2>2. h \in Slots /\ size_ \in 0..capacity_ - 1
    BY <1>2 DEF Slots
  <2>3. next_tail = SlotOf(h, size_ + 1)
    <3>1. CASE size_ = 0
      BY <2>2, <3>1, SlotOfNext DEF next_tail
    <3>2. CASE size_ # 0
      BY <2>2, <3>2, SlotOfNext DEF next_tail
    <3> QED
      BY <3>1, <3>2
  <2>4. Contents = Elements(data_, h, size_)
    <3>1. CASE size_ = 0
      BY <3>1, ContentsIsElements DEF Elements
    <3>2. CASE size_ # 0
      BY <3>2, ContentsIsElements
    <3> QED
      BY <3>1, <3>2
  <2>5. Contents' = Elements(data_', h, size_ + 1)
    BY <2>1 DEF Contents, Elements, SlotOf
  <2> HIDE DEF h
  <2>6. Contents' = Append(Contents, e)
    <3>1. /\ data_'[SlotOf(h, size_ + 1)] = e
          /\ \A slot \in Slots \ {SlotOf(h, size_ + 1)} : data_'[slot] = data_[slot]
      BY <2>1, <2>2, <2>3, SlotOfWraps
    <3>2. Elements(data_, h, size_) \in Seq(Combinations)
      BY <2>4
    <3> HIDE DEF TypeOK, RingOK
    <3>3. Elements(data_', h, size_ + 1) = Append(Elements(data_, h, size_), e)
      BY <2>2, <3>1, <3>2, EnqueueAppends
    <3> QED
      BY <2>4, <2>5, <3>3
  <2>7. RingOK'
    BY <2>1, <2>2, <2>3, SlotOfWraps
  <2> QED
    BY <2>2, <2>6, <2>7
<1> QED
  BY <1>1, <1>2

LEMMA DequeueStep ==
  ASSUME TypeOK, size_ # 0, dequeue
  PROVE  /\ RingOK'
         /\ Contents # <<>> /\ front = Head(Contents) /\ Contents' = Tail(Contents)
<1> USE CapacityAssumption DEF TypeOK, RingOK
<1>1. /\ head_' = SlotOf(head_, 2) /\ size_' = size_ - 1
      /\ data_' = data_ /\ tail_' = tail_
  BY DEF dequeue, SlotOf, Slots
<1>2. size_ \in 1..capacity_
  OBVIOUS
<1>3. /\ front = Head(Contents)
      /\ Elements(data_, SlotOf(head_, 2), size_ - 1) = Tail(Contents)
  BY <1>2, ContentsIsElements, DequeueTail DEF front
<1>4. Contents' = Tail(Contents)
  BY <1>1, <1>3 DEF Contents, Elements, SlotOf
<1>5. Contents # <<>>
  <2> HIDE DEF TypeOK, RingOK
  <2>1. size_ \in Nat /\ size_ # 0
    BY <1>2, CapacityAssumption
  <2>2. Len(Contents) = size_
    BY <2>1 DEF Contents
  <2> QED
    BY <2>1, <2>2
<1>6. head_' \in Slots /\ size_' \in 0..capacity_
  BY <1>1, <1>2, SlotOfWraps
<1>7. size_' # 0 => tail_' = SlotOf(head_', size_')
  <2> SUFFICES ASSUME size_' # 0  PROVE SlotOf(head_, size_) = SlotOf(SlotOf(head_, 2), size_ - 1)
    BY <1>1
  <2> DEFINE g == SlotOf(head_, 2)
  <2>1. g = IF head_ + 2 - 1 < capacity_ THEN head_ + 2 - 1 ELSE head_ + 2 - 1 - capacity_
    BY <1>2, SlotOfWraps
  <2>2. SlotOf(head_, size_) = IF head_ + size_ - 1 < capacity_ THEN head_ + size_ - 1
                               ELSE head_ + size_ - 1 - capacity_
    BY <1>2, SlotOfWraps
  <2>3. g \in Slots /\ size_ - 1 \in 1..capacity_
    BY <1>1, <1>2, SlotOfWraps
  <2> HIDE DEF g
  <2>4. SlotOf(g, size_ - 1) = IF g + (size_ - 1) - 1 < capacity_ THEN g + (size_ - 1) - 1
                               ELSE g + (size_ - 1) - 1 - capacity_
    BY <2>3, SlotOfWraps
  <2>5. SlotOf(head_, size_) = SlotOf(g, size_ - 1)
    BY <1>2, <2>1, <2>2, <2>3, <2>4 DEF Slots
  <2> QED
    BY <2>5 DEF g
<1> QED
  BY <1>1, <1>3, <1>4, <1>5, <1>6, <1>7

LEMMA QueueUnchanged ==
  ASSUME TypeOK, UNCHANGED queue_
  PROVE  RingOK' /\ Contents' = Contents
BY DEF TypeOK, RingOK, Contents, queue_

-----------------------------------------------------------------------------
(* What each step does to the keys under way                               *)

LEMMA CombinationType ==
  ASSUME TypeOK, NEW b \in KeyBytes
  PROVE  Combination(b) \in Combinations
BY DEF TypeOK, KeyBytes, Combinations, Combination, ascii

(* What the interrupt handler takes off the wire.                          *)
LEMMA HeadOfWire ==
  ASSUME TypeOK, wire # <<>>
  PROVE  /\ Head(wire) = wire[1] /\ 1 \in 1..Len(wire)
         /\ Head(wire) # Prefix => Head(wire) \in KeyBytes
         /\ Tail(wire) \in Seq(KeyBytes \cup {Prefix})
         /\ Len(Tail(wire)) = Len(wire) - 1
         /\ \A i \in 1..Len(wire) - 1 : Tail(wire)[i] = wire[i + 1]
<1>1. wire \in Seq(KeyBytes \cup {Prefix})
  BY DEF TypeOK
<1> QED
  BY <1>1, HeadTailProperties

(* A key event puts its byte at the end, perhaps behind a prefix.          *)
LEMMA SendExtends ==
  ASSUME TypeOK, NEW k \in Keys, NEW make \in BOOLEAN,
         NEW p \in {<<>>, <<Prefix>>}, Send(k, make, p)
  PROVE  /\ Byte(k, make) \in KeyBytes
         /\ wire' \in Seq(KeyBytes \cup {Prefix})
         /\ Len(wire') \in {Len(wire) + 1, Len(wire) + 2}
         /\ wire'[Len(wire')] = Byte(k, make)
         /\ Len(wire') = Len(wire) + 2 => wire'[Len(wire) + 1] = Prefix
         /\ \A i \in 1..Len(wire) : wire'[i] = wire[i]
<1> DEFINE S == KeyBytes \cup {Prefix}
<1>1. Byte(k, make) \in KeyBytes
  BY DEF TypeOK, Byte, KeyBytes, ShiftDown
<1>2. wire' = wire \o p \o <<Byte(k, make)>>
  BY DEF Send
<1>3. /\ wire \in Seq(S) /\ <<Byte(k, make)>> \in Seq(S) /\ Len(<<Byte(k, make)>>) = 1
      /\ p \in Seq(S) /\ Len(p) \in {0, 1}
  <2>1. wire \in Seq(S) /\ Byte(k, make) \in S /\ Prefix \in S
    BY <1>1 DEF TypeOK
  <2>2. CASE p = <<Prefix>>
    BY <2>1, <2>2
  <2>3. CASE p = <<>>
    BY <2>1, <2>3
  <2> QED
    BY <2>2, <2>3
<1>4. Len(p) = 1 => p[1] = Prefix
  OBVIOUS
<1> HIDE DEF S
<1>5. /\ wire \o p \in Seq(S) /\ Len(wire \o p) = Len(wire) + Len(p)
      /\ \A i \in 1..Len(wire) + Len(p) :
           (wire \o p)[i] = IF i <= Len(wire) THEN wire[i] ELSE p[i - Len(wire)]
  BY <1>3, ConcatProperties
<1>6. /\ wire' \in Seq(S) /\ Len(wire') = Len(wire) + Len(p) + 1
      /\ \A i \in 1..Len(wire) + Len(p) : wire'[i] = (wire \o p)[i]
      /\ wire'[Len(wire) + Len(p) + 1] = Byte(k, make)
  BY <1>2, <1>3, <1>5, ConcatProperties
<1>7. Len(wire) \in Nat
  BY <1>3
<1>8. \A i \in 1..Len(wire) : wire'[i] = wire[i]
  BY <1>3, <1>5, <1>6, <1>7
<1>9. CASE Len(p) = 0
  BY <1>1, <1>6, <1>7, <1>8, <1>9 DEF S
<1>10. CASE Len(p) = 1
  <2>1. wire'[Len(wire) + 1] = p[1]
    BY <1>5, <1>6, <1>7, <1>10
  <2> QED
    BY <1>1, <1>4, <1>6, <1>7, <1>8, <1>10, <2>1 DEF S
<1> QED
  BY <1>3, <1>9, <1>10

LEMMA TypePreserved ==
  ASSUME TypeOK, [Next]_vars
  PROVE  TypeOK'
<1> USE DEF TypeOK
<1>1. ASSUME handle_irq  PROVE TypeOK'
  <2> DEFINE b == Head(wire)
  <2>1. wire' \in Seq(KeyBytes \cup {Prefix}) /\ UNCHANGED <<buffer, used, held, fake, events>>
    BY <1>1, HeadOfWire DEF handle_irq, reader, typist
  <2>2. RingOK' /\ Contents' \in Seq(Combinations)
    <3>1. CASE UNCHANGED queue_
      BY <3>1, QueueUnchanged
    <3>2. CASE b # Prefix /\ enqueue(Combination(b))
      <4>1. Combination(b) \in Combinations
        BY <1>1, <3>2, HeadOfWire, CombinationType DEF handle_irq
      <4>2. /\ RingOK'
            /\ Contents' = Contents \/ Contents' = Append(Contents, Combination(b))
        <5> HIDE DEF TypeOK, b
        <5> QED
          BY <3>2, <4>1, EnqueueStep
      <4>3. Append(Contents, Combination(b)) \in Seq(Combinations)
        BY <4>1, AppendProperties
      <4> QED
        BY <4>2, <4>3
    <3> QED
      BY <1>1, <3>1, <3>2 DEF handle_irq
  <2>3. synced' \in BOOLEAN
    BY <1>1 DEF handle_irq
  <2> QED
    BY <2>1, <2>2, <2>3
<1>2. ASSUME get_keys_drain  PROVE TypeOK'
  <2>1. size_ # 0 /\ dequeue /\ buffer' = Append(buffer, front)
    BY <1>2 DEF get_keys_drain, may_drain
  <2>2. /\ RingOK' /\ Contents # <<>> /\ front = Head(Contents)
        /\ Contents' = Tail(Contents)
    BY <2>1, DequeueStep
  <2>3. front \in Combinations /\ Contents' \in Seq(Combinations)
    BY <2>2, HeadTailProperties
  <2>4. buffer' \in Seq(Combinations)
    BY <2>1, <2>3, AppendProperties
  <2> QED
    BY <1>2, <2>2, <2>3, <2>4 DEF get_keys_drain, keyboard, typist
<1>3. ASSUME use_key  PROVE TypeOK'
  <2>1. /\ buffer # <<>> /\ used' = Append(used, Head(buffer)) /\ buffer' = Tail(buffer)
        /\ UNCHANGED <<queue_, wire, held, fake, events, synced>>
    BY <1>3 DEF use_key, keyboard, typist
  <2>2. used' \in Seq(Combinations) /\ buffer' \in Seq(Combinations)
    BY <2>1, HeadTailProperties, AppendProperties
  <2> QED
    BY <2>1, <2>2, QueueUnchanged
<1>4. ASSUME get_keys_spin \/ get_keys_lock \/ get_keys_return \/ call_get_keys  PROVE TypeOK'
  <2>1. UNCHANGED <<queue_, buffer, used, wire, held, fake, events, synced>>
    BY <1>4 DEF get_keys_spin, get_keys_lock, get_keys_return, call_get_keys, keyboard, typist
  <2> QED
    BY <2>1, QueueUnchanged
<1>5. ASSUME NEW k \in Keys, NEW make \in BOOLEAN, NEW p \in {<<>>, <<Prefix>>},
             Send(k, make, p), held' \subseteq Keys, fake' \in BOOLEAN
      PROVE  TypeOK'
  <2>1. UNCHANGED <<queue_, buffer, used, synced>> /\ events' = events + 1
    BY <1>5 DEF Send, reader
  <2> QED
    BY <1>5, <2>1, SendExtends, QueueUnchanged
<1>6. ASSUME UNCHANGED vars  PROVE TypeOK'
  BY <1>6, QueueUnchanged DEF vars, reader, typist
<1>7. ASSUME NEW k \in Keys, KeyDown(k) \/ KeyUp(k)  PROVE TypeOK'
  BY <1>5, <1>7 DEF KeyDown, KeyUp, SendKey
<1>8. ASSUME NEW k \in ShiftKeys, NEW make \in BOOLEAN, FakeShift(k, make)  PROVE TypeOK'
  BY <1>5, <1>8 DEF FakeShift, Keys
<1>9. ASSUME LoseByte  PROVE TypeOK'
  BY <1>9, HeadOfWire, QueueUnchanged DEF LoseByte, reader, typist
<1> QED
  BY <1>1, <1>2, <1>3, <1>4, <1>6, <1>7, <1>8, <1>9 DEF Next, init_task

(* Two ways in which sequences are moved along.                            *)
LEMMA MoveHead ==
  ASSUME NEW S, NEW u \in Seq(S), NEW v \in Seq(S), v # <<>>
  PROVE  Append(u, Head(v)) \o Tail(v) = u \o v
<1>1. /\ Head(v) \in S /\ Tail(v) \in Seq(S) /\ Len(Tail(v)) = Len(v) - 1 /\ Len(v) \in Nat
      /\ \A i \in 1..Len(Tail(v)) : Tail(v)[i] = v[i + 1]
      /\ Head(v) = v[1] /\ Len(v) # 0
  BY HeadTailProperties
<1> DEFINE a == Append(u, Head(v))
<1>2. /\ a \in Seq(S) /\ Len(a) = Len(u) + 1 /\ Len(u) \in Nat
      /\ \A i \in 1..Len(u) : a[i] = u[i]
      /\ a[Len(u) + 1] = v[1]
  BY <1>1, AppendProperties
<1> HIDE DEF a
<1>3. /\ u \o v \in Seq(S) /\ Len(u \o v) = Len(u) + Len(v)
      /\ \A i \in 1..Len(u) + Len(v) : (u \o v)[i] = IF i <= Len(u) THEN u[i] ELSE v[i - Len(u)]
  BY ConcatProperties
<1>4. /\ a \o Tail(v) \in Seq(S) /\ Len(a \o Tail(v)) = Len(a) + Len(Tail(v))
      /\ \A i \in 1..Len(a) + Len(Tail(v)) :
           (a \o Tail(v))[i] = IF i <= Len(a) THEN a[i] ELSE Tail(v)[i - Len(a)]
  BY <1>1, <1>2, ConcatProperties
<1>5. Len(a \o Tail(v)) = Len(u \o v)
  BY <1>1, <1>2, <1>3, <1>4
<1>6. ASSUME NEW i \in 1..Len(u) + Len(v)  PROVE (a \o Tail(v))[i] = (u \o v)[i]
  <2>1. CASE i <= Len(u)
    BY <1>1, <1>2, <1>3, <1>4, <2>1
  <2>2. CASE i = Len(u) + 1
    BY <1>1, <1>2, <1>3, <1>4, <2>2
  <2>3. CASE i > Len(u) + 1
    <3>1. (a \o Tail(v))[i] = Tail(v)[i - Len(a)] /\ i - Len(a) \in 1..Len(Tail(v))
      BY <1>1, <1>2, <1>4, <2>3
    <3>2. Tail(v)[i - Len(a)] = v[i - Len(a) + 1] /\ i - Len(a) + 1 = i - Len(u)
      BY <1>1, <1>2, <3>1
    <3>3. (u \o v)[i] = v[i - Len(u)]
      BY <1>2, <1>3, <2>3
    <3> QED
      BY <3>1, <3>2, <3>3
  <2> QED
    BY <1>2, <2>1, <2>2, <2>3
<1>7. a \o Tail(v) = u \o v
  BY <1>3, <1>4, <1>5, <1>6, SeqEqual
<1> QED
  BY <1>7 DEF a

LEMMA AppendToSecond ==
  ASSUME NEW S, NEW u \in Seq(S), NEW v \in Seq(S), NEW e \in S
  PROVE  u \o Append(v, e) = Append(u \o v, e)
<1>1. /\ Append(v, e) = v \o <<e>> /\ <<e>> \in Seq(S)
      /\ u \o v \in Seq(S) /\ Append(u \o v, e) = (u \o v) \o <<e>>
  BY AppendIsConcat, ConcatProperties
<1> QED
  BY <1>1, ConcatAssociative

(* Keys only enter the queue from the wire and leave it for the buffer.    *)
LEMMA QueueStep ==
  ASSUME TypeOK, [Next]_vars
  PROVE  \/ Contents' = Contents /\ used' \o buffer' = used \o buffer
         \/ /\ handle_irq /\ wire # <<>> /\ Head(wire) # Prefix
            /\ FALSE \in is_modifier(Head(wire).key)
            /\ size_ < capacity_
            /\ Contents' = Append(Contents, Combination(Head(wire)))
            /\ UNCHANGED <<used, buffer, modifiers_, synced>>
         \/ /\ Contents # <<>> /\ Contents' = Tail(Contents)
            /\ buffer' = Append(buffer, Head(Contents))
            /\ UNCHANGED used
<1>1. ASSUME handle_irq
      PROVE  \/ Contents' = Contents /\ UNCHANGED <<used, buffer>>
             \/ /\ wire # <<>> /\ Head(wire) # Prefix
                /\ FALSE \in is_modifier(Head(wire).key)
                /\ size_ < capacity_
                /\ Contents' = Append(Contents, Combination(Head(wire)))
                /\ UNCHANGED <<used, buffer, modifiers_, synced>>
  <2>1. wire # <<>> /\ UNCHANGED <<used, buffer>>
    BY <1>1 DEF handle_irq, reader
  <2>2. CASE UNCHANGED queue_
    BY <2>1, <2>2, QueueUnchanged
  <2>3. CASE /\ Head(wire) # Prefix /\ FALSE \in is_modifier(Head(wire).key)
             /\ enqueue(Combination(Head(wire))) /\ UNCHANGED <<modifiers_, synced>>
    <3>1. Combination(Head(wire)) \in Combinations
      BY <2>1, <2>3, HeadOfWire, CombinationType
    <3>2. \/ Contents' = Contents
          \/ size_ < capacity_ /\ Contents' = Append(Contents, Combination(Head(wire)))
      BY <2>3, <3>1, EnqueueStep
    <3> QED
      BY <2>1, <2>3, <3>2
  <2> QED
    BY <1>1, <2>2, <2>3 DEF handle_irq
<1>2. ASSUME get_keys_drain
      PROVE  /\ Contents # <<>> /\ Contents' = Tail(Contents)
             /\ buffer' = Append(buffer, Head(Contents))
             /\ UNCHANGED used
  <2>1. size_ # 0 /\ dequeue /\ buffer' = Append(buffer, front) /\ UNCHANGED used
    BY <1>2 DEF get_keys_drain, may_drain
  <2> QED
    BY <2>1, DequeueStep
<1>3. ASSUME use_key  PROVE Contents' = Contents /\ used' \o buffer' = used \o buffer
  BY <1>3, QueueUnchanged, MoveHead DEF use_key, TypeOK
<1>4. ASSUME \/ UNCHANGED vars
             \/ get_keys_spin \/ get_keys_lock \/ get_keys_return \/ call_get_keys
             \/ LoseByte \/ \E k \in Keys : KeyDown(k) \/ KeyUp(k)
             \/ \E k \in ShiftKeys, make \in BOOLEAN : FakeShift(k, make)
      PROVE  Contents' = Contents /\ used' \o buffer' = used \o buffer
  <2>1. UNCHANGED <<queue_, used, buffer>>
    BY <1>4 DEF vars, reader, get_keys_spin, get_keys_lock, get_keys_return, call_get_keys,
                LoseByte, KeyDown, KeyUp, SendKey, FakeShift, Send
  <2> QED
    BY <2>1, QueueUnchanged
<1> QED
  BY <1>1, <1>2, <1>3, <1>4 DEF Next, init_task

(* So the stream of keys only grows at its end.                            *)
LEMMA StreamStep ==
  ASSUME TypeOK, [Next]_vars
  PROVE  /\ Stream \in Seq(Combinations)
         /\ \/ Stream' = Stream
            \/ /\ handle_irq /\ wire # <<>> /\ Head(wire) # Prefix
               /\ FALSE \in is_modifier(Head(wire).key)
               /\ Combination(Head(wire)) \in Combinations
               /\ Stream' = Append(Stream, Combination(Head(wire)))
               /\ UNCHANGED <<modifiers_, synced>>
<1>1. /\ used \in Seq(Combinations) /\ buffer \in Seq(Combinations)
      /\ Contents \in Seq(Combinations) /\ used \o buffer \in Seq(Combinations)
  BY ConcatProperties DEF TypeOK
<1>2. Stream \in Seq(Combinations)
  BY <1>1, ConcatProperties DEF Stream
<1>3. CASE Contents' = Contents /\ used' \o buffer' = used \o buffer
  BY <1>2, <1>3 DEF Stream
<1>4. CASE /\ handle_irq /\ wire # <<>> /\ Head(wire) # Prefix
           /\ FALSE \in is_modifier(Head(wire).key)
           /\ Contents' = Append(Contents, Combination(Head(wire)))
           /\ UNCHANGED <<used, buffer, modifiers_, synced>>
  <2>1. Combination(Head(wire)) \in Combinations
    BY <1>4, HeadOfWire, CombinationType
  <2>2. Stream' = Append(Stream, Combination(Head(wire)))
    BY <1>1, <1>4, <2>1, AppendToSecond DEF Stream
  <2> QED
    BY <1>2, <1>4, <2>1, <2>2
<1>5. CASE /\ Contents # <<>> /\ Contents' = Tail(Contents)
           /\ buffer' = Append(buffer, Head(Contents))
           /\ UNCHANGED used
  <2>1. Head(Contents) \in Combinations
    BY <1>1, <1>5, HeadTailProperties
  <2>2. used \o buffer' = Append(used \o buffer, Head(Contents))
    BY <1>1, <1>5, <2>1, AppendToSecond
  <2>3. Append(used \o buffer, Head(Contents)) \o Tail(Contents) = (used \o buffer) \o Contents
    BY <1>1, <1>5, MoveHead
  <2> QED
    BY <1>2, <1>5, <2>2, <2>3 DEF Stream
<1> QED
  BY <1>3, <1>4, <1>5, QueueStep

(* The wire is read at its head, or loses it, and is written at its end; a *)
(* key's code changes what the shift keys are taken for only if it is a    *)
(* shift key's.                                                            *)
LEMMA WireStep ==
  ASSUME TypeOK, [Next]_vars
  PROVE  \/ ~handle_irq /\ UNCHANGED <<wire, events, held, fake, modifiers_, synced>>
         \/ /\ handle_irq \/ LoseByte
            /\ wire # <<>> /\ wire' = Tail(wire) /\ UNCHANGED <<events, held, fake>>
         \/ \E k \in Keys, make \in BOOLEAN, p \in {<<>>, <<Prefix>>} :
              /\ Send(k, make, p) /\ ~handle_irq
              /\ k \notin ShiftKeys => (ShiftDown' <=> ShiftDown)
              /\ k \in ShiftKeys /\ make => ShiftDown'
<1>1. CASE handle_irq \/ LoseByte
  BY <1>1 DEF handle_irq, LoseByte, typist
<1>2. CASE ~handle_irq /\ (init_task \/ UNCHANGED vars)
  BY <1>2 DEF init_task, vars, typist, get_keys_spin, get_keys_lock, get_keys_drain,
              get_keys_return, use_key, call_get_keys, keyboard
<1>3. ASSUME ~handle_irq, NEW k \in Keys, KeyDown(k) \/ KeyUp(k)
      PROVE  \E make \in BOOLEAN, p \in {<<>>, <<Prefix>>} :
               /\ Send(k, make, p)
               /\ k \notin ShiftKeys => (ShiftDown' <=> ShiftDown)
               /\ k \in ShiftKeys /\ make => ShiftDown'
  <2>1. CASE KeyDown(k)
    BY <2>1 DEF KeyDown, SendKey, ShiftDown
  <2>2. CASE KeyUp(k)
    BY <2>2 DEF KeyUp, SendKey, ShiftDown
  <2> QED
    BY <1>3, <2>1, <2>2
<1>4. ASSUME ~handle_irq, NEW k \in ShiftKeys, NEW make \in BOOLEAN, FakeShift(k, make)
      PROVE  Send(k, make, <<Prefix>>) /\ (make => ShiftDown')
  BY <1>4 DEF FakeShift, ShiftDown
<1> QED
  BY <1>1, <1>2, <1>3, <1>4 DEF Next, Keys

-----------------------------------------------------------------------------
(* The order of the keys                                                   *)

LEMMA OrderPreserved ==
  ASSUME TypeOK, KeysInOrder, Numbered, [Next]_vars
  PROVE  KeysInOrder' /\ Numbered'
<1>1. Stream \in Seq(Combinations) /\ wire \in Seq(KeyBytes \cup {Prefix}) /\ events \in Nat
  BY StreamStep DEF TypeOK
<1>2. CASE wire # <<>> /\ wire' = Tail(wire) /\ UNCHANGED events
  <2>1. /\ Len(wire') = Len(wire) - 1 /\ Len(wire) \in Nat
        /\ \A i \in 1..Len(wire') : wire'[i] = wire[i + 1]
        /\ Head(wire) = wire[1] /\ 1 \in 1..Len(wire)
    BY <1>1, <1>2, HeadOfWire
  <2>2. CASE Stream' = Stream
    BY <1>1, <1>2, <2>1, <2>2 DEF KeysInOrder, Numbered
  <2>3. CASE /\ Head(wire) # Prefix /\ Combination(Head(wire)) \in Combinations
             /\ Stream' = Append(Stream, Combination(Head(wire)))
    <3> DEFINE e == Combination(Head(wire))
    <3>1. e.nr = wire[1].nr /\ wire[1] # Prefix
      BY <2>1, <2>3 DEF Combination
    <3>2. /\ Len(Stream') = Len(Stream) + 1 /\ Len(Stream) \in Nat
          /\ \A i \in 1..Len(Stream) : Stream'[i] = Stream[i]
          /\ Stream'[Len(Stream) + 1] = e
      BY <1>1, <2>3, AppendProperties
    <3> HIDE DEF e
    <3>3. \A i \in 1..Len(Stream') :
            \/ i <= Len(Stream) /\ Stream'[i] = Stream[i]
            \/ i = Len(Stream) + 1 /\ Stream'[i].nr = wire[1].nr
      BY <3>1, <3>2
    <3>4. KeysInOrder'
      <4> SUFFICES ASSUME NEW i \in 1..Len(Stream'), NEW j \in 1..Len(Stream'), i < j
                   PROVE  Stream'[i].nr < Stream'[j].nr
        BY DEF KeysInOrder
      <4>1. i \in 1..Len(Stream) /\ Stream'[i] = Stream[i]
        BY <3>2
      <4>2. CASE j <= Len(Stream)
        BY <3>2, <4>1, <4>2 DEF KeysInOrder
      <4>3. CASE j > Len(Stream)
        <5>1. Stream[i].nr < wire[1].nr
          BY <2>1, <3>1, <4>1 DEF Numbered
        <5>2. Stream'[j].nr = wire[1].nr
          BY <3>2, <3>3, <4>3
        <5> QED
          BY <4>1, <5>1, <5>2
      <4> QED
        BY <3>2, <4>2, <4>3
    <3>5. Numbered'
      <4>1. /\ \A i \in 1..Len(wire') : i \in 1..Len(wire) /\ i + 1 \in 1..Len(wire) /\ 1 < i + 1
            /\ \A i, j \in 1..Len(wire') : i < j => i + 1 < j + 1
        BY <2>1
      <4>2. /\ \A i \in 1..Len(wire') : wire'[i] # Prefix => wire'[i].nr < events'
            /\ \A i, j \in 1..Len(wire') :
                 i < j /\ wire'[i] # Prefix /\ wire'[j] # Prefix => wire'[i].nr < wire'[j].nr
        BY <1>2, <2>1, <4>1 DEF Numbered
      <4>3. \A j \in 1..Len(wire') : wire'[j] # Prefix => wire[1].nr < wire'[j].nr
        BY <2>1, <3>1, <4>1 DEF Numbered
      <4>4. \A i \in 1..Len(Stream') : i <= Len(Stream) => i \in 1..Len(Stream)
        BY <3>2
      <4>5. \A i \in 1..Len(Stream') : Stream'[i].nr < events'
        BY <1>2, <2>1, <3>1, <3>3, <4>4 DEF Numbered
      <4>6. \A i \in 1..Len(Stream'), j \in 1..Len(wire') :
              wire'[j] # Prefix => Stream'[i].nr < wire'[j].nr
        BY <2>1, <3>3, <4>1, <4>3, <4>4 DEF Numbered
      <4> QED
        BY <4>2, <4>5, <4>6 DEF Numbered
    <3> QED
      BY <3>4, <3>5
  <2> QED
    BY <2>2, <2>3, StreamStep
<1>3. ASSUME NEW k \in Keys, NEW make \in BOOLEAN, NEW p \in {<<>>, <<Prefix>>},
             Send(k, make, p), ~handle_irq
      PROVE  KeysInOrder' /\ Numbered'
  <2>1. Stream' = Stream
    BY <1>3, StreamStep
  <2>2. /\ Len(wire') \in {Len(wire) + 1, Len(wire) + 2} /\ Len(wire) \in Nat
        /\ wire'[Len(wire')].nr = events
        /\ Len(wire') = Len(wire) + 2 => wire'[Len(wire) + 1] = Prefix
        /\ \A i \in 1..Len(wire) : wire'[i] = wire[i]
        /\ events' = events + 1
    <3>1. Byte(k, make).nr = events /\ events' = events + 1
      BY <1>3 DEF Byte, Send
    <3>2. Len(wire) \in Nat
      BY <1>1
    <3> QED
      BY <1>3, <3>1, <3>2, SendExtends
  <2>3. \A i \in 1..Len(wire') :
          \/ i <= Len(wire) /\ wire'[i] = wire[i]
          \/ i = Len(wire') /\ wire'[i].nr = events
          \/ wire'[i] = Prefix
    BY <2>2
  <2>4. \A i \in 1..Len(Stream) : Stream[i].nr \in Nat
    <3> SUFFICES ASSUME NEW i \in 1..Len(Stream)  PROVE Stream[i].nr \in Nat
      OBVIOUS
    <3>1. Stream[i] \in Combinations
      BY <1>1, ElementOfSeq
    <3> QED
      BY <3>1 DEF Combinations
  <2>5. \A i \in 1..Len(wire) : wire[i] # Prefix => wire[i].nr \in Nat
    <3> SUFFICES ASSUME NEW i \in 1..Len(wire), wire[i] # Prefix  PROVE wire[i].nr \in Nat
      OBVIOUS
    <3>1. wire[i] \in KeyBytes
      BY <1>1, ElementOfSeq
    <3> QED
      BY <3>1 DEF KeyBytes
  <2>6. KeysInOrder'
    BY <2>1 DEF KeysInOrder
  <2>7. Numbered'
    <3>1. \A i \in 1..Len(Stream') : Stream'[i].nr < events'
      BY <1>1, <2>1, <2>2, <2>4 DEF Numbered
    <3>2. \A i \in 1..Len(wire') : wire'[i] # Prefix => wire'[i].nr < events'
      BY <1>1, <2>2, <2>3, <2>5 DEF Numbered
    <3>3. \A i, j \in 1..Len(wire') :
            i < j /\ wire'[i] # Prefix /\ wire'[j] # Prefix => wire'[i].nr < wire'[j].nr
      <4> SUFFICES ASSUME NEW i \in 1..Len(wire'), NEW j \in 1..Len(wire'), i < j,
                          wire'[i] # Prefix, wire'[j] # Prefix
                   PROVE  wire'[i].nr < wire'[j].nr
        OBVIOUS
      <4>1. i <= Len(wire) => i \in 1..Len(wire)
        BY <2>2
      <4>2. i <= Len(wire) /\ wire'[i] = wire[i]
        BY <2>2, <2>3
      <4>3. CASE j <= Len(wire) /\ wire'[j] = wire[j]
        <5>1. j \in 1..Len(wire)
          BY <2>2, <4>3
        <5> QED
          BY <4>1, <4>2, <4>3, <5>1 DEF Numbered
      <4>4. CASE j = Len(wire') /\ wire'[j].nr = events
        BY <4>1, <4>2, <4>4 DEF Numbered
      <4> QED
        BY <2>3, <4>3, <4>4
    <3>4. \A i \in 1..Len(Stream'), j \in 1..Len(wire') :
            wire'[j] # Prefix => Stream'[i].nr < wire'[j].nr
      BY <2>1, <2>2, <2>3 DEF Numbered
    <3> QED
      BY <3>1, <3>2, <3>3, <3>4 DEF Numbered
  <2> QED
    BY <2>6, <2>7
<1>4. CASE ~handle_irq /\ UNCHANGED <<wire, events>>
  BY <1>4, StreamStep DEF KeysInOrder, Numbered
<1> QED
  BY <1>2, <1>3, <1>4, WireStep

-----------------------------------------------------------------------------
(* The shift keys                                                          *)

(* The driver's bit for the shift keys follows their bytes, as far as none *)
(* was lost.                                                               *)
LEMMA ShiftBit ==
  ASSUME TypeOK, handle_irq \/ LoseByte, synced', "SHIFT" \in modifiers_'
  PROVE  \/ IsShift(Head(wire)) /\ Head(wire).make
         \/ ~IsShift(Head(wire)) /\ synced /\ "SHIFT" \in modifiers_
<1> DEFINE b == Head(wire)
<1>1. wire # <<>> /\ (b # Prefix => b \in KeyBytes)
  BY HeadOfWire DEF handle_irq, LoseByte
<1> HIDE DEF b
<1>2. CASE handle_irq /\ b = Prefix
  BY <1>2 DEF handle_irq, IsShift, b
<1>3. CASE handle_irq /\ b # Prefix /\ b.key \in ShiftKeys
  <2>1. b.key \notin BeyondKeys
    BY <1>3, KeyboardAssumption
  <2>2. modifiers_' = change_mask(b.make, "SHIFT")
    BY <1>3, <2>1 DEF handle_irq, is_modifier, mask, b
  <2> QED
    BY <1>3, <2>2 DEF change_mask, IsShift, b
<1>4. CASE handle_irq /\ b # Prefix /\ b.key \notin ShiftKeys
  <2>1. mask(b.key) \in {"CTRL", "CMD"}
    BY <1>4 DEF mask
  <2>2. UNCHANGED modifiers_ \/ modifiers_' = change_mask(b.make, mask(b.key))
    BY <1>4 DEF handle_irq, b
  <2>3. "SHIFT" \in modifiers_
    BY <2>1, <2>2 DEF change_mask
  <2>4. synced
    BY <1>4 DEF handle_irq, IsShift, b
  <2> QED
    BY <1>4, <2>3, <2>4 DEF IsShift, b
<1>5. CASE LoseByte
  BY <1>5 DEF LoseByte
<1> QED
  BY <1>2, <1>3, <1>4, <1>5

LEMMA ShiftPreserved ==
  ASSUME TypeOK, ShiftKnown, [Next]_vars
  PROVE  ShiftKnown'
<1>1. wire \in Seq(KeyBytes \cup {Prefix}) /\ Len(wire) \in Nat
  BY DEF TypeOK
<1>2. CASE /\ handle_irq \/ LoseByte
           /\ wire # <<>> /\ wire' = Tail(wire) /\ UNCHANGED <<events, held, fake>>
  <2>1. /\ Len(wire') = Len(wire) - 1
        /\ \A i \in 1..Len(wire') : wire'[i] = wire[i + 1]
        /\ Head(wire) = wire[1] /\ 1 \in 1..Len(wire)
    BY <1>1, <1>2, HeadOfWire
  <2>2. ASSUME NEW p \in 1..Len(wire), DownFrom(p + 1)  PROVE DownFrom(p)'
    <3>1. ASSUME NEW j \in Nat, j <= Len(wire'), NoShiftIn(p, j)'  PROVE NoShiftIn(p + 1, j + 1)
      <4> SUFFICES ASSUME NEW n \in p + 1..j + 1  PROVE ~IsShift(wire[n])
        BY DEF NoShiftIn
      <4>1. n - 1 \in p..j /\ n - 1 \in 1..Len(wire')
        BY <2>1, <3>1
      <4>2. wire'[n - 1] = wire[n]
        BY <2>1, <4>1
      <4> QED
        BY <3>1, <4>1, <4>2 DEF NoShiftIn, IsShift
    <3>2. ASSUME NEW j \in p..Len(wire'), NoShiftIn(p, j)', wire'[j] # Prefix
          PROVE  wire'[j].shift
      <4>1. j + 1 \in p + 1..Len(wire) /\ wire'[j] = wire[j + 1] /\ j \in Nat /\ j <= Len(wire')
        BY <2>1
      <4> QED
        BY <2>2, <3>1, <3>2, <4>1 DEF DownFrom
    <3>3. ASSUME NoShiftIn(p, Len(wire))'  PROVE ShiftDown'
      <4>1. Len(wire') \in Nat /\ Len(wire') + 1 = Len(wire)
        BY <1>1, <2>1
      <4>2. \A n \in p..Len(wire') : ~IsShift(wire'[n])
        BY <3>3 DEF NoShiftIn
      <4>3. NoShiftIn(p + 1, Len(wire') + 1)
        <5> SUFFICES ASSUME NEW n \in p + 1..Len(wire') + 1  PROVE ~IsShift(wire[n])
          BY DEF NoShiftIn
        <5>1. n - 1 \in p..Len(wire') /\ wire'[n - 1] = wire[n]
          BY <2>1, <4>1
        <5> QED
          BY <4>2, <5>1
      <4> QED
        BY <1>2, <2>2, <4>1, <4>3 DEF DownFrom, ShiftDown
    <3> QED
      BY <3>2, <3>3 DEF DownFrom
  <2>3. ASSUME synced', "SHIFT" \in modifiers_'  PROVE DownFrom(1)'
    <3>1. CASE IsShift(Head(wire)) /\ Head(wire).make
      BY <2>1, <2>2, <3>1 DEF ShiftKnown
    <3>2. CASE ~IsShift(Head(wire)) /\ DownFrom(1)
      <4>1. \A j \in Int : NoShiftIn(2, j) => NoShiftIn(1, j)
        BY <2>1, <3>2 DEF NoShiftIn
      <4>2. DownFrom(2)
        BY <1>1, <3>2, <4>1 DEF DownFrom
      <4> QED
        BY <2>1, <2>2, <4>2
    <3> QED
      BY <1>2, <2>3, <3>1, <3>2, ShiftBit DEF ShiftKnown
  <2>4. ASSUME NEW p \in 1..Len(wire'), IsShift(wire'[p]), wire'[p].make
        PROVE  DownFrom(p + 1)'
    <3>1. p + 1 \in 1..Len(wire) /\ wire'[p] = wire[p + 1]
      BY <1>1, <2>1
    <3>2. DownFrom((p + 1) + 1)
      BY <2>4, <3>1 DEF ShiftKnown
    <3> QED
      BY <2>2, <3>1, <3>2
  <2> QED
    BY <2>3, <2>4 DEF ShiftKnown, IsShift
<1>3. ASSUME NEW k \in Keys, NEW make \in BOOLEAN, NEW prefix \in {<<>>, <<Prefix>>},
             Send(k, make, prefix),
             k \notin ShiftKeys => (ShiftDown' <=> ShiftDown),
             k \in ShiftKeys /\ make => ShiftDown'
      PROVE  ShiftKnown'
  <2> DEFINE b == Byte(k, make)
  <2>1. /\ Len(wire') \in {Len(wire) + 1, Len(wire) + 2}
        /\ wire'[Len(wire')] = b
        /\ Len(wire') = Len(wire) + 2 => wire'[Len(wire) + 1] = Prefix
        /\ \A i \in 1..Len(wire) : wire'[i] = wire[i]
        /\ b \in KeyBytes
    BY <1>3, SendExtends
  <2>2. b # Prefix /\ b.key = k /\ b.make = make
    BY <2>1, KeyboardAssumption DEF KeyBytes, Byte
  <2>3. IsShift(b) <=> k \in ShiftKeys
    BY <2>2 DEF IsShift
  <2>4. b.shift <=> ShiftDown'
    BY DEF Byte
  <2> HIDE DEF b
  <2>5. ASSUME NEW p \in 1..Len(wire) + 1, DownFrom(p)  PROVE DownFrom(p)'
    <3>1. ASSUME NEW j \in Int, j <= Len(wire), NoShiftIn(p, j)'  PROVE NoShiftIn(p, j)
      BY <1>1, <2>1, <3>1 DEF NoShiftIn, IsShift
    <3>2. ASSUME \A n \in p..Len(wire') : ~IsShift(wire'[n])
          PROVE  ShiftDown' /\ b.shift
      <4>1. \A n \in p..Len(wire) : ~IsShift(wire[n])
        <5> SUFFICES ASSUME NEW n \in p..Len(wire)  PROVE ~IsShift(wire[n])
          OBVIOUS
        <5>1. n \in p..Len(wire') /\ wire'[n] = wire[n]
          BY <1>1, <2>1
        <5> QED
          BY <3>2, <5>1
      <4>2. ShiftDown
        BY <2>5, <4>1 DEF DownFrom, NoShiftIn
      <4>3. Len(wire') \in p..Len(wire')
        BY <1>1, <2>1
      <4>4. ~IsShift(b)
        BY <2>1, <3>2, <4>3
      <4> QED
        BY <1>3, <2>3, <2>4, <4>2, <4>4
    <3>3. ASSUME NEW j \in p..Len(wire'), NoShiftIn(p, j)', wire'[j] # Prefix
          PROVE  wire'[j].shift
      <4>1. CASE j <= Len(wire)
        BY <1>1, <2>1, <2>5, <3>1, <3>3, <4>1 DEF DownFrom
      <4>2. CASE j > Len(wire)
        <5>1. j = Len(wire')
          BY <1>1, <2>1, <3>3, <4>2
        <5>2. \A n \in p..Len(wire') : ~IsShift(wire'[n])
          BY <3>3, <5>1 DEF NoShiftIn
        <5> QED
          BY <2>1, <3>2, <5>1, <5>2
      <4> QED
        BY <1>1, <4>1, <4>2
    <3> QED
      BY <3>2, <3>3 DEF DownFrom, NoShiftIn
  <2>6. ASSUME NEW p \in 1..Len(wire'), IsShift(wire'[p]), wire'[p].make
        PROVE  DownFrom(p + 1)'
    <3>1. CASE p <= Len(wire)
      BY <1>1, <2>1, <2>5, <2>6, <3>1 DEF ShiftKnown
    <3>2. CASE p > Len(wire)
      <4>1. p = Len(wire')
        BY <1>1, <2>1, <2>6, <3>2 DEF IsShift
      <4>2. ShiftDown'
        BY <1>3, <2>1, <2>2, <2>3, <2>6, <4>1
      <4> QED
        BY <1>1, <2>1, <4>1, <4>2 DEF DownFrom
    <3> QED
      BY <1>1, <3>1, <3>2
  <2>7. UNCHANGED <<synced, modifiers_>>
    BY <1>3 DEF Send
  <2>8. synced' /\ "SHIFT" \in modifiers_' => DownFrom(1)'
    BY <1>1, <2>5, <2>7 DEF ShiftKnown
  <2> QED
    BY <2>6, <2>8 DEF ShiftKnown, IsShift
<1>4. CASE UNCHANGED <<wire, events, held, fake, modifiers_, synced>>
  BY <1>4 DEF ShiftKnown, DownFrom, NoShiftIn, IsShift, ShiftDown
<1> QED
  BY <1>2, <1>3, <1>4, WireStep

LEMMA PhantomPreserved ==
  ASSUME TypeOK, ShiftKnown, NoPhantomShift, [Next]_vars
  PROVE  NoPhantomShift'
<1>1. CASE Stream' = Stream
  BY <1>1 DEF NoPhantomShift
<1>2. CASE /\ handle_irq /\ wire # <<>> /\ Head(wire) # Prefix
           /\ FALSE \in is_modifier(Head(wire).key)
           /\ Combination(Head(wire)) \in Combinations
           /\ Stream' = Append(Stream, Combination(Head(wire)))
  <2> DEFINE e == Combination(Head(wire))
  <2>1. e.ascii = ascii /\ (e.may_shift <=> Head(wire).shift \/ ~synced)
    BY DEF Combination
  <2>2. ASSUME e.ascii = "shifted"  PROVE e.may_shift
    <3> SUFFICES ASSUME synced  PROVE Head(wire).shift
      BY <2>1
    <3>1. "SHIFT" \in modifiers_
      BY <2>1, <2>2 DEF ascii
    <3>2. Head(wire).key \notin ShiftKeys
      BY <1>2, KeyboardAssumption DEF is_modifier
    <3>3. Head(wire) = wire[1] /\ 1 \in 1..Len(wire)
      BY <1>2, HeadOfWire
    <3>4. NoShiftIn(1, 1)
      BY <3>2, <3>3 DEF NoShiftIn, IsShift
    <3>5. wire[1].shift
      BY <1>2, <3>1, <3>3, <3>4 DEF ShiftKnown, DownFrom
    <3> QED
      BY <3>3, <3>5
  <2>3. /\ Len(Stream') = Len(Stream) + 1 /\ Len(Stream) \in Nat
        /\ \A i \in 1..Len(Stream) : Stream'[i] = Stream[i]
        /\ Stream'[Len(Stream) + 1] = e
    BY <1>2, StreamStep, AppendProperties
  <2> HIDE DEF e
  <2>4. \A i \in 1..Len(Stream') :
          \/ i \in 1..Len(Stream) /\ Stream'[i] = Stream[i]
          \/ Stream'[i] = e
    BY <2>3
  <2> QED
    BY <2>2, <2>4 DEF NoPhantomShift
<1> QED
  BY <1>1, <1>2, StreamStep

-----------------------------------------------------------------------------
(* The theorems                                                            *)

LEMMA InitIInv == Init => IInv
<1> SUFFICES ASSUME Init  PROVE IInv
  OBVIOUS
<1>1. RingOK
  BY CapacityAssumption DEF Init, QueueInit, RingOK, Slots
<1>2. Contents = <<>> /\ used = <<>> /\ buffer = <<>> /\ wire = <<>> /\ synced = FALSE
  BY DEF Init, QueueInit, Contents
<1>3. TypeOK
  <2>1. held = {} /\ fake = FALSE /\ events = 0
    BY DEF Init
  <2>2. \A S : <<>> \in Seq(S)
    BY EmptySeq
  <2> QED
    BY <1>1, <1>2, <2>1, <2>2 DEF TypeOK
<1>4. Stream = <<>>
  BY <1>2 DEF Stream
<1> QED
  BY <1>2, <1>3, <1>4 DEF IInv, KeysInOrder, Numbered, ShiftKnown, NoPhantomShift

(* The invariant is one: with it all that follows.                         *)
THEOREM KeyboardInvariant == Spec => []IInv
<1>1. Init => IInv
  BY InitIInv
<1>2. IInv /\ [Next]_vars => IInv'
  BY TypePreserved, OrderPreserved, ShiftPreserved, PhantomPreserved DEF IInv
<1> QED
  BY <1>1, <1>2, PTL DEF Spec

(* Keys are used in the order they were typed, none twice and none read    *)
(* from a slot that holds none, wherever interrupts fall in get_keys.      *)
THEOREM KeyOrder == Spec => []KeysInOrder
BY KeyboardInvariant, PTL DEF IInv

(* Once the driver has read a shift's code, and until one is lost, a key   *)
(* gets its shifted character only if a shift key was down when it was     *)
(* typed, or a fake shift that the keyboard had not taken back.            *)
THEOREM ShiftIsTrue == Spec => []NoPhantomShift
BY KeyboardInvariant, PTL DEF IInv

(* CircularQueue, filled by the interrupt handler and drained by get_keys, *)
(* is a bounded FIFO, whatever its capacity.                               *)
THEOREM QueueIsFifo == Spec => ImplementsFifo
<1>1. Init => Fifo!Init
  BY DEF Init, QueueInit, Contents, Fifo!Init
<1>2. ASSUME TypeOK, [Next]_vars  PROVE [Fifo!Next]_Contents
  <2>1. Contents \in Seq(Combinations)
    BY <1>2 DEF TypeOK
  <2>2. ASSUME NEW e \in Combinations, size_ < capacity_, Contents' = Append(Contents, e)
        PROVE  Fifo!Put
    <3>1. Len(Contents) = size_
      BY <1>2 DEF TypeOK, RingOK, Contents
    <3>2. Len(Contents') = Len(Contents) + 1
      BY <2>1, <2>2, AppendProperties
    <3>3. SubSeq(Contents', 1, Len(Contents)) = Contents
      BY <2>1, <2>2
    <3> QED
      BY <2>2, <3>1, <3>2, <3>3 DEF Fifo!Put
  <2>3. ASSUME Contents # <<>>, Contents' = Tail(Contents)  PROVE Fifo!Get
    BY <2>3 DEF Fifo!Get
  <2>4. ASSUME wire # <<>>, Head(wire) # Prefix  PROVE Combination(Head(wire)) \in Combinations
    BY <1>2, <2>4, HeadOfWire, CombinationType
  <2> QED
    BY <1>2, <2>2, <2>3, <2>4, QueueStep DEF Fifo!Next
<1>3. Spec => []TypeOK
  BY KeyboardInvariant, PTL DEF IInv
<1> QED
  BY <1>1, <1>2, <1>3, PTL DEF Spec, ImplementsFifo, Fifo!Spec
=============================================================================
