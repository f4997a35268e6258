----------------------------- MODULE Heap_proofs -----------------------------
(***************************************************************************)
(* The kernel heap, for every size of pool and header and every set of     *)
(* requests, as long as the memory that is freed comes in whole units or   *)
(* none is freed.                                                          *)
(***************************************************************************)
EXTENDS Heap, Integers, FiniteSetTheorems, WellFoundedInduction, TLAPS

-----------------------------------------------------------------------------
(* The order of the list                                                   *)

LEMMA LeastNat ==
  ASSUME NEW T \in SUBSET Nat, T # {}
  PROVE  \E n \in T : \A m \in T : n <= m
<1>1. PICK n \in T : \A m \in T : <<m, n>> \notin OpToRel(<, Nat)
  BY NatLessThanWellFounded, WFMin
<1>2. \A m \in T : ~(m < n)
  BY <1>1 DEF OpToRel
<1> QED
  BY <1>2

(* What Chain folds over the numbers up to the number of headers.          *)
Longer(chain) ==
  IF Last(chain) \notin DOMAIN at \/ at[Last(chain)].next = Null THEN chain
  ELSE Append(chain, at[Last(chain)].next)

Folded(k, f) ==
  [s \in SUBSET (1..k) |-> IF s = {} THEN <<heap_head>> ELSE Longer(f[s \ {Max(s)}])]

LEMMA MaxOfInterval ==
  ASSUME NEW n \in Nat \ {0}, NEW s \in SUBSET (1..n), n \in s
  PROVE  Max(s) = n
<1>1. \A y \in s : n >= y
  OBVIOUS
<1>2. \A x \in s : (\A y \in s : x >= y) => x = n
  OBVIOUS
<1> QED
  BY <1>1, <1>2 DEF Max

(* The fold is defined: it is extended from each set of numbers to the     *)
(* next.                                                                   *)
LEMMA FoldExists ==
  ASSUME NEW k \in Nat
  PROVE  \E f : f = Folded(k, f)
<1> DEFINE T == {n \in Nat : ~(\E f : f = Folded(n, f))}
<1> SUFFICES ASSUME T # {} PROVE FALSE
  OBVIOUS
<1>1. PICK n \in T : \A m \in T : n <= m
  BY LeastNat
<1>2. CASE n = 0
  <2> DEFINE f == [s \in SUBSET (1..0) |-> <<heap_head>>]
  <2>1. f = Folded(0, f)
    BY DEF Folded
  <2> QED
    BY <1>2, <2>1
<1>3. CASE n # 0
  <2>1. n \in Nat /\ n - 1 \in Nat /\ n - 1 \notin T
    BY <1>1, <1>3
  <2>2. PICK f : f = Folded(n - 1, f)
    BY <2>1
  <2> DEFINE g == [s \in SUBSET (1..n) |-> IF n \in s THEN Longer(f[s \ {n}]) ELSE f[s]]
  <2>3. ASSUME NEW s \in SUBSET (1..n)
        PROVE  g[s] = Folded(n, g)[s]
    <3>1. Folded(n, g)[s] = IF s = {} THEN <<heap_head>> ELSE Longer(g[s \ {Max(s)}])
      <4> HIDE DEF g
      <4> QED
        BY DEF Folded
    <3>2. CASE n \in s
      <4>1. Max(s) = n /\ s \ {n} \in SUBSET (1..n) /\ n \notin s \ {n}
        BY <2>1, <3>2, <1>3, MaxOfInterval
      <4> QED
        BY <3>1, <3>2, <4>1
    <3>3. CASE n \notin s
      <4>1. s \in SUBSET (1..(n - 1))
        BY <2>1, <3>3
      <4>2. f[s] = IF s = {} THEN <<heap_head>> ELSE Longer(f[s \ {Max(s)}])
        BY <2>2, <4>1 DEF Folded
      <4>3. s \ {Max(s)} \in SUBSET (1..n) /\ n \notin s \ {Max(s)}
        BY <3>3
      <4> QED
        BY <3>1, <3>3, <4>2, <4>3
    <3> QED
      BY <3>2, <3>3
  <2>4. g = Folded(n, g)
    <3>1. Folded(n, g) = [s \in SUBSET (1..n) |-> Folded(n, g)[s]]
      <4> HIDE DEF g
      <4> QED
        BY DEF Folded
    <3>2. g = [s \in SUBSET (1..n) |-> g[s]]
      OBVIOUS
    <3> HIDE DEF g
    <3> QED
      BY <2>3, <3>1, <3>2
  <2> QED
    BY <2>4
<1> QED
  BY <1>2, <1>3

(* The chain grows by at most one block for each header.                   *)
Growth(c) ==
  LET n == Cardinality(DOMAIN at) IN
  /\ c[0] = <<heap_head>>
  /\ \A i \in 1..n : c[i] = Longer(c[i - 1])
  /\ Chain = c[n]

LEMMA ChainGrows ==
  ASSUME Cardinality(DOMAIN at) \in Nat
  PROVE  \E c : Growth(c)
<1> DEFINE N == Cardinality(DOMAIN at)
           fold == CHOOSE f : f = Folded(N, f)
           c == [i \in 0..N |-> fold[1..i]]
<1>0. N \in Nat
  OBVIOUS
<1>1. Chain = fold[1..N]
  BY DEF Chain, FoldLeft, MapThenFoldSet, Folded, Longer
<1>2. fold = Folded(N, fold)
  BY FoldExists
<1>3. fold[1..0] = <<heap_head>>
  <2>1. 1..0 = {}
    OBVIOUS
  <2> HIDE DEF fold, N
  <2> QED
    BY <1>2, <2>1 DEF Folded
<1>4. ASSUME NEW i \in 1..N
      PROVE  fold[1..i] = Longer(fold[1..(i - 1)])
  <2>1. (1..i) \in SUBSET (1..N) /\ i \in Nat \ {0} /\ i \in 1..i
    <3> HIDE DEF N
    <3> QED
      BY <1>0
  <2>2. Max(1..i) = i
    BY <2>1, MaxOfInterval
  <2>3. (1..i) \ {i} = 1..(i - 1)
    BY <2>1
  <2>4. fold[1..i] = Longer(fold[(1..i) \ {Max(1..i)}])
    <3> HIDE DEF fold, N
    <3> QED
      BY <1>2, <2>1 DEF Folded
  <2> HIDE DEF fold
  <2> QED
    BY <2>2, <2>3, <2>4
<1>5. c[0] = <<heap_head>> /\ c[N] = Chain
  <2> HIDE DEF fold, N
  <2> QED
    BY <1>0, <1>1, <1>3
<1>6. ASSUME NEW i \in 1..N
      PROVE  c[i] = Longer(c[i - 1])
  <2>1. i \in 0..N /\ i - 1 \in 0..N
    <3> HIDE DEF N
    <3> QED
      BY <1>0
  <2> HIDE DEF fold, N
  <2> QED
    BY <1>4, <2>1
<1>7. Growth(c)
  <2> HIDE DEF c
  <2> QED
    BY <1>5, <1>6 DEF Growth
<1> QED
  BY <1>7
-----------------------------------------------------------------------------
(* The list                                                                *)

HeaderType ==
  [allocated : BOOLEAN, data_size : Nat, next : Nat \cup {Null}, prev : Nat \cup {Null}]

Memory(mem) ==
  DOMAIN mem \in SUBSET Nat /\ IsFiniteSet(DOMAIN mem) /\ mem \in [DOMAIN mem -> HeaderType]

(* The blocks at L are a list in the order of their addresses.             *)
Linked(mem, L, pool) ==
  /\ L \subseteq DOMAIN mem /\ 0 \in L /\ mem[0].prev = Null
  /\ \A a \in L :
       /\ data_start(a) <= pool
       /\ mem[a].next # Null => /\ mem[a].next \in L
                                /\ mem[a].next = block_end(mem, a)
                                /\ mem[mem[a].next].prev = a
       /\ a # 0 => mem[a].prev \in L /\ mem[mem[a].prev].next = a
  /\ \A a, b \in L : a < b => block_end(mem, a) <= b

LEMMA Fields ==
  ASSUME NEW mem, Memory(mem), NEW a \in DOMAIN mem
  PROVE  /\ a \in Nat /\ mem[a] \in HeaderType
         /\ mem[a].allocated \in BOOLEAN /\ mem[a].data_size \in Nat
         /\ mem[a].next \in Nat \cup {Null} /\ mem[a].prev \in Nat \cup {Null}
         /\ data_start(a) \in Nat /\ block_end(mem, a) \in Nat
         /\ a < data_start(a) /\ data_start(a) <= block_end(mem, a)
         /\ data_start(a) = a + HeaderSize /\ block_end(mem, a) = data_start(a) + mem[a].data_size
<1>1. a \in Nat /\ mem[a] \in HeaderType
  BY DEF Memory
<1>2. /\ mem[a].allocated \in BOOLEAN /\ mem[a].data_size \in Nat
      /\ mem[a].next \in Nat \cup {Null} /\ mem[a].prev \in Nat \cup {Null}
  BY <1>1 DEF HeaderType
<1> QED
  BY <1>1, <1>2, HeapAssumption DEF data_start, block_end

(* The blocks met so far: in order, linked, and complete or one for each   *)
(* number.                                                                 *)
Prefix(s, L, i) ==
  /\ s \in Seq(L) /\ Len(s) >= 1 /\ s[1] = 0
  /\ \A j \in 1..Len(s) - 1 : at[s[j]].next = s[j + 1]
  /\ \A j, k \in 1..Len(s) : j < k => s[j] < s[k]
  /\ at[s[Len(s)]].next = Null \/ Len(s) = i + 1

LEMMA LongerPrefix ==
  ASSUME NEW L, NEW pool, Memory(at), Linked(at, L, pool),
         NEW s, NEW i \in Nat, Prefix(s, L, i)
  PROVE  Prefix(Longer(s), L, i + 1)
<1> DEFINE n == Len(s)
           a == s[n]
<1>1. s \in Seq(L) /\ n \in Nat /\ n >= 1 /\ s[1] = 0 /\ a \in L /\ Last(s) = a
  BY DEF Prefix, Last
<1>2. a \in DOMAIN at /\ a \in Nat /\ L \subseteq Nat
  BY <1>1 DEF Linked, Memory
<1>3. CASE at[a].next = Null
  <2>1. Longer(s) = s
    BY <1>1, <1>3 DEF Longer
  <2> QED
    BY <1>3, <2>1 DEF Prefix
<1>4. CASE at[a].next # Null
  <2> DEFINE b == at[a].next
             t == Append(s, b)
  <2>1. Longer(s) = t
    BY <1>1, <1>2, <1>4 DEF Longer
  <2>2. b \in L /\ b = block_end(at, a)
    BY <1>1, <1>4 DEF Linked
  <2>3. b \in Nat /\ a < b
    <3> HIDE DEF a, b
    <3> QED
      BY <1>2, <2>2, Fields
  <2>4. n = i + 1
    BY <1>4 DEF Prefix
  <2>5. t \in Seq(L) /\ Len(t) = n + 1 /\ (\A j \in 1..n : t[j] = s[j]) /\ t[n + 1] = b
    <3> HIDE DEF b
    <3> QED
      BY <1>1, <2>2
  <2>6. \A j \in 1..n : t[j] = a \/ t[j] < a
    <3> HIDE DEF t
    <3> QED
      BY <1>1, <2>5 DEF Prefix
  <2>7. \A j \in 1..n : s[j] \in Nat
    <3>1. \A j \in 1..n : s[j] \in L
      BY <1>1
    <3> HIDE DEF n
    <3> QED
      BY <3>1, <1>2
  <2>8. \A j, k \in 1..Len(t) : j < k => t[j] < t[k]
    <3> SUFFICES ASSUME NEW j \in 1..Len(t), NEW k \in 1..Len(t), j < k
                 PROVE  t[j] < t[k]
      OBVIOUS
    <3>1. j \in 1..n
      BY <1>1, <2>5
    <3>2. CASE k = n + 1
      <4> HIDE DEF t, a, b
      <4> QED
        BY <1>2, <2>3, <2>5, <2>6, <2>7, <3>1, <3>2
    <3>3. CASE k # n + 1
      <4>1. k \in 1..n
        BY <1>1, <2>5, <3>3
      <4> HIDE DEF t
      <4> QED
        BY <2>5, <3>1, <4>1 DEF Prefix
    <3> QED
      BY <3>2, <3>3
  <2>9. \A j \in 1..Len(t) - 1 : at[t[j]].next = t[j + 1]
    <3> SUFFICES ASSUME NEW j \in 1..Len(t) - 1
                 PROVE  at[t[j]].next = t[j + 1]
      OBVIOUS
    <3>1. j \in 1..n
      BY <1>1, <2>5
    <3>2. CASE j = n
      BY <1>1, <2>5, <3>2
    <3>3. CASE j # n
      <4>1. j \in 1..n - 1 /\ j + 1 \in 1..n
        BY <1>1, <3>1, <3>3
      <4> HIDE DEF t
      <4> QED
        BY <2>5, <3>1, <4>1 DEF Prefix
    <3> QED
      BY <3>2, <3>3
  <2>10. Prefix(t, L, i + 1)
    <3> HIDE DEF t, b
    <3> QED
      BY <1>1, <2>4, <2>5, <2>8, <2>9 DEF Prefix
  <2> QED
    BY <2>1, <2>10
<1> QED
  BY <1>3, <1>4

(* Chain is the whole list.                                                *)
LEMMA ChainIsList ==
  ASSUME NEW L, NEW pool, Memory(at), Linked(at, L, pool), heap_head = 0
  PROVE  /\ Chain \in Seq(L) /\ Len(Chain) >= 1 /\ Chain[1] = 0 /\ ToSet(Chain) = L
         /\ at[Last(Chain)].next = Null
         /\ \A i \in 1..Len(Chain) - 1 : at[Chain[i]].next = Chain[i + 1]
<1> DEFINE N == Cardinality(DOMAIN at)
<1>1. N \in Nat /\ IsFiniteSet(DOMAIN at)
  BY FS_CardinalityType DEF Memory
<1>2. PICK c : Growth(c)
  BY <1>1, ChainGrows
<1>3. c[0] = <<0>> /\ c[N] = Chain /\ \A i \in 1..N : c[i] = Longer(c[i - 1])
  BY <1>2 DEF Growth
<1>4. \A i \in 0..N : Prefix(c[i], L, i)
  <2> DEFINE T == {i \in 0..N : ~Prefix(c[i], L, i)}
  <2> SUFFICES ASSUME T # {} PROVE FALSE
    OBVIOUS
  <2>1. T \in SUBSET Nat
    OBVIOUS
  <2>2. PICK i \in T : \A m \in T : i <= m
    BY <2>1, LeastNat
  <2>3. CASE i = 0
    <3>1. 0 \in L
      BY DEF Linked
    <3>2. Prefix(<<0>>, L, 0)
      BY <3>1 DEF Prefix
    <3> QED
      BY <1>3, <2>2, <2>3, <3>2
  <2>4. CASE i # 0
    <3>1. i \in 1..N /\ i - 1 \in 0..N /\ i - 1 \in Nat /\ i \in Nat
      <4> HIDE DEF N
      <4> QED
        BY <1>1, <2>2, <2>4
    <3>2. i - 1 \notin T
      <4> HIDE DEF T, N
      <4> QED
        BY <2>2, <3>1
    <3>3. Prefix(c[i - 1], L, i - 1)
      BY <3>1, <3>2
    <3>4. Prefix(Longer(c[i - 1]), L, (i - 1) + 1)
      <4> HIDE DEF N, T
      <4> QED
        BY <3>1, <3>3, LongerPrefix
    <3>5. (i - 1) + 1 = i
      BY <3>1
    <3>6. c[i] = Longer(c[i - 1])
      BY <1>3, <3>1
    <3>7. Prefix(c[i], L, i)
      BY <3>4, <3>5, <3>6
    <3> QED
      BY <2>2, <3>7
  <2> QED
    BY <2>3, <2>4
<1>5. Prefix(Chain, L, N)
  <2>1. N \in 0..N
    <3> HIDE DEF N
    <3> QED
      BY <1>1
  <2> HIDE DEF N
  <2> QED
    BY <1>3, <1>4, <2>1
<1>6. Chain \in Seq(L) /\ Len(Chain) \in Nat /\ Len(Chain) >= 1
  BY <1>5 DEF Prefix
<1>7. L \subseteq DOMAIN at /\ L \subseteq Nat
  BY DEF Linked, Memory
<1>8. at[Last(Chain)].next = Null
  <2> SUFFICES ASSUME at[Last(Chain)].next # Null PROVE FALSE
    OBVIOUS
  <2>1. Len(Chain) = N + 1
    BY <1>5 DEF Prefix, Last
  <2>2. \A j \in 1..Len(Chain) : Chain[j] \in DOMAIN at
    BY <1>6, <1>7
  <2> DEFINE f == [j \in 1..N + 1 |-> Chain[j]]
  <2>3. f \in [1..N + 1 -> DOMAIN at]
    <3> HIDE DEF N
    <3> QED
      BY <2>1, <2>2
  <2>4. IsFiniteSet(1..N + 1) /\ Cardinality(1..N + 1) = N + 1
    <3> HIDE DEF N
    <3>1. N + 1 \in Int /\ N + 1 >= 1
      BY <1>1
    <3> QED
      BY <3>1, <1>1, FS_Interval
  <2>5. N < Cardinality(1..N + 1)
    <3> HIDE DEF N
    <3> QED
      BY <1>1, <2>4
  <2>6. PICK x \in 1..N + 1, y \in 1..N + 1 : x # y /\ f[x] = f[y]
    <3> DEFINE D == DOMAIN at
               I == 1..N + 1
    <3>1. IsFiniteSet(D) /\ IsFiniteSet(I) /\ Cardinality(D) < Cardinality(I) /\ f \in [I -> D]
      BY <1>1, <2>3, <2>4, <2>5
    <3>2. \E x, y \in I : x # y /\ f[x] = f[y]
      <4> HIDE DEF D, I, f
      <4> QED
        BY <3>1, FS_PigeonHole
    <3> QED
      BY <3>2
  <2>7. Chain[x] = Chain[y] /\ x \in 1..Len(Chain) /\ y \in 1..Len(Chain)
    BY <2>1, <2>6
  <2>8. Chain[x] \in Nat
    BY <1>7, <2>2, <2>7 DEF Memory
  <2>9. x < y => Chain[x] < Chain[y]
    BY <1>5, <2>7 DEF Prefix
  <2>10. y < x => Chain[y] < Chain[x]
    BY <1>5, <2>7 DEF Prefix
  <2> HIDE DEF N, f
  <2> QED
    BY <1>1, <2>6, <2>7, <2>8, <2>9, <2>10
<1>9. \A i \in 1..Len(Chain) - 1 : at[Chain[i]].next = Chain[i + 1]
  BY <1>5 DEF Prefix
<1>10. Chain[1] = 0
  BY <1>5 DEF Prefix
<1>11. ToSet(Chain) = {Chain[i] : i \in 1..Len(Chain)}
  BY <1>6 DEF ToSet
<1>12. ToSet(Chain) \subseteq L
  BY <1>6, <1>11
<1>13. L \subseteq ToSet(Chain)
  <2> DEFINE T == L \ ToSet(Chain)
  <2> SUFFICES ASSUME T # {} PROVE FALSE
    OBVIOUS
  <2>1. T \in SUBSET Nat
    BY <1>7
  <2>2. PICK a \in T : \A m \in T : a <= m
    BY <2>1, LeastNat
  <2>3. a # 0
    BY <1>6, <1>10, <1>11, <2>2
  <2> DEFINE p == at[a].prev
  <2>4. p \in L /\ at[p].next = a /\ a \in Nat /\ p \in Nat
    BY <1>7, <2>2, <2>3 DEF Linked
  <2>5. a # Null
    BY <2>4, HeapAssumption
  <2>6. block_end(at, p) = a
    <3> HIDE DEF p
    <3> QED
      BY <2>4, <2>5 DEF Linked
  <2>7. p < a
    <3> HIDE DEF p
    <3> QED
      BY <1>7, <2>4, <2>6, Fields
  <2>8. p \in ToSet(Chain)
    <3> HIDE DEF p
    <3> QED
      BY <2>2, <2>4, <2>7
  <2>9. PICK i \in 1..Len(Chain) : Chain[i] = p
    BY <1>11, <2>8
  <2>10. CASE i = Len(Chain)
    BY <1>8, <2>4, <2>5, <2>9, <2>10 DEF Last
  <2>11. CASE i # Len(Chain)
    <3>1. i \in 1..Len(Chain) - 1 /\ i + 1 \in 1..Len(Chain)
      BY <1>6, <2>9, <2>11
    <3>2. Chain[i + 1] = a
      BY <1>9, <2>4, <2>9, <3>1
    <3> QED
      BY <1>11, <2>2, <3>1, <3>2
  <2> QED
    BY <2>10, <2>11
<1> QED
  BY <1>6, <1>8, <1>9, <1>10, <1>12, <1>13

LEMMA FirstFit ==
  ASSUME NEW L, NEW pool, Memory(at), Linked(at, L, pool), heap_head = 0,
         NEW r, first_fit(r) # Null
  PROVE  first_fit(r) \in L /\ fits(at, first_fit(r), r)
<1> DEFINE Fits(a) == a \in DOMAIN at /\ fits(at, a, r)
           I == {i \in 1..Len(Chain) : Fits(Chain[i])}
<1>1. Chain \in Seq(L)
  BY ChainIsList
<1>2. first_fit(r) = IF I # {} THEN (IF Min(I) = 0 THEN Null ELSE Chain[Min(I)]) ELSE Null
  BY DEF first_fit, SelectInSeq
<1>3. I # {} /\ first_fit(r) = Chain[Min(I)]
  <2> HIDE DEF I
  <2> QED
    BY <1>2
<1>4. Min(I) \in I
  <2>1. I \in SUBSET Nat
    BY <1>1
  <2>2. \E x \in I : \A y \in I : x <= y
    <3> HIDE DEF I
    <3> QED
      BY <1>3, <2>1, LeastNat
  <2> HIDE DEF I
  <2> QED
    BY <2>2 DEF Min
<1> QED
  BY <1>1, <1>3, <1>4

LEMMA Multiple ==
  ASSUME NEW k \in Int, NEW m \in Nat \ {0}
  PROVE  (m * k) % m = 0
<1>1. (k * m) % m = 0
  OBVIOUS
<1>2. k * m = m * k
  OBVIOUS
<1> QED
  BY <1>1, <1>2

LEMMA RoundUp ==
  ASSUME NEW x \in Nat, NEW m \in Nat \ {0}
  PROVE  /\ round_up(x, m) \in Nat /\ round_up(x, m) >= x
         /\ round_up(x, m) % m = 0
         /\ x % m = 0 => round_up(x, m) = x
<1> DEFINE q == (x + m - 1) \div m
<1>1. q \in Nat /\ round_up(x, m) = m * q
  BY DEF round_up
<1>2. m * q <= x + m - 1 /\ x + m - 1 < m * q + m
  OBVIOUS
<1>3. (m * q) % m = 0
  <2> HIDE DEF q
  <2> QED
    BY <1>1, Multiple
<1>4. ASSUME x % m = 0 PROVE m * q = x
  <2> DEFINE k == x \div m
  <2>1. k \in Nat /\ x = m * k
    BY <1>4
  <2> HIDE DEF q, k
  <2>2. m * q < m * k + m /\ m * k <= m * q
    BY <1>1, <1>2, <2>1
  <2>3. ~(q >= k + 1)
    <3> SUFFICES ASSUME q >= k + 1 PROVE FALSE
      OBVIOUS
    <3>1. m * q >= m * (k + 1)
      BY <1>1, <2>1
    <3> QED
      BY <1>1, <2>1, <2>2, <3>1
  <2>4. ~(q + 1 <= k)
    <3> SUFFICES ASSUME q + 1 <= k PROVE FALSE
      OBVIOUS
    <3>1. m * (q + 1) <= m * k
      BY <1>1, <2>1
    <3> QED
      BY <1>1, <2>1, <2>2, <3>1
  <2> QED
    BY <1>1, <2>1, <2>3, <2>4
<1>5. m * q >= x /\ m * q \in Nat
  <2> HIDE DEF q
  <2> QED
    BY <1>1, <1>2
<1> QED
  BY <1>1, <1>3, <1>4, <1>5

-----------------------------------------------------------------------------
(* Headers                                                                 *)

LEMMA Destroyed ==
  ASSUME NEW mem, Memory(mem), NEW a \in Nat, NEW n \in Nat
  PROVE  /\ Memory(destroy(mem, a, n))
         /\ \A c : c \in DOMAIN destroy(mem, a, n)
                     <=> c \in DOMAIN mem /\ (c >= a + n \/ data_start(c) <= a)
         /\ \A c \in DOMAIN destroy(mem, a, n) : destroy(mem, a, n)[c] = mem[c]
<1> DEFINE D == {c \in DOMAIN mem : c >= a + n \/ data_start(c) <= a}
<1>1. DOMAIN destroy(mem, a, n) = D /\ \A c \in D : destroy(mem, a, n)[c] = mem[c]
  BY DEF destroy
<1>2. IsFiniteSet(D)
  BY FS_Subset DEF Memory
<1>3. destroy(mem, a, n) \in [D -> HeaderType]
  BY DEF destroy, Memory
<1> QED
  BY <1>1, <1>2, <1>3 DEF Memory

LEMMA Put ==
  ASSUME NEW mem, Memory(mem), NEW a \in Nat, NEW h \in HeaderType
  PROVE  /\ Memory(put_header(mem, a, h))
         /\ \A c : c \in DOMAIN put_header(mem, a, h)
                     <=> c = a \/ (c \in DOMAIN mem /\ (c >= a + HeaderSize \/ data_start(c) <= a))
         /\ \A c \in DOMAIN put_header(mem, a, h) :
              put_header(mem, a, h)[c] = IF c = a THEN h ELSE mem[c]
<1> DEFINE rest == destroy(mem, a, HeaderSize)
<1>1. /\ Memory(rest)
      /\ \A c : c \in DOMAIN rest
                     <=> c \in DOMAIN mem /\ (c >= a + HeaderSize \/ data_start(c) <= a)
      /\ \A c \in DOMAIN rest : rest[c] = mem[c]
  BY Destroyed, HeapAssumption
<1>2. put_header(mem, a, h) = [c \in DOMAIN rest \cup {a} |-> IF c = a THEN h ELSE rest[c]]
  BY DEF put_header
<1> HIDE DEF rest
<1>3. IsFiniteSet(DOMAIN rest \cup {a})
  BY <1>1, FS_AddElement DEF Memory
<1>4. put_header(mem, a, h) \in [DOMAIN rest \cup {a} -> HeaderType]
  BY <1>1, <1>2 DEF Memory
<1>5. DOMAIN rest \cup {a} \in SUBSET Nat
  BY <1>1 DEF Memory
<1>6. DOMAIN put_header(mem, a, h) = DOMAIN rest \cup {a}
  BY <1>2
<1>7. Memory(put_header(mem, a, h))
  BY <1>3, <1>4, <1>5, <1>6 DEF Memory
<1> QED
  BY <1>1, <1>2, <1>6, <1>7

LEMMA Set ==
  ASSUME NEW mem, Memory(mem), NEW a \in DOMAIN mem, NEW h \in HeaderType
  PROVE  /\ Memory([mem EXCEPT ![a] = h])
         /\ DOMAIN [mem EXCEPT ![a] = h] = DOMAIN mem
         /\ \A c \in DOMAIN mem : [mem EXCEPT ![a] = h][c] = IF c = a THEN h ELSE mem[c]
BY DEF Memory

(* A block behind a begins where a ends.                                   *)
LEMMA Neighbours ==
  ASSUME NEW mem, NEW L, NEW pool, Memory(mem), Linked(mem, L, pool), NEW a \in L
  PROVE  /\ a \in DOMAIN mem /\ a \in Nat /\ a # Null /\ data_start(a) <= pool
         /\ mem[a].next # Null => /\ mem[a].next \in L /\ mem[a].next \in DOMAIN mem
                                  /\ mem[a].next = block_end(mem, a)
                                  /\ mem[a].next > a /\ mem[mem[a].next].prev = a
         /\ mem[a].prev # Null => /\ mem[a].prev \in L /\ mem[a].prev \in DOMAIN mem
                                  /\ mem[mem[a].prev].next = a
                                  /\ mem[a].prev < a
         /\ mem[a].prev = Null <=> a = 0
<1>1. a \in DOMAIN mem /\ a \in Nat /\ a # Null /\ data_start(a) <= pool
  BY HeapAssumption DEF Linked, Memory
<1>2. /\ mem[a].next # Null => /\ mem[a].next \in L /\ mem[a].next \in DOMAIN mem
                                /\ mem[a].next = block_end(mem, a)
                                /\ mem[mem[a].next].prev = a
  BY DEF Linked
<1>3. a # 0 => /\ mem[a].prev \in L /\ mem[a].prev \in DOMAIN mem /\ mem[mem[a].prev].next = a
  BY DEF Linked
<1>4. a < block_end(mem, a)
  BY <1>1, Fields
<1>5. a # 0 => mem[a].prev # Null /\ mem[a].prev < a
  <2> SUFFICES ASSUME a # 0 PROVE mem[a].prev # Null /\ mem[a].prev < a
    OBVIOUS
  <2> DEFINE p == mem[a].prev
  <2>1. p \in L /\ p \in DOMAIN mem /\ mem[p].next = a
    BY <1>3
  <2> HIDE DEF p
  <2>2. block_end(mem, p) = a
    BY <1>1, <2>1 DEF Linked
  <2>3. p \in Nat /\ p < a
    BY <2>1, <2>2, Fields
  <2>4. p # Null
    BY <2>3, HeapAssumption
  <2> QED
    BY <2>3, <2>4 DEF p
<1>6. mem[0].prev = Null
  BY DEF Linked
<1> QED
  BY <1>1, <1>2, <1>3, <1>4, <1>5, <1>6

(* No other block reaches into what belongs to one.                        *)
LEMMA Apart ==
  ASSUME NEW mem, NEW L, NEW pool, Memory(mem), Linked(mem, L, pool), NEW a \in L, NEW c \in L, c # a
  PROVE  /\ c \in Nat /\ a \in Nat /\ c \in DOMAIN mem
         /\ data_start(c) <= a \/ block_end(mem, a) <= c
         /\ c < a => block_end(mem, c) <= a
<1>1. c \in Nat /\ a \in Nat /\ c \in DOMAIN mem
  BY DEF Linked, Memory
<1>2. c < a \/ a < c
  BY <1>1
<1>3. c < a => block_end(mem, c) <= a
  BY DEF Linked
<1>4. a < c => block_end(mem, a) <= c
  BY DEF Linked
<1>5. data_start(c) <= block_end(mem, c) /\ data_start(c) \in Nat /\ block_end(mem, c) \in Nat
  BY <1>1, Fields
<1> QED
  BY <1>1, <1>2, <1>3, <1>4, <1>5

(* The end of a is cut off and is a block of its own.                      *)
Inserted(mem, new, L, a, s) ==
  /\ new[a].data_size = s - data_start(a) /\ new[a].next = s /\ new[a].prev = mem[a].prev
  /\ new[s].data_size = block_end(mem, a) - data_start(s)
  /\ new[s].next = mem[a].next /\ new[s].prev = a
  /\ \A c \in L : c # a => /\ new[c].data_size = mem[c].data_size
                           /\ new[c].next = mem[c].next
                           /\ new[c].prev = IF c = mem[a].next THEN s ELSE mem[c].prev

LEMMA InsertKeeps ==
  ASSUME NEW mem, NEW L, NEW pool \in Nat, Memory(mem), Linked(mem, L, pool),
         NEW a \in L, NEW s \in Nat,
         data_start(a) <= s, data_start(s) <= block_end(mem, a), data_start(s) <= pool,
         NEW new, Memory(new), L \cup {s} \subseteq DOMAIN new, Inserted(mem, new, L, a, s)
  PROVE  /\ Linked(new, L \cup {s}, pool) /\ s \notin L
         /\ block_end(new, s) = block_end(mem, a)
         /\ \A c \in L : c # a => block_end(new, c) = block_end(mem, c)
<1> DEFINE M == L \cup {s}
           e == block_end(mem, a)
<1>1. /\ a \in Nat /\ a \in DOMAIN mem /\ e \in Nat /\ a < data_start(a) /\ data_start(a) \in Nat
      /\ data_start(s) \in Nat /\ s < data_start(s) /\ s \in DOMAIN new /\ a \in DOMAIN new
      /\ s # Null /\ L \subseteq Nat /\ L \subseteq DOMAIN mem /\ 0 \in L /\ L \subseteq DOMAIN new
  BY Fields, HeapAssumption DEF Linked, Memory, data_start
<1>2. s \notin L /\ a < s /\ s < e
  <2>1. a < s /\ s < e
    <3>1. data_start(a) <= s /\ data_start(s) <= e
      OBVIOUS
    <3> HIDE DEF e
    <3> QED
      BY <1>1, <3>1
  <2>2. s \notin L
    <3> SUFFICES ASSUME s \in L PROVE FALSE
      OBVIOUS
    <3>1. e <= s
      BY <2>1 DEF Linked
    <3> HIDE DEF e
    <3> QED
      BY <1>1, <2>1, <3>1
  <2> QED
    BY <2>1, <2>2
<1>3. block_end(new, a) = s
  <2>1. new[a].data_size = s - data_start(a)
    BY DEF Inserted
  <2> QED
    BY <1>1, <2>1 DEF block_end
<1>4. block_end(new, s) = e
  <2>1. new[s].data_size = e - data_start(s)
    BY DEF Inserted
  <2> HIDE DEF e
  <2>2. block_end(new, s) = data_start(s) + new[s].data_size
    BY DEF block_end
  <2> QED
    BY <1>1, <2>1, <2>2
<1>5. \A c \in L : c # a => block_end(new, c) = block_end(mem, c)
  BY DEF Inserted, block_end
<1>6. ASSUME NEW c \in M
      PROVE  data_start(c) <= pool
  BY DEF Linked
<1>7. ASSUME NEW c \in M, new[c].next # Null
      PROVE  new[c].next \in M /\ new[c].next = block_end(new, c) /\ new[new[c].next].prev = c
  <2>1. CASE c = a
    <3>1. new[a].next = s /\ new[s].prev = a
      BY DEF Inserted
    <3> QED
      BY <1>3, <2>1, <3>1
  <2>2. CASE c = s
    <3> DEFINE n == mem[a].next
    <3>1. new[s].next = n
      BY DEF Inserted
    <3>2. n # Null
      BY <1>7, <2>2, <3>1
    <3>3. n \in L /\ n = e /\ n > a
      BY <3>2, Neighbours
    <3>4. n # a
      <4> HIDE DEF n, e
      <4> QED
        BY <1>1, <3>3
    <3>5. new[n].prev = s
      BY <3>3, <3>4 DEF Inserted
    <3> QED
      BY <1>4, <2>2, <3>1, <3>3, <3>5
  <2>3. CASE c # a /\ c # s
    <3> DEFINE n == mem[c].next
    <3>1. c \in L /\ new[c].next = n
      BY <2>3 DEF Inserted
    <3>2. n # Null
      BY <1>7, <3>1
    <3>3. n \in L /\ n = block_end(mem, c) /\ mem[n].prev = c
      BY <3>1, <3>2, Neighbours
    <3>4. n # mem[a].next
      <4> SUFFICES ASSUME n = mem[a].next PROVE FALSE
        OBVIOUS
      <4>1. mem[n].prev = a
        BY <3>2, Neighbours
      <4> QED
        BY <2>3, <3>3, <4>1
    <3>5. new[n].prev = mem[n].prev
      <4> HIDE DEF n
      <4> QED
        BY <3>3, <3>4 DEF Inserted
    <3> QED
      BY <1>5, <2>3, <3>1, <3>3, <3>5
  <2> QED
    BY <2>1, <2>2, <2>3
<1>8. ASSUME NEW c \in M, c # 0
      PROVE  new[c].prev \in M /\ new[new[c].prev].next = c
  <2>1. CASE c = s
    BY <2>1 DEF Inserted
  <2>2. CASE c # s /\ c = mem[a].next
    <3>1. c \in L /\ c > a
      BY <2>2, <1>1, HeapAssumption, Neighbours
    <3>2. c # a
      BY <1>1, <3>1
    <3>3. new[c].prev = s /\ new[s].next = c
      BY <2>2, <3>1, <3>2 DEF Inserted
    <3> QED
      BY <3>3
  <2>3. CASE c # s /\ c # mem[a].next
    <3> DEFINE p == mem[c].prev
    <3>1. c \in L
      BY <2>3
    <3>2. p \in L /\ mem[p].next = c
      BY <1>8, <3>1 DEF Linked
    <3>3. p # a
      BY <2>3, <3>2
    <3>4. new[c].prev = p
      BY <2>3, <3>1 DEF Inserted
    <3>5. new[p].next = mem[p].next
      <4> HIDE DEF p
      <4> QED
        BY <3>2, <3>3 DEF Inserted
    <3> QED
      BY <3>2, <3>4, <3>5
  <2> QED
    BY <2>1, <2>2, <2>3
<1>9. ASSUME NEW c \in M, NEW d \in M, c < d
      PROVE  block_end(new, c) <= d
  <2>1. CASE c = s
    <3>1. d \in L /\ d \in Nat /\ a < d
      BY <1>1, <1>2, <1>9, <2>1
    <3>2. e <= d
      BY <3>1 DEF Linked
    <3> QED
      BY <1>4, <2>1, <3>2
  <2>2. CASE c = a
    <3>1. CASE d = s
      BY <1>1, <1>3, <2>2, <3>1
    <3>2. CASE d # s
      <4>1. e <= d /\ d \in Nat
        BY <1>1, <1>9, <2>2, <3>2 DEF Linked
      <4> HIDE DEF e
      <4> QED
        BY <1>1, <1>2, <1>3, <2>2, <4>1
    <3> QED
      BY <3>1, <3>2
  <2>3. CASE c # s /\ c # a /\ d = s
    <3>1. c \in L /\ c \in Nat
      BY <1>1, <2>3
    <3>2. data_start(c) <= a \/ e <= c
      BY <2>3, <3>1, Apart
    <3>3. c < a
      <4>1. c < data_start(c) /\ data_start(c) \in Nat
        BY <3>1, <1>1, Fields
      <4> HIDE DEF e
      <4> QED
        BY <1>1, <1>2, <1>9, <2>3, <3>1, <3>2, <4>1
    <3>4. block_end(mem, c) <= a /\ block_end(mem, c) \in Nat
      BY <1>1, <3>1, <3>3, Fields DEF Linked
    <3> QED
      BY <1>1, <1>2, <1>5, <2>3, <3>1, <3>4
  <2>4. CASE c # s /\ c # a /\ d # s
    <3>1. c \in L /\ d \in L
      BY <2>4
    <3>2. block_end(mem, c) <= d
      BY <1>9, <3>1 DEF Linked
    <3> QED
      BY <1>5, <2>4, <3>1, <3>2
  <2> QED
    BY <2>1, <2>2, <2>3, <2>4
<1>10. new[0].prev = Null
  <2>1. mem[0].prev = Null
    BY DEF Linked
  <2>2. 0 # mem[a].next
    <3> SUFFICES ASSUME 0 = mem[a].next PROVE FALSE
      OBVIOUS
    <3>1. mem[a].next > a
      BY HeapAssumption, Neighbours
    <3> QED
      BY <1>1, <3>1
  <2> QED
    BY <1>1, <2>1, <2>2 DEF Inserted
<1>11. Linked(new, M, pool)
  <2>1. M \subseteq DOMAIN new /\ 0 \in M
    BY <1>1
  <2> HIDE DEF M
  <2> QED
    BY <2>1, <1>6, <1>7, <1>8, <1>9, <1>10 DEF Linked
<1> QED
  BY <1>2, <1>4, <1>5, <1>11

(* The block right, behind left, becomes part of left.                     *)
Merged(mem, new, L, left, right) ==
  /\ new[left].data_size = mem[left].data_size + mem[right].data_size + HeaderSize
  /\ new[left].next = mem[right].next /\ new[left].prev = mem[left].prev
  /\ \A c \in L \ {left, right} :
       /\ new[c].data_size = mem[c].data_size
       /\ new[c].next = mem[c].next
       /\ new[c].prev = IF c = mem[right].next THEN left ELSE mem[c].prev

MergedEnds(mem, new, L, left, right) ==
  /\ block_end(new, left) = block_end(mem, right)
  /\ \A c \in L \ {left, right} : block_end(new, c) = block_end(mem, c)

LEMMA MergeKeeps ==
  ASSUME NEW mem, NEW L, NEW pool \in Nat, Memory(mem), Linked(mem, L, pool),
         NEW left \in L, NEW right, right = mem[left].next, right # Null,
         NEW new, Memory(new), L \subseteq DOMAIN new, Merged(mem, new, L, left, right)
  PROVE  Linked(new, L \ {right}, pool) /\ MergedEnds(mem, new, L, left, right)
<1> DEFINE M == L \ {right}
           e == block_end(mem, right)
<1>1. /\ right \in L /\ right > left /\ right \in Nat /\ left \in Nat
      /\ right = block_end(mem, left) /\ right # 0 /\ mem[right].prev = left
      /\ L \subseteq Nat /\ L \subseteq DOMAIN mem /\ left \in M
  <2>1. right \in L /\ right > left /\ right = block_end(mem, left) /\ mem[right].prev = left
    BY Neighbours
  <2>2. L \subseteq Nat /\ L \subseteq DOMAIN mem
    BY DEF Linked, Memory
  <2> QED
    BY <2>1, <2>2
<1>2. block_end(new, left) = e /\ e \in Nat /\ right < e
  <2>1. new[left].data_size = mem[left].data_size + mem[right].data_size + HeaderSize
    BY DEF Merged
  <2>2. /\ block_end(mem, left) = data_start(left) + mem[left].data_size
        /\ e = right + HeaderSize + mem[right].data_size
        /\ mem[left].data_size \in Nat /\ mem[right].data_size \in Nat
        /\ data_start(left) \in Nat /\ HeaderSize \in Nat \ {0}
    BY <1>1, Fields, HeapAssumption
  <2>3. block_end(new, left) = data_start(left) + new[left].data_size
    BY DEF block_end
  <2> HIDE DEF e
  <2> QED
    BY <1>1, <2>1, <2>2, <2>3
<1>3. \A c \in L \ {left, right} : block_end(new, c) = block_end(mem, c)
  BY DEF Merged, block_end
<1>4. ASSUME NEW c \in M
      PROVE  data_start(c) <= pool
  BY DEF Linked
<1>5. ASSUME NEW c \in M, new[c].next # Null
      PROVE  new[c].next \in M /\ new[c].next = block_end(new, c) /\ new[new[c].next].prev = c
  <2>1. CASE c = left
    <3> DEFINE n == mem[right].next
    <3>1. new[left].next = n
      BY DEF Merged
    <3>2. n # Null
      BY <1>5, <2>1, <3>1
    <3>3. n \in L /\ n = e /\ n > right
      BY <1>1, <3>2, Neighbours
    <3>4. n # left /\ n # right
      <4> HIDE DEF n, e
      <4> QED
        BY <1>1, <3>3
    <3>5. new[n].prev = left
      BY <3>3, <3>4 DEF Merged
    <3> QED
      BY <1>2, <2>1, <3>1, <3>3, <3>4, <3>5
  <2>2. CASE c # left
    <3> DEFINE n == mem[c].next
    <3>1. c \in L /\ c # right /\ new[c].next = n
      BY <2>2 DEF Merged
    <3>2. n # Null
      BY <1>5, <3>1
    <3>3. n \in L /\ n = block_end(mem, c) /\ mem[n].prev = c
      BY <3>1, <3>2, Neighbours
    <3>4. n # right
      BY <1>1, <2>2, <3>3
    <3>5. new[n].prev = c
      <4>1. CASE n = left
        BY <3>3, <4>1 DEF Merged
      <4>2. CASE n # left
        <5>1. n # mem[right].next
          <6> SUFFICES ASSUME n = mem[right].next PROVE FALSE
            OBVIOUS
          <6>1. mem[n].prev = right
            BY <1>1, <3>2, Neighbours
          <6> QED
            BY <3>1, <3>3, <6>1
        <5> HIDE DEF n
        <5> QED
          BY <3>3, <3>4, <4>2, <5>1 DEF Merged
      <4> QED
        BY <4>1, <4>2
    <3> QED
      BY <1>3, <2>2, <3>1, <3>3, <3>4, <3>5
  <2> QED
    BY <2>1, <2>2
<1>6. ASSUME NEW c \in M, c # 0
      PROVE  new[c].prev \in M /\ new[new[c].prev].next = c
  <2>1. CASE c = left
    <3> DEFINE p == mem[left].prev
    <3>1. p \in L /\ mem[p].next = left
      BY <1>6, <2>1 DEF Linked
    <3>2. p # left /\ p # right
      <4>1. p # Null
        BY <3>1, <1>1, HeapAssumption
      <4>2. p < left
        BY <4>1, Neighbours
      <4> HIDE DEF p
      <4> QED
        BY <1>1, <3>1, <4>2
    <3>3. new[left].prev = p /\ new[p].next = mem[p].next
      BY <3>1, <3>2 DEF Merged
    <3> QED
      BY <2>1, <3>1, <3>2, <3>3
  <2>2. CASE c # left /\ c = mem[right].next
    BY <1>1, <2>2 DEF Merged
  <2>3. CASE c # left /\ c # mem[right].next
    <3> DEFINE p == mem[c].prev
    <3>1. c \in L /\ c # right
      OBVIOUS
    <3>2. p \in L /\ mem[p].next = c
      BY <1>6, <3>1 DEF Linked
    <3>3. p # right /\ p # left
      BY <2>3, <3>1, <3>2
    <3>4. new[c].prev = p
      BY <2>3, <3>1 DEF Merged
    <3>5. new[p].next = mem[p].next
      <4> HIDE DEF p
      <4> QED
        BY <3>2, <3>3 DEF Merged
    <3> QED
      BY <3>2, <3>3, <3>4, <3>5
  <2> QED
    BY <2>1, <2>2, <2>3
<1>7. ASSUME NEW c \in M, NEW d \in M, c < d
      PROVE  block_end(new, c) <= d
  <2>1. CASE c = left
    <3>1. d \in L /\ d \in Nat /\ d # right
      BY <1>1
    <3>2. right <= d
      BY <1>1, <1>7, <2>1, <3>1 DEF Linked
    <3>3. right < d
      BY <1>1, <3>1, <3>2
    <3>4. e <= d
      BY <1>1, <3>1, <3>3 DEF Linked
    <3> QED
      BY <1>2, <2>1, <3>4
  <2>2. CASE c # left
    <3>1. block_end(mem, c) <= d
      BY <1>7 DEF Linked
    <3> QED
      BY <1>3, <2>2, <3>1
  <2> QED
    BY <2>1, <2>2
<1>8. new[0].prev = Null
  <2>1. mem[0].prev = Null /\ 0 \in L
    BY DEF Linked
  <2>2. 0 # mem[right].next
    <3> SUFFICES ASSUME 0 = mem[right].next PROVE FALSE
      OBVIOUS
    <3>1. mem[right].next > right
      BY <1>1, HeapAssumption, Neighbours
    <3> QED
      BY <1>1, <3>1
  <2> QED
    BY <1>1, <2>1, <2>2 DEF Merged
<1>9. Linked(new, M, pool)
  <2>1. M \subseteq DOMAIN new /\ 0 \in M
    BY <1>1 DEF Linked
  <2> HIDE DEF M
  <2> QED
    BY <2>1, <1>4, <1>5, <1>6, <1>7, <1>8 DEF Linked
<1> QED
  BY <1>2, <1>3, <1>9 DEF MergedEnds

(* The last block, free up to the end of the pool, moves up; the block     *)
(* before it takes what it leaves.                                         *)
Moved(mem, new, L, a, b) ==
  LET p == mem[a].prev IN
  /\ new[b].next = Null /\ new[b].prev = p
  /\ new[p].data_size = mem[p].data_size + (b - a) /\ new[p].next = b /\ new[p].prev = mem[p].prev
  /\ \A c \in L \ {a, p} : /\ new[c].data_size = mem[c].data_size
                           /\ new[c].next = mem[c].next
                           /\ new[c].prev = mem[c].prev

LEMMA LastBlock ==
  ASSUME NEW mem, NEW L, NEW pool \in Nat, Memory(mem), Linked(mem, L, pool),
         NEW a \in L, block_end(mem, a) = pool, NEW c \in L, c # a
  PROVE  c \in Nat /\ c < a /\ data_start(c) <= a /\ block_end(mem, c) <= a
<1>1. c \in Nat /\ a \in Nat /\ (data_start(c) <= a \/ pool <= c) /\ c \in DOMAIN mem
      /\ (c < a => block_end(mem, c) <= a)
  BY Apart
<1>2. c < data_start(c) /\ data_start(c) \in Nat /\ data_start(c) <= pool
  BY <1>1, Fields DEF Linked
<1> QED
  BY <1>1, <1>2

LEMMA MoveKeeps ==
  ASSUME NEW mem, NEW L, NEW pool \in Nat, Memory(mem), Linked(mem, L, pool),
         NEW a \in L, a # 0, block_end(mem, a) = pool,
         NEW b \in Nat, a < b, data_start(b) <= pool,
         NEW new, Memory(new), (L \ {a}) \cup {b} \subseteq DOMAIN new, Moved(mem, new, L, a, b)
  PROVE  Linked(new, (L \ {a}) \cup {b}, pool) /\ b \notin L
<1> DEFINE M == (L \ {a}) \cup {b}
           p == mem[a].prev
<1>1. /\ a \in Nat /\ L \subseteq Nat /\ L \subseteq DOMAIN mem /\ a # Null /\ b # Null
  BY HeapAssumption DEF Linked, Memory
<1>2. \A c \in L : c # a => c < a /\ block_end(mem, c) <= a
  BY LastBlock
<1>3. p \in L /\ mem[p].next = a /\ p # a /\ p \in Nat
  <2>1. p \in L /\ mem[p].next = a /\ p # Null
    BY <1>1, Neighbours, HeapAssumption DEF Linked
  <2>2. p < a
    BY <2>1, Neighbours
  <2> HIDE DEF p
  <2> QED
    BY <1>1, <2>1, <2>2
<1>4. b \notin L
  BY <1>1, <1>2
<1>5. block_end(new, p) = b
  <2>1. block_end(mem, p) = a
    BY <1>1, <1>3 DEF Linked
  <2>2. new[p].data_size = mem[p].data_size + (b - a)
    BY DEF Moved
  <2>3. mem[p].data_size \in Nat /\ data_start(p) \in Nat
    BY <1>1, <1>3, Fields
  <2> HIDE DEF p
  <2> QED
    BY <1>1, <2>1, <2>2, <2>3 DEF block_end
<1>6. \A c \in L \ {a, p} : block_end(new, c) = block_end(mem, c)
  BY DEF Moved, block_end
<1>8. ASSUME NEW c \in M, new[c].next # Null
      PROVE  new[c].next \in M /\ new[c].next = block_end(new, c) /\ new[new[c].next].prev = c
  <2>1. c # b
    BY <1>8 DEF Moved
  <2>2. CASE c = p
    BY <1>5, <2>2 DEF Moved
  <2>3. CASE c # p
    <3> DEFINE n == mem[c].next
    <3>1. c \in L \ {a, p} /\ new[c].next = n
      BY <2>1, <2>3 DEF Moved
    <3>2. n # Null
      BY <1>8, <3>1
    <3>3. n \in L /\ n = block_end(mem, c) /\ mem[n].prev = c
      BY <3>1, <3>2, Neighbours
    <3>4. n # a
      BY <2>3, <3>3
    <3>5. new[n].prev = c
      <4> HIDE DEF n
      <4>1. CASE n = p
        BY <3>3, <4>1 DEF Moved
      <4>2. CASE n # p
        BY <3>3, <3>4, <4>2 DEF Moved
      <4> QED
        BY <4>1, <4>2
    <3> QED
      BY <1>6, <3>1, <3>3, <3>4, <3>5
  <2> QED
    BY <2>2, <2>3
<1>9. ASSUME NEW c \in M, c # 0
      PROVE  new[c].prev \in M /\ new[new[c].prev].next = c
  <2>1. CASE c = b
    BY <1>3, <2>1 DEF Moved
  <2>2. CASE c # b
    <3> DEFINE q == mem[c].prev
    <3>1. c \in L /\ c # a
      BY <2>2
    <3>2. q \in L /\ mem[q].next = c
      BY <1>9, <3>1 DEF Linked
    <3>3. new[c].prev = q
      BY <3>1 DEF Moved
    <3>4. q # p
      BY <1>3, <3>1, <3>2
    <3>5. q # a
      <4> SUFFICES ASSUME q = a PROVE FALSE
        OBVIOUS
      <4>1. c = pool
        BY <1>1, <3>1, <3>2, HeapAssumption DEF Linked
      <4>2. c < a /\ a < pool
        <5>1. a < block_end(mem, a)
          BY <1>1, Fields
        <5> QED
          BY <1>2, <3>1, <5>1
      <4> QED
        BY <1>1, <4>1, <4>2
    <3>6. new[q].next = mem[q].next
      <4> HIDE DEF q, p
      <4> QED
        BY <3>2, <3>4, <3>5 DEF Moved, p
    <3> QED
      BY <3>2, <3>3, <3>5, <3>6
  <2> QED
    BY <2>1, <2>2
<1>10. ASSUME NEW c \in M, NEW d \in M, c < d
       PROVE  block_end(new, c) <= d
  <2>1. c # b
    BY <1>1, <1>2, <1>10
  <2>2. CASE d = b
    <3>1. CASE c = p
      BY <1>5, <2>2, <3>1
    <3>2. CASE c # p
      <4>1. c \in L \ {a, p} /\ block_end(mem, c) <= a /\ block_end(mem, c) \in Nat
        BY <1>1, <1>2, <2>1, <3>2, Fields
      <4> QED
        BY <1>1, <1>6, <2>2, <4>1
    <3> QED
      BY <3>1, <3>2
  <2>3. CASE d # b
    <3>1. d \in L /\ c \in L /\ d # a /\ c # a
      BY <2>1, <2>3
    <3>2. block_end(mem, c) <= d
      BY <1>10, <3>1 DEF Linked
    <3>3. c # p
      <4> SUFFICES ASSUME c = p PROVE FALSE
        OBVIOUS
      <4>1. block_end(mem, p) = a
        BY <1>1, <1>3 DEF Linked
      <4>2. d < a /\ d \in Nat
        BY <1>1, <1>2, <3>1
      <4> QED
        BY <1>1, <3>2, <4>1, <4>2
    <3> QED
      BY <1>6, <3>1, <3>2, <3>3
  <2> QED
    BY <2>2, <2>3
<1>11. new[0].prev = Null /\ 0 \in M
  <2>1. mem[0].prev = Null /\ 0 \in L
    BY DEF Linked
  <2> QED
    BY <2>1 DEF Moved
<1>12. Linked(new, M, pool)
  <2>1. M \subseteq DOMAIN new /\ \A c \in M : data_start(c) <= pool
    BY DEF Linked
  <2> HIDE DEF M
  <2> QED
    BY <2>1, <1>8, <1>9, <1>10, <1>11 DEF Linked
<1> QED
  BY <1>4, <1>12

LEMMA SameKeeps ==
  ASSUME NEW mem, NEW L, NEW pool, Memory(mem), Linked(mem, L, pool),
         NEW new, L \subseteq DOMAIN new,
         \A c \in L : /\ new[c].data_size = mem[c].data_size
                      /\ new[c].next = mem[c].next /\ new[c].prev = mem[c].prev
  PROVE  Linked(new, L, pool) /\ \A c \in L : block_end(new, c) = block_end(mem, c)
<1>1. \A c \in L : block_end(new, c) = block_end(mem, c)
  BY DEF block_end
<1>2. 0 \in L /\ \A c \in L : c # 0 => mem[c].prev \in L
  BY DEF Linked
<1>3. \A c \in L : mem[c].next # Null => mem[c].next \in L
  BY DEF Linked
<1>4. \A c \in L : data_start(c) <= pool
  BY DEF Linked
<1>5. \A c \in L : mem[c].next # Null => /\ mem[c].next = block_end(mem, c)
                                          /\ mem[mem[c].next].prev = c
  BY DEF Linked
<1>6. \A c \in L : c # 0 => mem[mem[c].prev].next = c
  BY DEF Linked
<1>7. \A c, d \in L : c < d => block_end(mem, c) <= d
  BY DEF Linked
<1>8. mem[0].prev = Null
  BY DEF Linked
<1> QED
  BY <1>1, <1>2, <1>3, <1>4, <1>5, <1>6, <1>7, <1>8 DEF Linked

-----------------------------------------------------------------------------
(* kmalloc                                                                 *)

Given(mem, L) == {a \in L : mem[a].allocated}

(* Block a is handed out for n cells; the rest of it, if it is worth a     *)
(* header, is a block at s.                                                *)
Carved(mem, new, L, M, a, s, n) ==
  /\ Given(new, M) = Given(mem, L) \cup {a}
  /\ \A c \in L \ {a} : /\ new[c].data_size = mem[c].data_size
                        /\ new[c].next = mem[c].next
                        /\ block_end(new, c) = block_end(mem, c)
  /\ n <= new[a].data_size
  /\ \/ M = L /\ new[a].next = mem[a].next /\ block_end(new, a) = block_end(mem, a)
     \/ /\ M = L \cup {s} /\ new[a].next = s /\ s \notin L
        /\ new[s].next = mem[a].next /\ block_end(new, s) = block_end(mem, a)

LEMMA CarveAll ==
  ASSUME NEW mem, NEW L, NEW pool, Memory(mem), Linked(mem, L, pool),
         NEW a \in L, NEW n \in Nat, data_start(a) + n <= block_end(mem, a)
  PROVE  LET new == destroy([mem EXCEPT ![a].allocated = TRUE], data_start(a), n) IN
         Memory(new) /\ Linked(new, L, pool) /\ Carved(mem, new, L, L, a, data_start(a) + n, n)
<1> DEFINE h == [mem[a] EXCEPT !.allocated = TRUE]
           set == [mem EXCEPT ![a] = h]
           d == data_start(a)
           new == destroy(set, d, n)
<1>1. a \in DOMAIN mem /\ a \in Nat /\ d \in Nat /\ L \subseteq DOMAIN mem
  BY Fields DEF Linked, Memory
<1>2. /\ h \in HeaderType /\ h.allocated = TRUE /\ h.data_size = mem[a].data_size
      /\ h.next = mem[a].next /\ h.prev = mem[a].prev
  <2>1. mem[a] \in HeaderType
    BY <1>1, Fields
  <2> QED
    BY <2>1 DEF HeaderType
<1>3. Memory(set) /\ DOMAIN set = DOMAIN mem /\ \A c \in DOMAIN mem : set[c] = IF c = a THEN h ELSE mem[c]
  <2> HIDE DEF h
  <2> QED
    BY <1>1, <1>2, Set
<1>4. /\ Memory(new)
      /\ \A c : c \in DOMAIN new <=> c \in DOMAIN set /\ (c >= d + n \/ data_start(c) <= d)
      /\ \A c \in DOMAIN new : new[c] = set[c]
  <2> HIDE DEF set, d
  <2> QED
    BY <1>1, <1>3, Destroyed
<1>5. ASSUME NEW c \in L
      PROVE  c \in DOMAIN new
  <2>1. CASE c = a
    <3>1. data_start(c) <= d
      BY <1>1, <2>1
    <3> HIDE DEF set, new, d
    <3> QED
      BY <1>1, <1>3, <1>4, <2>1, <3>1
  <2>2. CASE c # a
    <3>1. c \in Nat /\ c \in DOMAIN mem /\ (data_start(c) <= a \/ block_end(mem, a) <= c)
      BY <2>2, Apart
    <3>2. a < d /\ block_end(mem, a) \in Nat /\ data_start(c) \in Nat
      BY <1>1, <3>1, Fields
    <3>3. d + n <= block_end(mem, a)
      OBVIOUS
    <3>4. c >= d + n \/ data_start(c) <= d
      <4> HIDE DEF d
      <4> QED
        BY <1>1, <3>1, <3>2, <3>3
    <3> QED
      BY <1>3, <1>4, <3>1, <3>4
  <2> QED
    BY <2>1, <2>2
<1>6. \A c \in L : new[c] = IF c = a THEN h ELSE mem[c]
  <2> HIDE DEF h, new, set
  <2> QED
    BY <1>1, <1>3, <1>4, <1>5
<1>7. \A c \in L : /\ new[c].data_size = mem[c].data_size
                   /\ new[c].next = mem[c].next /\ new[c].prev = mem[c].prev
  <2> HIDE DEF h, new
  <2> QED
    BY <1>2, <1>6
<1>8. Linked(new, L, pool) /\ \A c \in L : block_end(new, c) = block_end(mem, c)
  <2>1. L \subseteq DOMAIN new
    BY <1>5
  <2> HIDE DEF new
  <2> QED
    BY <1>7, <2>1, SameKeeps
<1>9. Given(new, L) = Given(mem, L) \cup {a}
  <2> HIDE DEF h, new
  <2> QED
    BY <1>2, <1>6 DEF Given
<1>10. n <= new[a].data_size
  <2>1. block_end(mem, a) = d + mem[a].data_size /\ mem[a].data_size \in Nat
    BY <1>1, Fields
  <2>2. d + n <= block_end(mem, a)
    OBVIOUS
  <2> HIDE DEF new, d
  <2> QED
    BY <1>1, <1>7, <2>1, <2>2
<1>11. Carved(mem, new, L, L, a, d + n, n)
  <2> HIDE DEF new, d
  <2> QED
    BY <1>7, <1>8, <1>9, <1>10 DEF Carved
<1>12. [mem EXCEPT ![a].allocated = TRUE] = set
  OBVIOUS
<1> QED
  BY <1>4, <1>8, <1>11, <1>12

(* The links to and from the block that will be at s.                      *)
Cut(mem, linked, L, a, s, n) ==
  \A c \in L : linked[c] = IF c = a THEN [mem[a] EXCEPT !.data_size = n, !.next = s]
                           ELSE IF c = mem[a].next THEN [mem[c] EXCEPT !.prev = s]
                           ELSE mem[c]

LEMMA CarveRest ==
  ASSUME NEW mem, NEW L, NEW pool \in Nat, Memory(mem), Linked(mem, L, pool),
         NEW a \in L, NEW n \in Nat, NEW s, s = data_start(a) + n,
         data_start(s) <= block_end(mem, a), block_end(mem, a) <= pool,
         NEW rest, rest = block_end(mem, a) - data_start(s),
         NEW linked, Memory(linked), DOMAIN linked = DOMAIN mem, Cut(mem, linked, L, a, s, n)
  PROVE  LET new == destroy([put_header(linked, s, Header(rest, mem[a].next, a))
                               EXCEPT ![a].allocated = TRUE], data_start(a), n) IN
         /\ Memory(new) /\ Linked(new, L \cup {s}, pool)
         /\ Carved(mem, new, L, L \cup {s}, a, s, n)
<1> DEFINE d == data_start(a)
           e == block_end(mem, a)
           last == Header(rest, mem[a].next, a)
           put == put_header(linked, s, last)
           h == [put[a] EXCEPT !.allocated = TRUE]
           set == [put EXCEPT ![a] = h]
           new == destroy(set, d, n)
<1>1. /\ a \in DOMAIN mem /\ a \in Nat /\ d \in Nat /\ L \subseteq DOMAIN mem /\ L \subseteq Nat
      /\ a < d /\ s = d + n /\ s \in Nat /\ e \in Nat
      /\ data_start(s) = s + HeaderSize /\ data_start(s) \in Nat /\ HeaderSize \in Nat \ {0}
      /\ data_start(s) <= e /\ e <= pool /\ rest = e - data_start(s) /\ rest \in Nat /\ a # s
  <2>1. a \in DOMAIN mem /\ a \in Nat /\ d \in Nat /\ L \subseteq DOMAIN mem /\ L \subseteq Nat /\ a < d /\ e \in Nat
    BY Fields DEF Linked, Memory
  <2>2. s \in Nat /\ s = d + n
    BY <2>1
  <2>3. data_start(s) = s + HeaderSize /\ HeaderSize \in Nat \ {0}
    BY HeapAssumption DEF data_start
  <2>4. data_start(s) <= e /\ e <= pool /\ rest = e - data_start(s)
    OBVIOUS
  <2> HIDE DEF d, e
  <2> QED
    BY <2>1, <2>2, <2>3, <2>4
<1>2. mem[a] \in HeaderType /\ mem[a].next \in Nat \cup {Null}
  BY <1>1, Fields
<1>3. /\ last \in HeaderType /\ last.allocated = FALSE /\ last.data_size = rest
      /\ last.next = mem[a].next /\ last.prev = a
  BY <1>1, <1>2 DEF Header, HeaderType
<1>4. /\ Memory(put)
      /\ \A c : c \in DOMAIN put
                  <=> c = s \/ (c \in DOMAIN linked /\ (c >= s + HeaderSize \/ data_start(c) <= s))
      /\ \A c \in DOMAIN put : put[c] = IF c = s THEN last ELSE linked[c]
  <2>1. s \in Nat /\ last \in HeaderType
    BY <1>1, <1>3
  <2> HIDE DEF last
  <2> QED
    BY <2>1, Put
<1>5. ASSUME NEW c \in L
      PROVE  c \in DOMAIN mem /\ c # s /\ (c >= s + HeaderSize \/ data_start(c) <= s) /\ (c >= d + n \/ data_start(c) <= d)
  <2>1. CASE c = a
    BY <1>1, <2>1
  <2>2. CASE c # a
    <3>1. c \in Nat /\ c \in DOMAIN mem /\ (data_start(c) <= a \/ e <= c)
      BY <2>2, Apart
    <3>2. data_start(c) \in Nat /\ c < data_start(c)
      BY <1>1, <3>1, Fields
    <3> HIDE DEF d, e
    <3> QED
      BY <1>1, <3>1, <3>2
  <2> QED
    BY <2>1, <2>2
<1>6. s \in DOMAIN put /\ put[s] = last /\ \A c \in L : c \in DOMAIN put /\ put[c] = linked[c]
  <2> HIDE DEF last, put
  <2> QED
    BY <1>1, <1>4, <1>5
<1>7. /\ h \in HeaderType /\ h.allocated = TRUE /\ h.data_size = n
      /\ h.next = s /\ h.prev = mem[a].prev
  <2>1. put[a] = [mem[a] EXCEPT !.data_size = n, !.next = s]
    BY <1>6 DEF Cut
  <2> HIDE DEF put
  <2> QED
    BY <1>1, <1>2, <2>1 DEF HeaderType
<1>8. Memory(set) /\ DOMAIN set = DOMAIN put /\ \A c \in DOMAIN put : set[c] = IF c = a THEN h ELSE put[c]
  <2> HIDE DEF h, put
  <2> QED
    BY <1>4, <1>6, <1>7, Set
<1>9. /\ Memory(new)
      /\ \A c : c \in DOMAIN new <=> c \in DOMAIN set /\ (c >= d + n \/ data_start(c) <= d)
      /\ \A c \in DOMAIN new : new[c] = set[c]
  <2>1. Memory(set) /\ d \in Nat
    BY <1>1, <1>8
  <2> HIDE DEF set, d
  <2> QED
    BY <2>1, Destroyed
<1>10. s \in DOMAIN new /\ new[s] = last
  <2> HIDE DEF set, new, put, last, d
  <2> QED
    BY <1>1, <1>6, <1>8, <1>9
<1>11. \A c \in L : c \in DOMAIN new /\ new[c] = IF c = a THEN h ELSE linked[c]
  <2> HIDE DEF set, new, put, last, d, h
  <2> QED
    BY <1>5, <1>6, <1>8, <1>9
<1>12. ASSUME NEW c \in L, c # a
       PROVE  /\ linked[c].data_size = mem[c].data_size /\ linked[c].next = mem[c].next
              /\ linked[c].allocated = mem[c].allocated
              /\ linked[c].prev = IF c = mem[a].next THEN s ELSE mem[c].prev
  <2>1. mem[c] \in HeaderType
    BY <1>5, Fields
  <2>2. linked[c] = IF c = mem[a].next THEN [mem[c] EXCEPT !.prev = s] ELSE mem[c]
    BY <1>12 DEF Cut
  <2> QED
    BY <2>1, <2>2 DEF HeaderType
<1>13. Inserted(mem, new, L, a, s)
  <2>1. s - d = n
    <3> HIDE DEF d
    <3> QED
      BY <1>1
  <2> HIDE DEF new, h, last, e
  <2>2. /\ new[a].data_size = s - data_start(a) /\ new[a].next = s /\ new[a].prev = mem[a].prev
    BY <1>7, <1>11, <2>1
  <2>3. new[s].data_size = rest /\ new[s].next = mem[a].next /\ new[s].prev = a
    BY <1>3, <1>10
  <2>4. \A c \in L : c # a => /\ new[c].data_size = mem[c].data_size
                              /\ new[c].next = mem[c].next
                              /\ new[c].prev = IF c = mem[a].next THEN s ELSE mem[c].prev
    BY <1>11, <1>12
  <2> QED
    BY <2>2, <2>3, <2>4 DEF Inserted
<1>14. /\ Linked(new, L \cup {s}, pool) /\ s \notin L
       /\ block_end(new, s) = e
       /\ \A c \in L : c # a => block_end(new, c) = block_end(mem, c)
  <2>1. /\ L \cup {s} \subseteq DOMAIN new /\ data_start(s) <= e /\ data_start(s) <= pool
        /\ data_start(a) <= s
    <3>1. data_start(s) <= pool /\ d <= s
      <4> HIDE DEF d, e
      <4> QED
        BY <1>1
    <3> HIDE DEF new
    <3> QED
      BY <1>1, <1>10, <1>11, <3>1
  <2>2. s \in Nat /\ Memory(new)
    BY <1>1, <1>9
  <2> HIDE DEF new, d, e
  <2>3. /\ Linked(new, L \cup {s}, pool) /\ s \notin L
        /\ block_end(new, s) = block_end(mem, a)
        /\ \A c \in L : c # a => block_end(new, c) = block_end(mem, c)
    <3>1. /\ L \cup {s} \subseteq DOMAIN new /\ data_start(s) <= block_end(mem, a)
          /\ data_start(s) <= pool /\ data_start(a) <= s
      BY <2>1 DEF e
    <3>2. Linked(new, L \cup {s}, pool)
      BY <1>13, <2>2, <3>1, InsertKeeps
    <3>3. s \notin L
      BY <1>13, <2>2, <3>1, InsertKeeps
    <3>4. block_end(new, s) = block_end(mem, a)
      <4>1. block_end(new, s) = data_start(s) + new[s].data_size
        BY DEF block_end
      <4>2. new[s].data_size = block_end(mem, a) - data_start(s)
        BY <1>13 DEF Inserted
      <4>3. data_start(s) \in Nat /\ block_end(mem, a) \in Nat
        BY <1>1 DEF e
      <4> QED
        BY <4>1, <4>2, <4>3
    <3>5. \A c \in L : c # a => block_end(new, c) = block_end(mem, c)
      BY <1>13 DEF Inserted, block_end
    <3> QED
      BY <3>2, <3>3, <3>4, <3>5
  <2> QED
    BY <2>3 DEF e
<1>15. Given(new, L \cup {s}) = Given(mem, L) \cup {a}
  <2>1. new[s].allocated = FALSE /\ new[a].allocated = TRUE
    BY <1>3, <1>7, <1>10, <1>11
  <2>2. \A c \in L : c # a => new[c].allocated = mem[c].allocated
    <3> HIDE DEF new, h
    <3> QED
      BY <1>11, <1>12
  <2> HIDE DEF new
  <2> QED
    BY <2>1, <2>2 DEF Given
<1>16. Carved(mem, new, L, L \cup {s}, a, s, n)
  <2>1. n <= new[a].data_size /\ new[a].next = s /\ new[s].next = mem[a].next
    <3> HIDE DEF new, h, last
    <3> QED
      BY <1>3, <1>7, <1>10, <1>11
  <2>2. \A c \in L \ {a} : new[c].data_size = mem[c].data_size /\ new[c].next = mem[c].next
    <3> HIDE DEF new, h
    <3> QED
      BY <1>11, <1>12
  <2> HIDE DEF new
  <2> QED
    BY <1>14, <1>15, <2>1, <2>2 DEF Carved
<1>17. [put EXCEPT ![a].allocated = TRUE] = set
  OBVIOUS
<1> QED
  BY <1>9, <1>14, <1>16, <1>17

LEMMA Carve ==
  ASSUME NEW mem, NEW L, NEW pool \in Nat, Memory(mem), Linked(mem, L, pool),
         NEW a \in L, NEW n \in Nat,
         data_start(a) + n <= block_end(mem, a), block_end(mem, a) <= pool
  PROVE  LET s == data_start(a) + n
             new == destroy([split_behind(mem, a, s) EXCEPT ![a].allocated = TRUE],
                            data_start(a), n)
         IN  Memory(new) /\ \E M : Linked(new, M, pool) /\ Carved(mem, new, L, M, a, s, n)
<1> DEFINE s == data_start(a) + n
           e == block_end(mem, a)
           next == mem[a].next
           split == split_behind(mem, a, s)
           new == destroy([split EXCEPT ![a].allocated = TRUE], data_start(a), n)
<1>1. /\ a \in DOMAIN mem /\ a \in Nat /\ data_start(a) \in Nat /\ e \in Nat /\ s \in Nat
      /\ L \subseteq DOMAIN mem /\ s <= e /\ HeaderSize \in Nat \ {0}
  BY Fields, HeapAssumption DEF Linked, Memory
<1>2. CASE e - s <= HeaderSize
  <2>1. split = mem
    BY <1>2 DEF split_behind
  <2> QED
    BY <2>1, CarveAll
<1>3. CASE ~(e - s <= HeaderSize)
  <2> DEFINE h == [mem[a] EXCEPT !.data_size = n, !.next = s]
             cut == [mem EXCEPT ![a] = h]
             linked == [b \in DOMAIN cut |-> IF b = next THEN [cut[b] EXCEPT !.prev = s] ELSE cut[b]]
             rest == e - data_start(s)
  <2>1. data_start(s) = s + HeaderSize /\ data_start(s) <= e /\ (e - s) - HeaderSize = rest
    <3>1. data_start(s) = s + HeaderSize
      BY DEF data_start
    <3> HIDE DEF e, s
    <3> QED
      BY <1>1, <1>3, <3>1
  <2>2. h \in HeaderType
    <3>1. mem[a] \in HeaderType
      BY <1>1, Fields
    <3> HIDE DEF s
    <3> QED
      BY <1>1, <3>1 DEF HeaderType
  <2>3. Memory(cut) /\ DOMAIN cut = DOMAIN mem /\ \A c \in DOMAIN mem : cut[c] = IF c = a THEN h ELSE mem[c]
    <3> HIDE DEF h
    <3> QED
      BY <1>1, <2>2, Set
  <2>4. DOMAIN linked = DOMAIN mem /\ \A c \in DOMAIN mem : linked[c] = IF c = next THEN [cut[c] EXCEPT !.prev = s] ELSE cut[c]
    <3> HIDE DEF cut
    <3> QED
      BY <2>3
  <2>5. linked \in [DOMAIN mem -> HeaderType]
    <3>1. ASSUME NEW c \in DOMAIN mem
          PROVE  linked[c] \in HeaderType
      <4>1. cut[c] \in HeaderType
        <5> HIDE DEF cut
        <5> QED
          BY <2>3 DEF Memory
      <4>2. [cut[c] EXCEPT !.prev = s] \in HeaderType
        <5> HIDE DEF cut, s
        <5> QED
          BY <1>1, <4>1 DEF HeaderType
      <4> HIDE DEF cut, linked
      <4> QED
        BY <2>4, <4>1, <4>2
    <3>2. linked = [c \in DOMAIN mem |-> linked[c]]
      <4> HIDE DEF cut
      <4> QED
        BY <2>3
    <3> HIDE DEF linked
    <3> QED
      BY <3>1, <3>2
  <2>6. Memory(linked)
    <3> HIDE DEF linked
    <3> QED
      BY <2>4, <2>5 DEF Memory
  <2>7. Cut(mem, linked, L, a, s, n)
    <3>1. a # next
      <4> SUFFICES ASSUME a = next PROVE FALSE
        OBVIOUS
      <4>1. next # Null
        BY <1>1, HeapAssumption
      <4>2. next > a
        BY <4>1, Neighbours
      <4> QED
        BY <1>1, <4>2
    <3> HIDE DEF cut, linked, s
    <3> QED
      BY <1>1, <2>3, <2>4, <3>1 DEF Cut
  <2>8. cut = [mem EXCEPT ![a].data_size = n, ![a].next = s]
    BY <1>1
  <2>9. s - data_start(a) = n
    BY <1>1
  <2>10. split = put_header(linked, s, Header(rest, next, a))
    BY <1>3, <2>1, <2>8, <2>9 DEF split_behind
  <2>11. /\ Memory(new) /\ Linked(new, L \cup {s}, pool)
         /\ Carved(mem, new, L, L \cup {s}, a, s, n)
    <3> HIDE DEF linked, split
    <3> QED
      BY <1>1, <2>1, <2>4, <2>6, <2>7, <2>10, CarveRest
  <2> QED
    BY <2>11
<1> QED
  BY <1>2, <1>3

(* The header moves up, and the block has x cells then.                    *)
Resized(mem, b, x) == [mem EXCEPT ![b].data_size = x]

Relocated(mem, mid, L, K, b, x) ==
  /\ mid[b].data_size = x /\ mid[b].next = Null
  /\ b \notin Given(mem, L) /\ Given(mid, K) = Given(mem, L)
  /\ \A c \in Given(mem, L) : mem[c].data_size <= mid[c].data_size

LEMMA Move ==
  ASSUME NEW mem, NEW L, NEW pool \in Nat, Memory(mem), Linked(mem, L, pool),
         NEW a \in L, a # 0, block_end(mem, a) = pool, mem[a].next = Null, a \notin Given(mem, L),
         NEW b \in Nat, a < b, data_start(b) <= pool, NEW x \in Nat
  PROVE  LET mid == Resized(move_header(mem, a, b), b, x)
             K == (L \ {a}) \cup {b}
         IN  /\ b \in DOMAIN move_header(mem, a, b) /\ Memory(move_header(mem, a, b))
             /\ Memory(mid) /\ Linked(mid, K, pool) /\ Relocated(mem, mid, L, K, b, x)
<1> DEFINE p == mem[a].prev
           first == Header(0, Null, p)
           put == put_header(mem, b, first)
           h == [put[p] EXCEPT !.data_size = @ + (b - a), !.next = b]
           moved == [put EXCEPT ![p] = h]
           g == [moved[b] EXCEPT !.data_size = x]
           mid == [moved EXCEPT ![b] = g]
           K == (L \ {a}) \cup {b}
<1>1. /\ a \in DOMAIN mem /\ a \in Nat /\ b \in Nat /\ a < b
      /\ L \subseteq DOMAIN mem /\ L \subseteq Nat
  BY DEF Linked, Memory
<1>2. p # Null /\ p \in L /\ p < a /\ p \in Nat
  <2>1. p # Null
    BY Neighbours
  <2>2. p \in L /\ p < a
    BY <2>1, Neighbours
  <2> HIDE DEF p
  <2> QED
    BY <1>1, <2>1, <2>2
<1>3. /\ first \in HeaderType /\ first.allocated = FALSE /\ first.data_size = 0
      /\ first.next = Null /\ first.prev = p
  <2> HIDE DEF p
  <2> QED
    BY <1>2 DEF Header, HeaderType
<1>4. /\ Memory(put)
      /\ \A c : c \in DOMAIN put
                  <=> c = b \/ (c \in DOMAIN mem /\ (c >= b + HeaderSize \/ data_start(c) <= b))
      /\ \A c \in DOMAIN put : put[c] = IF c = b THEN first ELSE mem[c]
  <2> HIDE DEF first
  <2> QED
    BY <1>3, Put
<1>5. ASSUME NEW c \in L, c # a
      PROVE  c \in DOMAIN put /\ put[c] = mem[c] /\ c # b
  <2>1. c \in Nat /\ c < a /\ data_start(c) <= a /\ c \in DOMAIN mem
    BY <1>1, <1>5, LastBlock
  <2>2. data_start(c) \in Nat
    BY <2>1, Fields
  <2>3. c # b /\ data_start(c) <= b
    BY <1>1, <2>1, <2>2
  <2> HIDE DEF put
  <2> QED
    BY <1>4, <2>1, <2>3
<1>6. b \notin L
  <2> SUFFICES ASSUME b \in L PROVE FALSE
    OBVIOUS
  <2>1. b < a
    BY <1>1, LastBlock
  <2> QED
    BY <1>1, <2>1
<1>7. p \in DOMAIN put /\ put[p] = mem[p] /\ p # b /\ b \in DOMAIN put /\ put[b] = first
  <2>1. p # a
    <3> HIDE DEF p
    <3> QED
      BY <1>1, <1>2
  <2> HIDE DEF put, p, first
  <2> QED
    BY <1>2, <1>4, <1>5, <2>1
<1>8. /\ h \in HeaderType /\ h.data_size = mem[p].data_size + (b - a) /\ h.next = b
      /\ h.prev = mem[p].prev /\ h.allocated = mem[p].allocated
      /\ mem[p].data_size \in Nat /\ mem[p].data_size <= h.data_size
  <2>1. put[p] \in HeaderType /\ put[p] = mem[p] /\ mem[p].data_size \in Nat
    <3> HIDE DEF put, p
    <3> QED
      BY <1>1, <1>2, <1>7, Fields
  <2>2. mem[p].data_size + (b - a) \in Nat /\ mem[p].data_size <= mem[p].data_size + (b - a)
    <3> HIDE DEF p
    <3> QED
      BY <1>1, <2>1
  <2>3. h = [put[p] EXCEPT !.data_size = mem[p].data_size + (b - a), !.next = b]
    BY <2>1 DEF HeaderType
  <2> HIDE DEF put, p, h
  <2> QED
    BY <2>1, <2>2, <2>3 DEF HeaderType
<1>9. Memory(moved) /\ DOMAIN moved = DOMAIN put /\ \A c \in DOMAIN put : moved[c] = IF c = p THEN h ELSE put[c]
  <2> HIDE DEF h, put, p
  <2> QED
    BY <1>4, <1>7, <1>8, Set
<1>10. /\ g \in HeaderType /\ g.data_size = x /\ g.next = Null
       /\ g.prev = p /\ g.allocated = FALSE
  <2>1. moved[b] = first
    <3> HIDE DEF moved, first, p, put, h
    <3> QED
      BY <1>7, <1>9
  <2> HIDE DEF moved, first, p
  <2> QED
    BY <1>3, <2>1 DEF HeaderType
<1>11. Memory(mid) /\ DOMAIN mid = DOMAIN put /\ \A c \in DOMAIN put : mid[c] = IF c = b THEN g ELSE moved[c]
  <2>1. b \in DOMAIN moved
    <3> HIDE DEF moved, put
    <3> QED
      BY <1>7, <1>9
  <2> HIDE DEF g, moved, put
  <2> QED
    BY <1>9, <1>10, <2>1, Set
<1>12. K \subseteq DOMAIN mid /\ mid[b] = g /\ mid[p] = h /\ \A c \in L \ {a, p} : mid[c] = mem[c]
  <2> HIDE DEF g, moved, put, mid, p, h, first
  <2>1. \A c \in L \ {a, p} : c \in DOMAIN put /\ mid[c] = moved[c] /\ moved[c] = put[c] /\ put[c] = mem[c]
    BY <1>5, <1>9, <1>11
  <2> QED
    BY <1>5, <1>7, <1>9, <1>11, <2>1
<1>13. Moved(mem, mid, L, a, b)
  <2>1. /\ mid[b].next = Null /\ mid[b].prev = p
        /\ mid[p].data_size = mem[p].data_size + (b - a)
        /\ mid[p].next = b /\ mid[p].prev = mem[p].prev
    <3> HIDE DEF g, mid, p, h
    <3> QED
      BY <1>8, <1>10, <1>12
  <2>2. \A c \in L \ {a, p} : /\ mid[c].data_size = mem[c].data_size
                              /\ mid[c].next = mem[c].next /\ mid[c].prev = mem[c].prev
    <3> HIDE DEF mid, p
    <3> QED
      BY <1>12
  <2> HIDE DEF mid
  <2> QED
    BY <2>1, <2>2 DEF Moved
<1>14. Linked(mid, K, pool)
  <2>1. K \subseteq DOMAIN mid /\ Memory(mid)
    BY <1>11, <1>12
  <2> HIDE DEF mid
  <2> QED
    BY <1>13, <2>1, MoveKeeps
<1>15. Given(mid, K) = Given(mem, L)
  <2>1. mid[b].allocated = FALSE /\ \A c \in L \ {a} : mid[c].allocated = mem[c].allocated
    <3> HIDE DEF mid, p, g, h
    <3> QED
      BY <1>8, <1>10, <1>12
  <2> HIDE DEF mid
  <2> QED
    BY <1>6, <2>1 DEF Given
<1>16. \A c \in Given(mem, L) : mem[c].data_size <= mid[c].data_size
  <2>1. \A c \in L : mem[c].data_size \in Nat
    BY <1>1, Fields
  <2>2. \A c \in L \ {a} : mem[c].data_size <= mid[c].data_size
    <3> HIDE DEF mid, p, h
    <3> QED
      BY <1>8, <1>12, <2>1
  <2> HIDE DEF mid
  <2> QED
    BY <2>2 DEF Given
<1>17. b \notin Given(mem, L)
  BY <1>6 DEF Given
<1>18. mid[b].data_size = x /\ mid[b].next = Null /\ b \in DOMAIN moved
  <2> HIDE DEF mid, g, moved, put
  <2> QED
    BY <1>7, <1>9, <1>10, <1>12
<1>19. moved = move_header(mem, a, b)
  BY <1>2 DEF move_header
<1>20. mid = Resized(move_header(mem, a, b), b, x)
  <2> HIDE DEF moved
  <2> QED
    BY <1>19 DEF Resized
<1>21. Relocated(mem, mid, L, K, b, x)
  <2> HIDE DEF mid
  <2> QED
    BY <1>15, <1>16, <1>17, <1>18 DEF Relocated
<1> HIDE DEF mid, moved
<1> QED
  BY <1>9, <1>11, <1>14, <1>18, <1>19, <1>20, <1>21

(* mid is the heap after the move, before the block is handed out.         *)
MovedAndCarved(mem, new, L, M, a, b, n, pool) ==
  LET K == (L \ {a}) \cup {b} IN
  \E mid : /\ mid[b].next = Null /\ b \notin Given(mem, L) /\ Given(mid, K) = Given(mem, L)
           /\ \A c \in Given(mem, L) : mem[c].data_size <= mid[c].data_size
           /\ Carved(mid, new, K, M, b, data_start(b) + n, n)
           /\ M = K \/ block_end(mid, b) = pool

LEMMA MoveAndCarve ==
  ASSUME NEW mem, NEW L, NEW pool \in Nat, Memory(mem), Linked(mem, L, pool),
         NEW a \in L, a # 0, block_end(mem, a) = pool, mem[a].next = Null, a \notin Given(mem, L),
         NEW b \in Nat, a < b, NEW n \in Nat, data_start(b) + n <= pool
  PROVE  LET new == destroy([split_moved(mem, a, b, data_start(b) + n) EXCEPT ![b].allocated = TRUE],
                            data_start(b), n)
         IN  Memory(new) /\ \E M : /\ Linked(new, M, pool)
                                   /\ MovedAndCarved(mem, new, L, M, a, b, n, pool)
<1> DEFINE d == data_start(b)
           s == d + n
           K == (L \ {a}) \cup {b}
           moved == move_header(mem, a, b)
           Mid(x) == Resized(moved, b, x)
           split == split_moved(mem, a, b, s)
           new == destroy([split EXCEPT ![b].allocated = TRUE], d, n)
<1>1. /\ d \in Nat /\ s \in Nat /\ d <= pool /\ s <= pool /\ d = b + HeaderSize /\ b < d
      /\ HeaderSize \in Nat \ {0}
  BY HeapAssumption DEF data_start
<1>2. ASSUME NEW x \in Nat
      PROVE  /\ b \in DOMAIN moved /\ Memory(moved)
             /\ Memory(Mid(x)) /\ Linked(Mid(x), K, pool)
             /\ Mid(x)[b].data_size = x /\ Mid(x)[b].next = Null
             /\ b \notin Given(mem, L) /\ Given(Mid(x), K) = Given(mem, L)
             /\ \A c \in Given(mem, L) : mem[c].data_size <= Mid(x)[c].data_size
  <2>1. data_start(b) <= pool
    BY <1>1
  <2>2. b \in DOMAIN move_header(mem, a, b) /\ Memory(move_header(mem, a, b))
    BY <2>1, Move
  <2>3. Memory(Resized(move_header(mem, a, b), b, x))
    BY <2>1, Move
  <2>4. Linked(Resized(move_header(mem, a, b), b, x), (L \ {a}) \cup {b}, pool)
    BY <2>1, Move
  <2>5. Relocated(mem, Resized(move_header(mem, a, b), b, x), L, (L \ {a}) \cup {b}, b, x)
    BY <2>1, Move
  <2> QED
    BY <2>2, <2>3, <2>4, <2>5 DEF Relocated
<1>3. ASSUME NEW x \in Nat
      PROVE  block_end(Mid(x), b) = d + x
  <2>1. Mid(x)[b].data_size = x
    BY <1>2
  <2> HIDE DEF Mid
  <2> QED
    BY <2>1 DEF block_end
<1>4. b \in K
  OBVIOUS
<1>5. CASE pool - s <= HeaderSize
  <2> DEFINE mid == Mid(pool - b)
  <2>1. pool - b \in Nat /\ d + n <= d + (pool - b)
    <3> HIDE DEF d
    <3> QED
      BY <1>1
  <2>2. split = mid
    <3>1. block_end(mem, a) = pool /\ ~(block_end(mem, a) - s > HeaderSize)
      <4> HIDE DEF s
      <4> QED
        BY <1>1, <1>5
    <3>2. split = Resized(moved, b, block_end(mem, a) - b)
      <4> HIDE DEF s
      <4> QED
        BY <3>1, Zenon DEF split_moved, Resized
    <3> QED
      BY <3>1, <3>2
  <2>3. d + n <= block_end(mid, b)
    <3> HIDE DEF Mid
    <3> QED
      BY <1>3, <2>1
  <2>4. Memory(mid) /\ Linked(mid, K, pool)
    <3> HIDE DEF Mid
    <3> QED
      BY <1>2, <2>1
  <2>5. Memory(new) /\ Linked(new, K, pool) /\ Carved(mid, new, K, K, b, s, n)
    <3>1. new = destroy([mid EXCEPT ![b].allocated = TRUE], d, n)
      <4> HIDE DEF mid, split
      <4> QED
        BY <2>2
    <3> HIDE DEF mid, new, K
    <3> QED
      BY <1>4, <2>3, <2>4, <3>1, CarveAll
  <2>6. MovedAndCarved(mem, new, L, K, a, b, n, pool)
    <3> HIDE DEF Mid, new
    <3> QED
      BY <1>2, <2>1, <2>5 DEF MovedAndCarved
  <2> QED
    BY <2>5, <2>6
<1>6. CASE ~(pool - s <= HeaderSize)
  <2> DEFINE mid == Mid(pool - d)
             h == [moved[b] EXCEPT !.data_size = n, !.next = s]
             linked == [moved EXCEPT ![b] = h]
             rest == pool - data_start(s)
  <2>1. pool - d \in Nat /\ d + (pool - d) = pool /\ s - d = n
    <3> HIDE DEF d
    <3> QED
      BY <1>1
  <2>2. data_start(s) <= pool /\ (pool - s) - HeaderSize = rest
    <3>1. data_start(s) = s + HeaderSize
      BY DEF data_start
    <3> HIDE DEF s
    <3> QED
      BY <1>1, <1>6, <3>1
  <2>3. Memory(mid) /\ Linked(mid, K, pool) /\ block_end(mid, b) = pool /\ mid[b].next = Null
    <3> HIDE DEF Mid
    <3> QED
      BY <1>2, <1>3, <2>1
  <2>4. b \in DOMAIN moved /\ Memory(moved) /\ moved[b] \in HeaderType
    <3>1. b \in DOMAIN moved /\ Memory(moved)
      BY <1>2, <2>1
    <3> HIDE DEF moved
    <3> QED
      BY <3>1, Fields
  <2>5. h \in HeaderType
    <3> HIDE DEF moved, s
    <3> QED
      BY <1>1, <2>4 DEF HeaderType
  <2>6. Memory(linked) /\ DOMAIN linked = DOMAIN moved /\ \A c \in DOMAIN moved : linked[c] = IF c = b THEN h ELSE moved[c]
    <3> HIDE DEF moved, h
    <3> QED
      BY <2>4, <2>5, Set
  <2>7. DOMAIN mid = DOMAIN moved /\ \A c \in DOMAIN moved : c # b => mid[c] = moved[c]
    <3> HIDE DEF moved
    <3> QED
      BY DEF Resized
  <2>8. mid[b] = [moved[b] EXCEPT !.data_size = pool - d]
    <3> HIDE DEF moved
    <3> QED
      BY <2>4 DEF Resized
  <2>9. h = [mid[b] EXCEPT !.data_size = n, !.next = s]
    <3> HIDE DEF moved, mid, s, d
    <3> QED
      BY <2>4, <2>8 DEF HeaderType
  <2>10. Cut(mid, linked, K, b, s, n)
    <3>1. K \subseteq DOMAIN mid /\ K \subseteq Nat
      <4> HIDE DEF mid, K
      <4> QED
        BY <2>3 DEF Linked, Memory
    <3>2. \A c \in K : c # Null
      <4> HIDE DEF K
      <4> QED
        BY <3>1, HeapAssumption
    <3> HIDE DEF mid, K, linked, h, moved
    <3> QED
      BY <2>3, <2>6, <2>7, <2>9, <3>1, <3>2 DEF Cut
  <2>11. linked = [moved EXCEPT ![b].data_size = n, ![b].next = s]
    OBVIOUS
  <2>12. split = put_header(linked, s, Header(rest, Null, b))
    <3>1. block_end(mem, a) - s > HeaderSize /\ (block_end(mem, a) - s) - HeaderSize = rest
      <4>1. block_end(mem, a) = pool
        OBVIOUS
      <4> HIDE DEF s, rest
      <4> QED
        BY <1>1, <1>6, <2>2, <4>1
    <3>2. split = put_header([moved EXCEPT ![b].data_size = s - data_start(b), ![b].next = s], s,
                             Header((block_end(mem, a) - s) - HeaderSize, Null, b))
      <4> HIDE DEF s
      <4> QED
        BY <3>1, Zenon DEF split_moved
    <3>3. s - data_start(b) = n
      BY <2>1
    <3>4. linked = [moved EXCEPT ![b].data_size = s - data_start(b), ![b].next = s]
      BY <2>11, <3>3
    <3> HIDE DEF moved, linked, rest, s, split
    <3> QED
      BY <3>1, <3>2, <3>4, Zenon
  <2>13. /\ Memory(new) /\ Linked(new, K \cup {s}, pool)
         /\ Carved(mid, new, K, K \cup {s}, b, s, n)
    <3>1. new = destroy([put_header(linked, s, Header(rest, mid[b].next, b))
                           EXCEPT ![b].allocated = TRUE], d, n)
      <4> HIDE DEF split, linked, rest, mid
      <4> QED
        BY <2>3, <2>12
    <3>2. DOMAIN linked = DOMAIN mid
      BY <2>6, <2>7
    <3>3. rest = block_end(mid, b) - data_start(s) /\ data_start(s) <= block_end(mid, b)
          /\ block_end(mid, b) <= pool
      <4> HIDE DEF mid, s
      <4> QED
        BY <2>2, <2>3
    <3> HIDE DEF mid, linked, new, K, rest
    <3> QED
      BY <1>4, <2>3, <2>6, <2>10, <3>1, <3>2, <3>3, CarveRest
  <2>14. MovedAndCarved(mem, new, L, K \cup {s}, a, b, n, pool)
    <3> HIDE DEF Mid, new
    <3> QED
      BY <1>2, <2>1, <2>3, <2>13 DEF MovedAndCarved
  <2> QED
    BY <2>13, <2>14
<1> QED
  BY <1>5, <1>6
-----------------------------------------------------------------------------
(* What the blocks are for                                                 *)

(* Where memory is freed, requests are whole units of every alignment,     *)
(* and none is aligned further than the header.                            *)
Orderly(l) ==
  l.may_free => \A r \in l.requests :
    /\ HeaderSize % r.alignment = 0
    /\ \A q \in l.requests : q.size % r.alignment = 0

(* Where none is freed, the first request finds its data aligned, as that  *)
(* of MemoryManager::init does: its own object, aligned to eight behind a  *)
(* header of sixteen.                                                      *)
InPlace(r) == ~load.may_free /\ live = {} => HeaderSize % r.alignment = 0
FirstInPlace == \A x \in live' : InPlace(x.request)

(* The blocks G belong to what was handed out, lv.                         *)
Owned(mem, G, lv, requests, pool) ==
  /\ G = {x.addr - HeaderSize : x \in lv}
  /\ \A x \in lv : /\ x.addr \in Nat /\ x.request \in requests
                   /\ x.request.size <= mem[x.addr - HeaderSize].data_size
                   /\ x.addr + x.request.size <= pool
                   /\ x.addr % x.request.alignment = 0
  /\ \A x, y \in lv : x.addr = y.addr => x = y

(* Where memory is freed, blocks cover the pool, in whole units, and no    *)
(* two free ones are neighbours.                                           *)
WholeShape(mem, L, G, requests, pool) ==
  /\ \A a \in L : mem[a].next = Null => block_end(mem, a) = pool
  /\ \A a \in L : mem[a].next # Null => a \in G \/ mem[a].next \in G
  /\ \A a \in L : \A r \in requests : a % r.alignment = 0

(* Where none is freed, only the last block can be free, and it ends with  *)
(* the pool then; the first block is handed out first.                     *)
BootShape(mem, L, G, pool) ==
  /\ \A a \in L : mem[a].next = Null => block_end(mem, a) = pool \/ a \in G
  /\ \A a \in L : mem[a].next # Null => a \in G
  /\ 0 \in G \/ G = {}

Blocks(mem, L, lv, ld) ==
  /\ Linked(mem, L, ld.pool)
  /\ Owned(mem, Given(mem, L), lv, ld.requests, ld.pool)
  /\ IF ld.may_free THEN WholeShape(mem, L, Given(mem, L), ld.requests, ld.pool)
     ELSE BootShape(mem, L, Given(mem, L), ld.pool)

HeapOK(mem, head, lv, ld) ==
  head = 0 /\ Memory(mem) /\ \E L : Blocks(mem, L, lv, ld)

IInv == load \in Loads /\ (Orderly(load) => ~panic /\ HeapOK(at, heap_head, live, load))

LEMMA OwnedKept ==
  ASSUME NEW mem, NEW G, NEW lv, NEW requests, NEW pool \in Nat,
         Owned(mem, G, lv, requests, pool), G \in SUBSET Nat,
         \A c \in G : mem[c].data_size \in Nat, NEW b \in Nat, b \notin G,
         NEW r \in requests, requests \subseteq [size : Nat \ {0}, alignment : Nat \ {0}],
         data_start(b) + r.size <= pool, data_start(b) % r.alignment = 0,
         NEW new, r.size <= new[b].data_size,
         \A c \in G : new[c].data_size \in Nat /\ mem[c].data_size <= new[c].data_size
  PROVE  Owned(new, G \cup {b}, lv \cup {[addr |-> data_start(b), request |-> r]}, requests, pool)
<1> DEFINE x0 == [addr |-> data_start(b), request |-> r]
           lw == lv \cup {x0}
<1>1. /\ data_start(b) \in Nat /\ data_start(b) - HeaderSize = b
      /\ x0.addr = data_start(b) /\ x0.request = r
  BY HeapAssumption DEF data_start
<1>2. G = {x.addr - HeaderSize : x \in lv}
  BY DEF Owned
<1>3. G \cup {b} = {x.addr - HeaderSize : x \in lw}
  <2> HIDE DEF x0
  <2> QED
    BY <1>1, <1>2
<1>4. ASSUME NEW x \in lv
      PROVE  /\ x.addr \in Nat /\ x.request \in requests
             /\ x.request.size <= new[x.addr - HeaderSize].data_size
             /\ x.addr + x.request.size <= pool
             /\ x.addr % x.request.alignment = 0
             /\ x.addr # data_start(b)
  <2> DEFINE c == x.addr - HeaderSize
  <2>1. c \in G
    BY <1>2
  <2>2. /\ x.addr \in Nat /\ x.request \in requests
        /\ x.request.size <= mem[c].data_size
        /\ x.addr + x.request.size <= pool
        /\ x.addr % x.request.alignment = 0
    BY DEF Owned
  <2>3. x.request.size \in Nat
    BY <2>2
  <2>4. x.addr # data_start(b)
    <3>1. c # b
      BY <2>1
    <3> QED
      BY <1>1, <3>1
  <2>5. new[c].data_size \in Nat /\ mem[c].data_size <= new[c].data_size /\ mem[c].data_size \in Nat
    <3> HIDE DEF c
    <3> QED
      BY <2>1
  <2>6. x.request.size <= new[c].data_size
    <3> HIDE DEF c
    <3> QED
      BY <2>2, <2>3, <2>5
  <2> QED
    BY <2>2, <2>4, <2>6
<1>5. \A x \in lw : /\ x.addr \in Nat /\ x.request \in requests
                    /\ x.request.size <= new[x.addr - HeaderSize].data_size
                    /\ x.addr + x.request.size <= pool
                    /\ x.addr % x.request.alignment = 0
  <2> HIDE DEF x0
  <2> QED
    BY <1>1, <1>4
<1>6. \A x, y \in lv : x.addr = y.addr => x = y
  BY DEF Owned
<1>7. \A x, y \in lw : x.addr = y.addr => x = y
  <2> HIDE DEF x0
  <2> QED
    BY <1>1, <1>4, <1>6
<1> QED
  BY <1>3, <1>5, <1>7 DEF Owned

LEMMA WholeKept ==
  ASSUME NEW mem, NEW L, NEW G, NEW requests, NEW pool, WholeShape(mem, L, G, requests, pool),
         NEW a \in L, a \notin G, G \subseteq L, Null \notin L, NEW s, NEW n,
         NEW new, NEW M, Carved(mem, new, L, M, a, s, n), G = Given(mem, L), s # Null,
         \A r \in requests : s % r.alignment = 0
  PROVE  WholeShape(new, M, Given(new, M), requests, pool)
<1> DEFINE H == G \cup {a}
<1>1. Given(new, M) = H /\ M \in {L, L \cup {s}}
  BY DEF Carved
<1>2. ASSUME NEW c \in M, new[c].next = Null
      PROVE  block_end(new, c) = pool
  BY <1>2 DEF Carved, WholeShape
<1>3. ASSUME NEW c \in M, new[c].next # Null
      PROVE  c \in H \/ new[c].next \in H
  <2>1. CASE c = a
    BY <2>1
  <2>2. CASE c \in L /\ c # a
    BY <1>3, <2>2 DEF Carved, WholeShape
  <2>3. CASE c \notin L
    BY <1>3, <2>3 DEF Carved, WholeShape
  <2> QED
    BY <2>1, <2>2, <2>3
<1>4. ASSUME NEW c \in M, NEW r \in requests
      PROVE  c % r.alignment = 0
  BY <1>1 DEF WholeShape
<1> QED
  BY <1>1, <1>2, <1>3, <1>4 DEF WholeShape

LEMMA BootKept ==
  ASSUME NEW mid, NEW K, NEW G, NEW pool, NEW b \in K, K \subseteq G \cup {b}, mid[b].next = Null,
         G = Given(mid, K), NEW s, NEW n, NEW new, NEW M, Carved(mid, new, K, M, b, s, n),
         M = K \/ block_end(mid, b) = pool, b = 0 \/ 0 \in G
  PROVE  BootShape(new, M, Given(new, M), pool)
<1>1. Given(new, M) = G \cup {b}
  BY DEF Carved
<1>2. ASSUME NEW c \in M
      PROVE  c \in G \cup {b} \/ (new[c].next = Null /\ block_end(new, c) = pool)
  BY DEF Carved
<1> QED
  BY <1>1, <1>2 DEF BootShape

LEMMA FirstGiven ==
  ASSUME NEW mem, NEW L, NEW G, NEW pool, Memory(mem), Linked(mem, L, pool),
         BootShape(mem, L, G, pool), NEW a \in L, a # 0
  PROVE  0 \in G
<1> DEFINE p == mem[a].prev
<1>1. p \in L /\ mem[p].next = a /\ a # Null
  BY Neighbours DEF Linked
<1> HIDE DEF p
<1> QED
  BY <1>1 DEF BootShape

LEMMA SumMultiple ==
  ASSUME NEW x \in Nat, NEW y \in Nat, NEW m \in Nat \ {0}, x % m = 0, y % m = 0
  PROVE  (x + y) % m = 0
<1> DEFINE i == x \div m
           k == y \div m
<1>1. i \in Nat /\ k \in Nat /\ x = m * i /\ y = m * k
  OBVIOUS
<1> HIDE DEF i, k
<1>2. x + y = m * (i + k)
  BY <1>1
<1> QED
  BY <1>1, <1>2, Multiple

(* kmalloc_common's search finds a free block of the list, and the data is *)
(* within it.                                                              *)
LEMMA Found ==
  ASSUME load \in Loads, Orderly(load), NEW L, Memory(at), heap_head = 0,
         Blocks(at, L, live, load), NEW r \in load.requests, InPlace(r), first_fit(r) # Null
  PROVE  LET a == first_fit(r)
             data == round_up(data_start(a), r.alignment)
             b == data - HeaderSize
         IN  /\ a \in L /\ a \in Nat /\ a \notin Given(at, L)
             /\ load.pool \in Nat /\ r.size \in Nat \ {0} /\ r.alignment \in Nat \ {0}
             /\ load.requests \subseteq [size : Nat \ {0}, alignment : Nat \ {0}]
             /\ b \in Nat /\ a <= b /\ data = data_start(b) /\ data % r.alignment = 0
             /\ data + r.size <= block_end(at, a) /\ block_end(at, a) <= load.pool
             /\ b # a => a # 0 /\ ~load.may_free
<1> DEFINE a == first_fit(r)
           data == round_up(data_start(a), r.alignment)
           b == data - HeaderSize
<1>1. /\ load.pool \in Nat /\ r.size \in Nat \ {0} /\ r.alignment \in Nat \ {0}
      /\ load.requests \subseteq [size : Nat \ {0}, alignment : Nat \ {0}]
  BY HeapAssumption
<1>2. Linked(at, L, load.pool)
  BY DEF Blocks
<1>3. a \in L /\ fits(at, a, r)
  BY <1>2, FirstFit
<1>4. a \in DOMAIN at /\ a \in Nat /\ a # Null
  BY <1>2, <1>3, Neighbours, <1>1
<1>5. data_start(a) \in Nat /\ data_start(a) = a + HeaderSize /\ HeaderSize \in Nat \ {0}
  BY <1>4, Fields, HeapAssumption
<1>6. a \notin Given(at, L) /\ data + r.size <= block_end(at, a)
  BY <1>3 DEF fits, Given
<1>7. /\ data \in Nat /\ data >= data_start(a) /\ data % r.alignment = 0
      /\ data_start(a) % r.alignment = 0 => data = data_start(a)
  <2> HIDE DEF a
  <2> QED
    BY <1>1, <1>5, RoundUp
<1>8. b \in Nat /\ a <= b /\ data = data_start(b)
  <2> HIDE DEF a, data
  <2> QED
    BY <1>4, <1>5, <1>7 DEF data_start
<1>9. block_end(at, a) <= load.pool
  <2>1. CASE at[a].next = Null
    <3>1. block_end(at, a) = load.pool
      BY <1>3, <1>6, <2>1 DEF Blocks, WholeShape, BootShape
    <3> QED
      BY <1>1, <3>1
  <2>2. CASE at[a].next # Null
    <3> DEFINE c == at[a].next
    <3>1. c \in L /\ c = block_end(at, a) /\ c \in DOMAIN at /\ data_start(c) <= load.pool
      BY <1>2, <1>3, <2>2 DEF Linked
    <3>2. c < data_start(c) /\ c \in Nat /\ data_start(c) \in Nat
      <4> HIDE DEF c
      <4> QED
        BY <3>1, Fields
    <3> HIDE DEF c
    <3> QED
      BY <1>1, <3>1, <3>2
  <2> QED
    BY <2>1, <2>2
<1>10. ASSUME a % r.alignment = 0, HeaderSize % r.alignment = 0
       PROVE  b = a
  <2>1. data_start(a) % r.alignment = 0
    <3> HIDE DEF a
    <3>1. (a + HeaderSize) % r.alignment = 0
      BY <1>1, <1>4, <1>5, <1>10, SumMultiple
    <3> QED
      BY <1>5, <3>1
  <2>2. data = data_start(a)
    BY <1>7, <2>1
  <2> HIDE DEF a, data
  <2> QED
    BY <1>4, <1>5, <2>2
<1>11. ASSUME load.may_free
       PROVE  b = a
  <2>1. a % r.alignment = 0 /\ HeaderSize % r.alignment = 0
    BY <1>3, <1>11 DEF Blocks, WholeShape, Orderly
  <2> QED
    BY <1>10, <2>1
<1>12. ASSUME a = 0, ~load.may_free
       PROVE  b = a
  <2>1. Given(at, L) = {}
    BY <1>6, <1>12 DEF Blocks, BootShape
  <2>2. live = {}
    BY <2>1 DEF Blocks, Owned
  <2>3. HeaderSize % r.alignment = 0
    BY <1>12, <2>2 DEF InPlace
  <2>4. 0 % r.alignment = 0
    BY <1>1
  <2> QED
    BY <1>10, <1>12, <2>3, <2>4
<1> QED
  BY <1>1, <1>3, <1>4, <1>6, <1>7, <1>8, <1>9, <1>11, <1>12

(* The block found stays where it is.                                      *)
LEMMA KmallocInPlace ==
  ASSUME load \in Loads, Orderly(load), NEW L, Memory(at), Blocks(at, L, live, load),
         NEW r \in load.requests, NEW a \in L, a \in Nat, a \notin Given(at, L),
         load.pool \in Nat, r.size \in Nat \ {0}, r.alignment \in Nat \ {0},
         load.requests \subseteq [size : Nat \ {0}, alignment : Nat \ {0}],
         data_start(a) % r.alignment = 0,
         data_start(a) + r.size <= block_end(at, a), block_end(at, a) <= load.pool
  PROVE  LET split == split_block(at, a, a, data_start(a) + r.size)
             new == destroy([split EXCEPT ![a].allocated = TRUE], data_start(a), r.size)
         IN  /\ Memory(new)
             /\ \E M : Blocks(new, M, live \cup {[addr |-> data_start(a), request |-> r]}, load)
<1> DEFINE G == Given(at, L)
           n == r.size
           s == data_start(a) + n
           split == split_block(at, a, a, s)
           new == destroy([split EXCEPT ![a].allocated = TRUE], data_start(a), n)
           lv == live \cup {[addr |-> data_start(a), request |-> r]}
           pool == load.pool
<1>1. /\ Linked(at, L, pool) /\ Owned(at, G, live, load.requests, pool)
      /\ load.may_free => WholeShape(at, L, G, load.requests, pool)
      /\ ~load.may_free => BootShape(at, L, G, pool)
  BY DEF Blocks
<1>2. /\ L \subseteq DOMAIN at /\ L \subseteq Nat /\ a \in DOMAIN at /\ data_start(a) \in Nat /\ s \in Nat /\ n \in Nat
      /\ Null \notin L /\ G \subseteq L /\ s # Null /\ data_start(a) = a + HeaderSize
      /\ HeaderSize \in Nat \ {0}
  <2>1. L \subseteq DOMAIN at /\ L \subseteq Nat /\ a \in DOMAIN at
    BY <1>1 DEF Linked, Memory
  <2>2. data_start(a) \in Nat /\ data_start(a) = a + HeaderSize /\ HeaderSize \in Nat \ {0}
    BY <2>1, Fields, HeapAssumption
  <2>3. G \subseteq L
    BY DEF Given
  <2> QED
    BY <2>1, <2>2, <2>3, HeapAssumption
<1>3. split = split_behind(at, a, s)
  <2>1. ~(at[a].next # Null /\ ~at[at[a].next].allocated)
    <3> SUFFICES ASSUME at[a].next # Null
                 PROVE  at[at[a].next].allocated
      OBVIOUS
    <3>1. a \in G \/ at[a].next \in G
      BY <1>1 DEF WholeShape, BootShape
    <3> QED
      BY <3>1 DEF Given
  <2> HIDE DEF s
  <2> QED
    BY <2>1, Zenon DEF split_block
<1>4. PICK M : Linked(new, M, pool) /\ Carved(at, new, L, M, a, s, n) /\ Memory(new)
  <2>1. s <= block_end(at, a) /\ pool \in Nat /\ block_end(at, a) <= pool
    OBVIOUS
  <2>2. Memory(new) /\ \E M : Linked(new, M, pool) /\ Carved(at, new, L, M, a, s, n)
    <3>1. new = destroy([split_behind(at, a, s) EXCEPT ![a].allocated = TRUE], data_start(a), n)
      <4> HIDE DEF s, split, n
      <4> QED
        BY <1>3
    <3> HIDE DEF new, n, pool
    <3> QED
      BY <1>1, <1>2, <2>1, <3>1, Carve DEF s
  <2> QED
    BY <2>2
<1>5. Given(new, M) = G \cup {a} /\ n <= new[a].data_size /\ M \subseteq DOMAIN new /\ a \in M
  <2>1. M \subseteq DOMAIN new
    BY <1>4 DEF Linked
  <2> HIDE DEF new, s, n
  <2> QED
    BY <1>4, <2>1 DEF Carved
<1>6. \A c \in G : new[c].data_size = at[c].data_size /\ at[c].data_size \in Nat
  <2>1. \A c \in G : c \in L /\ c # a
    BY <1>2
  <2>2. \A c \in L : at[c].data_size \in Nat
    BY <1>2, Fields
  <2> HIDE DEF new, s, n, G
  <2> QED
    BY <1>4, <2>1, <2>2 DEF Carved
<1>7. Owned(new, Given(new, M), lv, load.requests, pool)
  <2>1. /\ G \in SUBSET Nat /\ a \notin G /\ \A c \in G : at[c].data_size \in Nat
        /\ \A c \in G : new[c].data_size \in Nat /\ at[c].data_size <= new[c].data_size
    <3>1. G \in SUBSET Nat /\ a \notin G
      BY <1>2
    <3> HIDE DEF new, G
    <3> QED
      BY <1>6, <3>1
  <2>2. data_start(a) + r.size <= pool
    <3>1. block_end(at, a) \in Nat /\ data_start(a) + r.size <= block_end(at, a) /\ block_end(at, a) <= pool
      BY <1>2, Fields
    <3> HIDE DEF new
    <3> QED
      BY <1>2, <3>1
  <2>3. Owned(new, G \cup {a}, lv, load.requests, pool)
    <3>1. r.size <= new[a].data_size /\ pool \in Nat
      BY <1>5
    <3> HIDE DEF new, G, pool
    <3> QED
      BY <1>1, <2>1, <2>2, <3>1, OwnedKept
  <2> HIDE DEF new, G
  <2> QED
    BY <1>5, <2>3
<1>8. CASE load.may_free
  <2>1. \A q \in load.requests : s % q.alignment = 0
    <3> SUFFICES ASSUME NEW q \in load.requests PROVE s % q.alignment = 0
      OBVIOUS
    <3>1. q.alignment \in Nat \ {0}
      OBVIOUS
    <3>2. a % q.alignment = 0 /\ HeaderSize % q.alignment = 0 /\ n % q.alignment = 0
      BY <1>1, <1>8 DEF WholeShape, Orderly
    <3>3. data_start(a) % q.alignment = 0
      BY <1>2, <3>1, <3>2, SumMultiple
    <3> HIDE DEF n
    <3> QED
      BY <1>2, <3>1, <3>2, <3>3, SumMultiple
  <2>2. WholeShape(new, M, Given(new, M), load.requests, pool)
    <3>1. WholeShape(at, L, G, load.requests, pool)
      BY <1>1, <1>8
    <3>2. G = Given(at, L) /\ a \notin G
      OBVIOUS
    <3> HIDE DEF new, G, s, n, pool
    <3> QED
      BY <1>2, <1>4, <2>1, <3>1, <3>2, WholeKept
  <2>3. Blocks(new, M, lv, load)
    <3> HIDE DEF new, lv
    <3> QED
      BY <1>4, <1>7, <1>8, <2>2 DEF Blocks
  <2> QED
    BY <1>4, <2>3
<1>9. CASE ~load.may_free
  <2>1. BootShape(at, L, G, pool)
    BY <1>1, <1>9
  <2>2. at[a].next = Null /\ block_end(at, a) = pool
    BY <2>1 DEF BootShape
  <2>3. L \subseteq G \cup {a}
    <3> SUFFICES ASSUME NEW c \in L, c # a PROVE c \in G
      OBVIOUS
    <3>1. c \in Nat /\ block_end(at, c) <= a
      BY <1>1, <2>2, LastBlock
    <3>2. block_end(at, c) # pool
      <4>1. a < block_end(at, a) /\ block_end(at, c) \in Nat
        BY <1>2, Fields
      <4> QED
        BY <1>2, <2>2, <3>1, <4>1
    <3> QED
      BY <2>1, <3>2 DEF BootShape
  <2>4. BootShape(new, M, Given(new, M), pool)
    <3>1. G = Given(at, L)
      OBVIOUS
    <3> HIDE DEF new, G, s, n, pool
    <3>2. a = 0 \/ 0 \in G
      BY <1>1, <2>1, FirstGiven
    <3> QED
      BY <1>4, <2>2, <2>3, <3>1, <3>2, BootKept
  <2>5. Blocks(new, M, lv, load)
    <3> HIDE DEF new, lv
    <3> QED
      BY <1>4, <1>7, <1>9, <2>4 DEF Blocks
  <2> QED
    BY <1>4, <2>5
<1> QED
  BY <1>4, <1>8, <1>9

(* Its header moves up: it is the last block, and nothing is freed.        *)
LEMMA KmallocMoved ==
  ASSUME NEW L, Memory(at), Blocks(at, L, live, load), ~load.may_free,
         NEW r \in load.requests, NEW a \in L, a # 0, a \notin Given(at, L),
         load.pool \in Nat, r.size \in Nat \ {0},
         load.requests \subseteq [size : Nat \ {0}, alignment : Nat \ {0}],
         NEW b \in Nat, a < b, data_start(b) % r.alignment = 0,
         data_start(b) + r.size <= block_end(at, a)
  PROVE  LET split == split_block(at, a, b, data_start(b) + r.size)
             new == destroy([split EXCEPT ![b].allocated = TRUE], data_start(b), r.size)
         IN  /\ Memory(new)
             /\ \E M : Blocks(new, M, live \cup {[addr |-> data_start(b), request |-> r]}, load)
<1> DEFINE G == Given(at, L)
           n == r.size
           s == data_start(b) + n
           split == split_block(at, a, b, s)
           new == destroy([split EXCEPT ![b].allocated = TRUE], data_start(b), n)
           lv == live \cup {[addr |-> data_start(b), request |-> r]}
           pool == load.pool
           K == (L \ {a}) \cup {b}
<1>1. /\ Linked(at, L, pool) /\ Owned(at, G, live, load.requests, pool)
      /\ BootShape(at, L, G, pool)
  BY DEF Blocks
<1>2. /\ L \subseteq DOMAIN at /\ L \subseteq Nat /\ a \in DOMAIN at /\ a \in Nat /\ G \subseteq L
      /\ n \in Nat /\ pool \in Nat /\ a # b
  BY <1>1 DEF Linked, Memory, Given
<1>3. at[a].next = Null /\ block_end(at, a) = pool
  BY <1>1 DEF BootShape
<1>4. L \ {a} \subseteq G
  <2> SUFFICES ASSUME NEW c \in L, c # a PROVE c \in G
    OBVIOUS
  <2>1. c \in Nat /\ block_end(at, c) <= a
    BY <1>1, <1>2, <1>3, LastBlock
  <2>2. block_end(at, c) # pool
    <3>1. a < block_end(at, a) /\ block_end(at, c) \in Nat
      BY <1>2, Fields
    <3> QED
      BY <1>2, <1>3, <2>1, <3>1
  <2> QED
    BY <1>1, <2>2 DEF BootShape
<1>5. split = split_moved(at, a, b, s)
  <2> HIDE DEF s
  <2> QED
    BY <1>2, Zenon DEF split_block
<1>6. data_start(b) + n <= pool
  BY <1>3
<1>7. Memory(new) /\ \E M : Linked(new, M, pool) /\ MovedAndCarved(at, new, L, M, a, b, n, pool)
  <2>1. new = destroy([split_moved(at, a, b, data_start(b) + n) EXCEPT ![b].allocated = TRUE],
                      data_start(b), n)
    <3> HIDE DEF split, n
    <3> QED
      BY <1>5
  <2> HIDE DEF new, n, pool, G
  <2>2. a \notin Given(at, L)
    OBVIOUS
  <2> QED
    BY <1>1, <1>2, <1>3, <1>6, <2>1, <2>2, MoveAndCarve
<1>8. PICK M : Linked(new, M, pool) /\ MovedAndCarved(at, new, L, M, a, b, n, pool)
  BY <1>7
<1>9. PICK mid : /\ mid[b].next = Null /\ b \notin G /\ Given(mid, K) = G
                 /\ \A c \in G : at[c].data_size <= mid[c].data_size
                 /\ Carved(mid, new, K, M, b, s, n)
                 /\ M = K \/ block_end(mid, b) = pool
  <2> HIDE DEF new
  <2> QED
    BY <1>8 DEF MovedAndCarved
<1>10. /\ Given(new, M) = G \cup {b} /\ n <= new[b].data_size
       /\ \A c \in K \ {b} : new[c].data_size = mid[c].data_size
       /\ K \subseteq M /\ M \subseteq DOMAIN new /\ Memory(new)
  <2>1. M \subseteq DOMAIN new /\ Memory(new)
    BY <1>7, <1>8 DEF Linked
  <2> HIDE DEF new, s, n, K
  <2> QED
    BY <1>9, <2>1 DEF Carved
<1>11. ASSUME NEW c \in G
       PROVE  /\ at[c].data_size \in Nat /\ new[c].data_size \in Nat
              /\ at[c].data_size <= new[c].data_size
  <2>1. c \in L /\ c # a /\ c \in DOMAIN at
    BY <1>2
  <2>2. c \in K /\ c # b
    BY <1>9, <2>1
  <2>3. c \in DOMAIN new /\ new[c].data_size = mid[c].data_size
    <3> HIDE DEF new, K
    <3> QED
      BY <1>10, <2>2
  <2>4. at[c].data_size \in Nat
    BY <2>1, Fields
  <2>5. new[c].data_size \in Nat
    <3> HIDE DEF new
    <3> QED
      BY <1>10, <2>3, Fields
  <2>6. at[c].data_size <= mid[c].data_size
    BY <1>9
  <2> HIDE DEF new
  <2> QED
    BY <2>3, <2>4, <2>5, <2>6
<1>12. Owned(new, Given(new, M), lv, load.requests, pool)
  <2>1. G \in SUBSET Nat /\ b \notin G
    BY <1>2, <1>9
  <2>2. Owned(new, G \cup {b}, lv, load.requests, pool)
    <3>1. r.size <= new[b].data_size /\ pool \in Nat /\ data_start(b) + r.size <= pool
      BY <1>6, <1>10
    <3>2. /\ \A c \in G : at[c].data_size \in Nat
          /\ \A c \in G : new[c].data_size \in Nat /\ at[c].data_size <= new[c].data_size
      <4> HIDE DEF new, G
      <4> QED
        BY <1>11
    <3> HIDE DEF new, G, pool
    <3> QED
      BY <1>1, <2>1, <3>1, <3>2, OwnedKept
  <2> HIDE DEF new, G
  <2> QED
    BY <1>10, <2>2
<1>13. BootShape(new, M, Given(new, M), pool)
  <2>1. b \in K /\ K \subseteq G \cup {b}
    BY <1>4
  <2> HIDE DEF new, G, s, n, pool, K
  <2>2. 0 \in G
    BY <1>1, FirstGiven
  <2> QED
    BY <1>9, <2>1, <2>2, BootKept
<1>14. Blocks(new, M, lv, load)
  <2> HIDE DEF new, lv
  <2> QED
    BY <1>8, <1>12, <1>13 DEF Blocks
<1> QED
  BY <1>7, <1>14

LEMMA KmallocKeeps ==
  ASSUME load \in Loads, Orderly(load), HeapOK(at, heap_head, live, load),
         NEW r \in load.requests, InPlace(r), kmalloc(r)
  PROVE  HeapOK(at', heap_head', live', load)
<1> DEFINE a == first_fit(r)
           data == round_up(data_start(a), r.alignment)
           b == data - HeaderSize
           split == split_block(at, a, b, data + r.size)
           new == destroy([split EXCEPT ![b].allocated = TRUE], data, r.size)
           lv == live \cup {[addr |-> data, request |-> r]}
<1>1. heap_head = 0 /\ Memory(at)
  BY DEF HeapOK
<1>2. PICK L : Blocks(at, L, live, load)
  BY DEF HeapOK
<1>3. a # Null
  BY DEF kmalloc
<1>4. /\ a \in L /\ a \in Nat /\ a \notin Given(at, L)
      /\ load.pool \in Nat /\ r.size \in Nat \ {0} /\ r.alignment \in Nat \ {0}
      /\ load.requests \subseteq [size : Nat \ {0}, alignment : Nat \ {0}]
      /\ b \in Nat /\ a <= b /\ data = data_start(b) /\ data % r.alignment = 0
      /\ data + r.size <= block_end(at, a) /\ block_end(at, a) <= load.pool
      /\ b # a => a # 0 /\ ~load.may_free
  BY <1>1, <1>2, <1>3, Found
<1>5. at' = new /\ live' = lv
  BY DEF kmalloc
<1>6. heap_head' = heap_head
  <2>1. heap_head' = IF b # a /\ at[a].prev = Null /\ b - a <= HeaderSize THEN b ELSE heap_head
    BY DEF kmalloc
  <2>2. b # a => at[a].prev # Null
    <3>1. Linked(at, L, load.pool)
      BY <1>2 DEF Blocks
    <3> HIDE DEF a, b
    <3> QED
      BY <1>1, <1>4, <3>1, Neighbours
  <2> HIDE DEF a, b
  <2> QED
    BY <2>1, <2>2
<1>7. Memory(new) /\ \E M : Blocks(new, M, lv, load)
  <2>1. CASE b = a
    <3>1. /\ data_start(a) % r.alignment = 0 /\ data_start(a) + r.size <= block_end(at, a)
          /\ data = data_start(a)
      BY <1>4, <2>1
    <3> HIDE DEF a, data, b
    <3> QED
      BY <1>1, <1>2, <1>4, <2>1, <3>1, KmallocInPlace
  <2>2. CASE b # a
    <3>1. a < b /\ a # 0 /\ ~load.may_free
      <4> HIDE DEF a, b
      <4> QED
        BY <1>4, <2>2
    <3> HIDE DEF a, data, b
    <3> QED
      BY <1>1, <1>2, <1>4, <3>1, KmallocMoved
  <2> QED
    BY <2>1, <2>2
<1> HIDE DEF new, lv
<1> QED
  BY <1>1, <1>5, <1>6, <1>7 DEF HeapOK
-----------------------------------------------------------------------------
(* kfree                                                                   *)

(* What merging leaves of the list.                                        *)
Shorter(mem, new, L, left, right) ==
  /\ Given(new, L \ {right}) = Given(mem, L) \ {right}
  /\ new[left].next = mem[right].next /\ block_end(new, left) = block_end(mem, right)
  /\ \A c \in L \ {left, right} : /\ new[c].data_size = mem[c].data_size
                                  /\ new[c].next = mem[c].next
                                  /\ block_end(new, c) = block_end(mem, c)

LEMMA MergeBlocks ==
  ASSUME NEW mem, NEW L, NEW pool \in Nat, Memory(mem), Linked(mem, L, pool),
         NEW left \in L, NEW right, right = mem[left].next, right # Null
  PROVE  LET new == merge_blocks(mem, left, right) IN
         /\ right \in L /\ right # left
         /\ Memory(new) /\ Linked(new, L \ {right}, pool) /\ Shorter(mem, new, L, left, right)
<1> DEFINE next == mem[right].next
           h == [mem[left] EXCEPT !.next = next, !.data_size = @ + mem[right].data_size + HeaderSize]
           merged == [mem EXCEPT ![left] = h]
           g == [merged[next] EXCEPT !.prev = left]
           new == merge_blocks(mem, left, right)
<1>1. /\ right \in L /\ right > left /\ right \in Nat /\ left \in Nat
      /\ right \in DOMAIN mem /\ left \in DOMAIN mem /\ L \subseteq DOMAIN mem /\ right # left
  <2>1. right \in L /\ right > left
    BY Neighbours
  <2>2. L \subseteq Nat /\ L \subseteq DOMAIN mem
    BY DEF Linked, Memory
  <2> QED
    BY <2>1, <2>2
<1>2. /\ mem[left] \in HeaderType /\ mem[left].data_size \in Nat /\ mem[right].data_size \in Nat
      /\ next \in Nat \cup {Null}
  BY <1>1, Fields
<1>3. mem[left].data_size + mem[right].data_size + HeaderSize \in Nat
  BY <1>2, HeapAssumption
<1>4. h = [mem[left] EXCEPT !.next = next, !.data_size = mem[left].data_size + mem[right].data_size + HeaderSize]
  BY <1>2 DEF HeaderType
<1>5. /\ h \in HeaderType /\ h.data_size = mem[left].data_size + mem[right].data_size + HeaderSize
      /\ h.next = next /\ h.prev = mem[left].prev /\ h.allocated = mem[left].allocated
  <2> HIDE DEF h, next
  <2> QED
    BY <1>2, <1>3, <1>4 DEF HeaderType
<1>6. Memory(merged) /\ DOMAIN merged = DOMAIN mem /\ \A c \in DOMAIN mem : merged[c] = IF c = left THEN h ELSE mem[c]
  <2> HIDE DEF h
  <2> QED
    BY <1>1, <1>5, Set
<1>7. next # Null => next \in L /\ next \in DOMAIN mem /\ next # left /\ next # right
  <2> SUFFICES ASSUME next # Null
               PROVE  next \in L /\ next \in DOMAIN mem /\ next # left /\ next # right
    OBVIOUS
  <2>1. next \in L /\ next > right
    BY <1>1, Neighbours
  <2> HIDE DEF next
  <2> QED
    BY <1>1, <1>2, <2>1
<1>8. new = IF next = Null THEN merged ELSE [merged EXCEPT ![next] = g]
  <2>1. merged = [mem EXCEPT ![left].next = next,
                             ![left].data_size = @ + mem[right].data_size + HeaderSize]
    <3>1. merged = [mem EXCEPT ![left] = [mem[left] EXCEPT !.next = next,
                                 !.data_size = mem[left].data_size + mem[right].data_size + HeaderSize]]
      <4> HIDE DEF h
      <4> QED
        BY <1>4
    <3> QED
      BY <3>1
  <2> HIDE DEF merged
  <2> QED
    BY <2>1, Zenon DEF merge_blocks, next, g
<1>9. next # Null => g \in HeaderType /\ g.prev = left /\ g.next = mem[next].next
                     /\ g.data_size = mem[next].data_size /\ g.allocated = mem[next].allocated
  <2> SUFFICES ASSUME next # Null
               PROVE  g \in HeaderType /\ g.prev = left /\ g.next = mem[next].next
                      /\ g.data_size = mem[next].data_size /\ g.allocated = mem[next].allocated
    OBVIOUS
  <2>1. merged[next] = mem[next] /\ mem[next] \in HeaderType
    <3> HIDE DEF merged, next
    <3> QED
      BY <1>6, <1>7, Fields
  <2> HIDE DEF merged, next
  <2> QED
    BY <1>1, <2>1 DEF HeaderType
<1>10. Memory(new) /\ DOMAIN new = DOMAIN mem /\ new[left] = h
       /\ \A c \in L \ {left, right} : new[c] = IF c = next THEN g ELSE mem[c]
  <2>1. CASE next = Null
    <3>1. new = merged /\ \A c \in L : c # next
      <4>1. \A c \in L : c # Null
        BY HeapAssumption DEF Linked, Memory
      <4> HIDE DEF new, merged, g
      <4> QED
        BY <1>8, <2>1, <4>1
    <3> HIDE DEF new, merged, g, h
    <3> QED
      BY <1>1, <1>6, <3>1
  <2>2. CASE next # Null
    <3>1. new = [merged EXCEPT ![next] = g]
      <4> HIDE DEF new, merged, g
      <4> QED
        BY <1>8, <2>2
    <3>2. next \in DOMAIN merged /\ g \in HeaderType
      <4> HIDE DEF merged, g, next
      <4> QED
        BY <1>6, <1>7, <1>9, <2>2
    <3>3. Memory(new) /\ DOMAIN new = DOMAIN merged /\ \A c \in DOMAIN merged : new[c] = IF c = next THEN g ELSE merged[c]
      <4> HIDE DEF merged, g, next, new
      <4> QED
        BY <1>6, <3>1, <3>2, Set
    <3> HIDE DEF merged, g, next, new, h
    <3> QED
      BY <1>1, <1>6, <1>7, <2>2, <3>3
  <2> QED
    BY <2>1, <2>2
<1>11. ASSUME NEW c \in L \ {left, right}
       PROVE  /\ new[c].data_size = mem[c].data_size
              /\ new[c].next = mem[c].next /\ new[c].allocated = mem[c].allocated
              /\ new[c].prev = IF c = next THEN left ELSE mem[c].prev
  <2>1. CASE c = next
    <3>1. next # Null
      BY <2>1, HeapAssumption DEF Linked, Memory
    <3> HIDE DEF g, next, new
    <3> QED
      BY <1>9, <1>10, <2>1, <3>1
  <2>2. CASE c # next
    <3> HIDE DEF g, next, new
    <3> QED
      BY <1>10, <2>2
  <2> QED
    BY <2>1, <2>2
<1>12. Merged(mem, new, L, left, right)
  <2> HIDE DEF new, h
  <2> QED
    BY <1>5, <1>10, <1>11 DEF Merged
<1>13. Linked(new, L \ {right}, pool) /\ MergedEnds(mem, new, L, left, right)
  <2>1. L \subseteq DOMAIN new /\ Memory(new)
    BY <1>1, <1>10
  <2> HIDE DEF new
  <2> QED
    BY <1>12, <2>1, MergeKeeps
<1>14. Given(new, L \ {right}) = Given(mem, L) \ {right}
  <2>1. \A c \in L \ {right} : new[c].allocated = mem[c].allocated
    <3> HIDE DEF new, h
    <3> QED
      BY <1>5, <1>10, <1>11
  <2> HIDE DEF new
  <2> QED
    BY <2>1 DEF Given
<1>15. new[left].next = next
  <2> HIDE DEF new, h
  <2> QED
    BY <1>5, <1>10
<1>16. Shorter(mem, new, L, left, right)
  <2> HIDE DEF new
  <2> QED
    BY <1>11, <1>13, <1>14, <1>15 DEF Shorter, MergedEnds
<1> QED
  BY <1>1, <1>10, <1>13, <1>16

(* The list while block x, just freed, may have free neighbours.           *)
Around(mem, L, G, requests, pool, x) ==
  /\ x \in L /\ x \notin G
  /\ \A c \in L : mem[c].next = Null => block_end(mem, c) = pool
  /\ \A c \in L : mem[c].next # Null => c \in G \/ mem[c].next \in G \/ c = x \/ mem[c].next = x
  /\ \A c \in L : \A r \in requests : c % r.alignment = 0

GivenBefore(mem, L, G, x) == \A c \in L : mem[c].next = x => c \in G

SameSizes(mem, new, G) == \A c \in G : new[c].data_size = mem[c].data_size

(* After the block before was looked at, and after the one behind was.     *)
MergedBefore(mem, m, K, G, requests, pool) ==
  /\ Memory(m.mem) /\ Linked(m.mem, K, pool) /\ Given(m.mem, K) = G
  /\ Around(m.mem, K, G, requests, pool, m.block)
  /\ GivenBefore(m.mem, K, G, m.block) /\ SameSizes(mem, m.mem, G)

MergedBehind(mem, new, K, G, requests, pool) ==
  /\ Memory(new) /\ Linked(new, K, pool) /\ Given(new, K) = G
  /\ WholeShape(new, K, G, requests, pool) /\ SameSizes(mem, new, G)

LEMMA MergeBefore ==
  ASSUME NEW mem, NEW L, NEW pool \in Nat, NEW requests, NEW x, NEW G, Memory(mem),
         Linked(mem, L, pool), G = Given(mem, L), Around(mem, L, G, requests, pool, x)
  PROVE  \E K : MergedBefore(mem, merge_before(mem, x), K, G, requests, pool)
<1> DEFINE p == mem[x].prev
           m == merge_before(mem, x)
<1>1. x \in L /\ x \notin G /\ x # Null /\ G \subseteq L
  BY Neighbours DEF Around, Given
<1>2. p # Null => p \in L /\ mem[p].next = x /\ p # x
  <2>1. x \in Nat /\ (p # Null => p \in L /\ mem[p].next = x /\ p < x)
    BY <1>1, Neighbours
  <2> HIDE DEF p
  <2> QED
    BY <2>1
<1>3. ASSUME NEW c \in L, mem[c].next = x
      PROVE  p = c
  BY <1>1, <1>3, Neighbours
<1>4. CASE p # Null /\ ~mem[p].allocated
  <2> DEFINE new == merge_blocks(mem, p, x)
             K == L \ {x}
  <2>1. p \in L /\ p \notin G /\ mem[p].next = x /\ p # x
    BY <1>2, <1>4 DEF Given
  <2>2. Memory(new) /\ Linked(new, K, pool) /\ Shorter(mem, new, L, p, x)
    <3> HIDE DEF p
    <3> QED
      BY <1>1, <2>1, MergeBlocks
  <2>3. /\ Given(new, K) = G
        /\ new[p].next = mem[x].next /\ block_end(new, p) = block_end(mem, x)
        /\ \A c \in L \ {p, x} : /\ new[c].data_size = mem[c].data_size
                                 /\ new[c].next = mem[c].next
                                 /\ block_end(new, c) = block_end(mem, c)
    <3> HIDE DEF new, p
    <3> QED
      BY <1>1, <2>2 DEF Shorter
  <2>4. m.mem = new /\ m.block = p
    BY <1>4 DEF merge_before
  <2>5. Around(new, K, G, requests, pool, p)
    <3>1. \A c \in L : mem[c].next # Null => c \in G \/ mem[c].next \in G \/ c = x \/ mem[c].next = x
      BY DEF Around
    <3>2. \A c \in L : mem[c].next = Null => block_end(mem, c) = pool
      BY DEF Around
    <3>3. \A c \in L : \A r \in requests : c % r.alignment = 0
      BY DEF Around
    <3> HIDE DEF new, p
    <3>4. \A c \in K : new[c].next = Null => block_end(new, c) = pool
      BY <1>1, <2>3, <3>2
    <3>5. ASSUME NEW c \in K, new[c].next # Null, c # p
          PROVE  c \in G \/ new[c].next \in G
      <4>1. new[c].next = mem[c].next
        BY <2>3, <3>5
      <4>2. mem[c].next # x
        BY <1>3, <3>5
      <4> QED
        BY <3>1, <3>5, <4>1, <4>2
    <3> QED
      BY <2>1, <3>3, <3>4, <3>5 DEF Around
  <2>6. GivenBefore(new, K, G, p)
    <3> SUFFICES ASSUME NEW c \in K, new[c].next = p PROVE c \in G
      BY DEF GivenBefore
    <3>1. c # p
      <4>1. p \in K
        BY <2>1
      <4> HIDE DEF new, p
      <4>2. p # Null /\ p \in Nat
        BY <2>1, Neighbours
      <4>3. new[p].next # p
        <5> SUFFICES ASSUME new[p].next = p PROVE FALSE
          OBVIOUS
        <5>1. new[p].next > p
          BY <2>2, <4>1, <4>2, Neighbours
        <5> QED
          BY <4>2, <5>1
      <4> QED
        BY <4>3
    <3>2. mem[c].next = p
      BY <2>3, <3>1
    <3>3. p # Null
      BY <1>4
    <3> HIDE DEF p, new
    <3> QED
      BY <2>1, <3>2, <3>3 DEF Around
  <2>7. SameSizes(mem, new, G)
    <3> HIDE DEF new, p
    <3> QED
      BY <1>1, <2>1, <2>3 DEF SameSizes
  <2>8. MergedBefore(mem, m, K, G, requests, pool)
    <3> HIDE DEF new, m, K
    <3> QED
      BY <2>2, <2>3, <2>4, <2>5, <2>6, <2>7 DEF MergedBefore
  <2> QED
    BY <2>8
<1>5. CASE ~(p # Null /\ ~mem[p].allocated)
  <2>1. m.mem = mem /\ m.block = x
    BY <1>5 DEF merge_before
  <2>2. GivenBefore(mem, L, G, x)
    <3> SUFFICES ASSUME NEW c \in L, mem[c].next = x PROVE c \in G
      BY DEF GivenBefore
    <3>1. p = c /\ c # Null
      BY <1>3, Neighbours
    <3> QED
      BY <1>5, <3>1 DEF Given
  <2>3. MergedBefore(mem, m, L, G, requests, pool)
    <3> HIDE DEF m
    <3> QED
      BY <2>1, <2>2 DEF MergedBefore, SameSizes
  <2> QED
    BY <2>3
<1> QED
  BY <1>4, <1>5

LEMMA MergeBehind ==
  ASSUME NEW mem, NEW L, NEW pool \in Nat, NEW requests, NEW x, NEW G, Memory(mem),
         Linked(mem, L, pool), G = Given(mem, L), Around(mem, L, G, requests, pool, x),
         GivenBefore(mem, L, G, x)
  PROVE  \E K : MergedBehind(mem, merge_behind(mem, x), K, G, requests, pool)
<1> DEFINE y == mem[x].next
           result == merge_behind(mem, x)
<1>1. /\ x \in L /\ x \notin G /\ x # Null /\ G \subseteq L
      /\ \A c \in L : mem[c].next = Null => block_end(mem, c) = pool
      /\ \A c \in L : \A r \in requests : c % r.alignment = 0
  BY Neighbours DEF Around, Given
<1>2. \A c \in L : mem[c].next # Null => c \in G \/ mem[c].next \in G \/ c = x
  BY DEF Around, GivenBefore
<1>3. CASE y # Null /\ ~mem[y].allocated
  <2> DEFINE new == merge_blocks(mem, x, y)
             K == L \ {y}
  <2>1. y \in L /\ y # x /\ y \notin G /\ mem[y].prev = x
    <3>1. y \in L /\ y > x /\ mem[y].prev = x /\ x \in Nat
      BY <1>1, <1>3, Neighbours
    <3>2. y # x
      <4> HIDE DEF y
      <4> QED
        BY <3>1
    <3> QED
      BY <1>3, <3>1, <3>2 DEF Given
  <2>2. Memory(new) /\ Linked(new, K, pool) /\ Shorter(mem, new, L, x, y)
    BY <1>1, <1>3, MergeBlocks
  <2>3. /\ Given(new, K) = G
        /\ new[x].next = mem[y].next /\ block_end(new, x) = block_end(mem, y)
        /\ \A c \in L \ {x, y} : /\ new[c].data_size = mem[c].data_size
                                 /\ new[c].next = mem[c].next
                                 /\ block_end(new, c) = block_end(mem, c)
    <3> HIDE DEF new, y
    <3> QED
      BY <2>1, <2>2 DEF Shorter
  <2>4. result = new
    BY <1>3 DEF merge_behind
  <2>5. WholeShape(new, K, G, requests, pool)
    <3>1. ASSUME NEW c \in K, new[c].next = Null
          PROVE  block_end(new, c) = pool
      <4> HIDE DEF new, y
      <4> QED
        BY <1>1, <2>1, <2>3, <3>1
    <3>2. ASSUME NEW c \in K, new[c].next # Null
          PROVE  c \in G \/ new[c].next \in G
      <4>1. CASE c = x
        <5> HIDE DEF new, y
        <5> QED
          BY <1>2, <2>1, <2>3, <3>2, <4>1
      <4>2. CASE c # x
        <5> HIDE DEF new, y
        <5> QED
          BY <1>2, <2>3, <3>2, <4>2
      <4> QED
        BY <4>1, <4>2
    <3> HIDE DEF new, y
    <3> QED
      BY <1>1, <3>1, <3>2 DEF WholeShape
  <2>6. SameSizes(mem, new, G)
    <3> HIDE DEF new, y
    <3> QED
      BY <1>1, <2>1, <2>3 DEF SameSizes
  <2>7. MergedBehind(mem, result, K, G, requests, pool)
    <3> HIDE DEF new, result, K
    <3> QED
      BY <2>2, <2>3, <2>4, <2>5, <2>6 DEF MergedBehind
  <2> QED
    BY <2>7
<1>4. CASE ~(y # Null /\ ~mem[y].allocated)
  <2>1. result = mem
    BY <1>4 DEF merge_behind
  <2>2. y # Null => y \in G
    BY <1>1, <1>4, Neighbours DEF Given
  <2>3. WholeShape(mem, L, G, requests, pool)
    BY <1>1, <1>2, <2>2 DEF WholeShape
  <2>4. MergedBehind(mem, result, L, G, requests, pool)
    <3> HIDE DEF result
    <3> QED
      BY <2>1, <2>3 DEF MergedBehind, SameSizes
  <2> QED
    BY <2>4
<1> QED
  BY <1>3, <1>4

(* Who holds the other blocks still holds them.                            *)
LEMMA OwnedFreed ==
  ASSUME NEW mem, NEW G, NEW lv, NEW requests, NEW pool, Owned(mem, G, lv, requests, pool),
         NEW x \in lv, NEW new, SameSizes(mem, new, G \ {x.addr - HeaderSize})
  PROVE  Owned(new, G \ {x.addr - HeaderSize}, lv \ {x}, requests, pool)
<1> DEFINE a == x.addr - HeaderSize
<1>1. /\ G = {y.addr - HeaderSize : y \in lv}
      /\ \A y, z \in lv : y.addr = z.addr => y = z
      /\ \A y \in lv : y.addr \in Nat
  BY DEF Owned
<1>2. ASSUME NEW y \in lv, y # x
      PROVE  y.addr - HeaderSize # a
  <2>1. y.addr # x.addr /\ y.addr \in Nat /\ x.addr \in Nat
    BY <1>1, <1>2
  <2> QED
    BY <2>1, HeapAssumption
<1>3. G \ {a} = {y.addr - HeaderSize : y \in lv \ {x}}
  <2> HIDE DEF a
  <2>1. a = x.addr - HeaderSize
    BY DEF a
  <2> QED
    BY <1>1, <1>2, <2>1
<1>4. ASSUME NEW y \in lv \ {x}
      PROVE  /\ y.addr \in Nat /\ y.request \in requests
             /\ y.request.size <= new[y.addr - HeaderSize].data_size
             /\ y.addr + y.request.size <= pool
             /\ y.addr % y.request.alignment = 0
  <2>1. /\ y.addr \in Nat /\ y.request \in requests
        /\ y.request.size <= mem[y.addr - HeaderSize].data_size
        /\ y.addr + y.request.size <= pool
        /\ y.addr % y.request.alignment = 0
    BY DEF Owned
  <2>2. y.addr - HeaderSize \in G \ {a}
    BY <1>3
  <2>3. new[y.addr - HeaderSize].data_size = mem[y.addr - HeaderSize].data_size
    BY <2>2 DEF SameSizes
  <2> QED
    BY <2>1, <2>3
<1>5. Owned(new, G \ {a}, lv \ {x}, requests, pool)
  <2> HIDE DEF a
  <2> QED
    BY <1>1, <1>3, <1>4 DEF Owned
<1> QED
  BY <1>5

LEMMA KfreeKeeps ==
  ASSUME load \in Loads, HeapOK(at, heap_head, live, load), NEW x \in live, kfree(x)
  PROVE  HeapOK(at', heap_head', live', load) /\ panic' = panic
<1> DEFINE a == x.addr - HeaderSize
           mem == [at EXCEPT ![a].allocated = FALSE]
           m == merge_before(mem, a)
           new == merge_behind(m.mem, m.block)
           lv == live \ {x}
<1>1. heap_head = 0 /\ Memory(at) /\ load.may_free /\ load.pool \in Nat
  BY HeapAssumption DEF HeapOK, kfree
<1>2. PICK L : Blocks(at, L, live, load)
  BY DEF HeapOK
<1> DEFINE G == Given(at, L)
           H == G \ {a}
<1>3. /\ Linked(at, L, load.pool) /\ Owned(at, G, live, load.requests, load.pool)
      /\ WholeShape(at, L, G, load.requests, load.pool)
  BY <1>1, <1>2 DEF Blocks
<1>4. a \in G /\ a \in L /\ a \in DOMAIN at
  <2>1. G = {y.addr - HeaderSize : y \in live}
    BY <1>3 DEF Owned
  <2>2. a \in G
    BY <2>1
  <2>3. L \subseteq DOMAIN at
    BY <1>3 DEF Linked
  <2> QED
    BY <2>2, <2>3 DEF Given
<1>5. at' = new /\ heap_head' = heap_head /\ live' = lv /\ panic' = panic
  BY <1>4 DEF kfree
<1>6. /\ Memory(mem) /\ DOMAIN mem = DOMAIN at
      /\ \A c \in L : /\ mem[c].data_size = at[c].data_size
                      /\ mem[c].next = at[c].next /\ mem[c].prev = at[c].prev
                      /\ mem[c].allocated <=> at[c].allocated /\ c # a
  <2> DEFINE h == [at[a] EXCEPT !.allocated = FALSE]
  <2>1. mem = [at EXCEPT ![a] = h]
    OBVIOUS
  <2>2. at[a] \in HeaderType
    BY <1>1, <1>4, Fields
  <2>3. /\ h \in HeaderType /\ h.data_size = at[a].data_size
        /\ h.next = at[a].next /\ h.prev = at[a].prev /\ ~h.allocated
    BY <2>2 DEF HeaderType
  <2>4. L \subseteq DOMAIN at
    BY <1>3 DEF Linked
  <2> HIDE DEF mem, h, a
  <2>5. /\ Memory(mem) /\ DOMAIN mem = DOMAIN at
        /\ \A c \in DOMAIN at : mem[c] = IF c = a THEN h ELSE at[c]
    BY <1>1, <1>4, <2>1, <2>3, Set
  <2> QED
    BY <2>3, <2>4, <2>5
<1>7. Given(mem, L) = H
  <2> HIDE DEF mem, a
  <2> QED
    BY <1>6, Zenon DEF Given
<1>8. Linked(mem, L, load.pool) /\ \A c \in L : block_end(mem, c) = block_end(at, c)
  <2>1. L \subseteq DOMAIN mem
    BY <1>3, <1>6 DEF Linked
  <2> HIDE DEF mem, a
  <2> QED
    BY <1>1, <1>3, <1>6, <2>1, SameKeeps
<1>9. Around(mem, L, H, load.requests, load.pool, a)
  <2> HIDE DEF mem, a, G
  <2> QED
    BY <1>3, <1>4, <1>6, <1>8 DEF Around, WholeShape
<1>10. PICK K : MergedBefore(mem, m, K, H, load.requests, load.pool)
  <2> HIDE DEF mem, a, G, H
  <2> QED
    BY <1>1, <1>6, <1>7, <1>8, <1>9, MergeBefore
<1>11. PICK M : MergedBehind(m.mem, new, M, H, load.requests, load.pool)
  <2> HIDE DEF m, H
  <2> QED
    BY <1>1, <1>10, MergeBehind DEF MergedBefore
<1>12. SameSizes(at, new, H)
  <2>1. SameSizes(mem, m.mem, H) /\ SameSizes(m.mem, new, H)
    BY <1>10, <1>11 DEF MergedBefore, MergedBehind
  <2>2. H \subseteq L
    BY DEF Given
  <2> HIDE DEF mem, m, new, H
  <2> QED
    BY <1>6, <2>1, <2>2 DEF SameSizes
<1>13. Owned(new, H, lv, load.requests, load.pool)
  <2> HIDE DEF new, G
  <2> QED
    BY <1>3, <1>12, OwnedFreed
<1>14. Memory(new) /\ Blocks(new, M, lv, load)
  <2> HIDE DEF new, lv, H
  <2> QED
    BY <1>1, <1>11, <1>13 DEF MergedBehind, Blocks
<1> HIDE DEF new, lv
<1> QED
  BY <1>1, <1>5, <1>14 DEF HeapOK
-----------------------------------------------------------------------------
(* The invariant                                                           *)

LEMMA InitOK == Init => IInv
<1> SUFFICES ASSUME Init PROVE IInv
  OBVIOUS
<1> DEFINE h == Header(load.pool - HeaderSize, Null, Null)
           L == {0}
<1>1. /\ load \in Loads /\ heap_head = 0 /\ live = {} /\ panic = FALSE
      /\ at = [a \in {0} |-> h]
  BY DEF Init
<1>2. load.pool \in Nat /\ load.pool > HeaderSize /\ HeaderSize \in Nat
  BY <1>1, HeapAssumption
<1>3. /\ h \in HeaderType /\ h.data_size = load.pool - HeaderSize
      /\ h.next = Null /\ h.prev = Null /\ h.allocated = FALSE
  BY <1>2 DEF Header, HeaderType
<1> HIDE DEF h
<1>4. Memory(at)
  <2>1. IsFiniteSet({0})
    BY FS_Singleton
  <2> QED
    BY <1>1, <1>3, <2>1 DEF Memory
<1>5. block_end(at, 0) = load.pool /\ data_start(0) = HeaderSize
  BY <1>1, <1>2, <1>3 DEF block_end, data_start
<1>6. Linked(at, L, load.pool)
  BY <1>1, <1>2, <1>3, <1>5 DEF Linked
<1>7. Given(at, L) = {}
  BY <1>1, <1>3, Zenon DEF Given
<1>8. Owned(at, {}, live, load.requests, load.pool)
  BY <1>1 DEF Owned
<1>9. WholeShape(at, L, {}, load.requests, load.pool)
  <2>1. ASSUME NEW r \in load.requests
        PROVE  0 % r.alignment = 0
    <3>1. r.alignment \in Nat \ {0}
      BY <1>1, HeapAssumption
    <3> QED
      BY <3>1
  <2> QED
    BY <1>1, <1>3, <1>5, <2>1 DEF WholeShape
<1>10. BootShape(at, L, {}, load.pool)
  BY <1>1, <1>3, <1>5 DEF BootShape
<1>11. Blocks(at, L, live, load)
  BY <1>6, <1>7, <1>8, <1>9, <1>10 DEF Blocks
<1> QED
  BY <1>1, <1>4, <1>11 DEF IInv, HeapOK

LEMMA StepOK == IInv /\ [Next]_vars /\ [FirstInPlace]_vars => IInv'
<1> SUFFICES ASSUME IInv, [Next]_vars, [FirstInPlace]_vars PROVE IInv'
  OBVIOUS
<1>1. CASE Orderly(load)
  <2>1. load \in Loads /\ ~panic /\ HeapOK(at, heap_head, live, load)
    BY <1>1 DEF IInv
  <2>2. CASE UNCHANGED vars
    BY <2>1, <2>2 DEF IInv, vars
  <2>3. ASSUME NEW r \in load.requests, kmalloc(r), FirstInPlace
        PROVE  IInv'
    <3>1. InPlace(r)
      <4> DEFINE x == [addr |-> round_up(data_start(first_fit(r)), r.alignment), request |-> r]
      <4>1. x \in live' /\ x.request = r
        BY <2>3 DEF kmalloc
      <4> HIDE DEF x
      <4> QED
        BY <2>3, <4>1 DEF FirstInPlace
    <3>2. HeapOK(at', heap_head', live', load)
      BY <1>1, <2>1, <2>3, <3>1, KmallocKeeps
    <3>3. load' = load /\ panic' = panic
      BY <2>3 DEF kmalloc
    <3> QED
      BY <2>1, <3>2, <3>3 DEF IInv
  <2>4. ASSUME NEW x \in live, kfree(x)
        PROVE  IInv'
    <3>1. HeapOK(at', heap_head', live', load) /\ panic' = panic
      BY <2>1, <2>4, KfreeKeeps
    <3>2. load' = load
      BY <2>4 DEF kfree
    <3> QED
      BY <2>1, <3>1, <3>2 DEF IInv
  <2> QED
    BY <2>2, <2>3, <2>4 DEF Next
<1>2. CASE ~Orderly(load)
  <2>1. load' = load
    BY DEF Next, kmalloc, kfree, vars
  <2> QED
    BY <1>2, <2>1 DEF IInv
<1> QED
  BY <1>1, <1>2

(* Whatever is asked for and freed, in any order: the headers form one     *)
(* list of blocks in the order of their addresses, none reaching into the  *)
(* next, the allocated ones are those handed out, and kfree never panics;  *)
(* for whole units that may be freed, and for requests of any size and     *)
(* alignment behind a first one that needs none.                           *)
THEOREM HeapInvariant == Spec /\ [][FirstInPlace]_vars => []IInv
<1> QED
  BY InitOK, StepOK, PTL DEF Spec

LEMMA Safe ==
  ASSUME IInv, Orderly(load)
  PROVE  AllocationsAreSafe
<1>1. load \in Loads /\ Memory(at) /\ load.pool \in Nat
  BY HeapAssumption DEF IInv, HeapOK
<1>2. PICK L : Blocks(at, L, live, load)
  BY DEF IInv, HeapOK
<1> DEFINE G == Given(at, L)
<1>3. Linked(at, L, load.pool) /\ Owned(at, G, live, load.requests, load.pool)
  BY <1>2 DEF Blocks
<1>4. ASSUME NEW x \in live
      PROVE  /\ x.addr - HeaderSize \in L /\ x.addr - HeaderSize \in DOMAIN at
             /\ x.addr % x.request.alignment = 0 /\ x.addr + x.request.size <= load.pool
             /\ x.addr \in Nat /\ x.request.size \in Nat
             /\ x.request.size <= at[x.addr - HeaderSize].data_size
  <2>1. /\ x.addr - HeaderSize \in G
        /\ x.addr % x.request.alignment = 0 /\ x.addr + x.request.size <= load.pool
        /\ x.addr \in Nat /\ x.request \in load.requests
        /\ x.request.size <= at[x.addr - HeaderSize].data_size
    BY <1>3 DEF Owned
  <2>2. x.addr - HeaderSize \in L /\ L \subseteq DOMAIN at
    BY <1>3, <2>1 DEF Given, Linked
  <2>3. x.request.size \in Nat
    BY <1>1, <2>1, HeapAssumption
  <2> QED
    BY <2>1, <2>2, <2>3
<1>5. ASSUME NEW x \in live, NEW y \in live, x.addr < y.addr
      PROVE  x.addr + x.request.size + HeaderSize <= y.addr
  <2> DEFINE a == x.addr - HeaderSize
             c == y.addr - HeaderSize
  <2>1. a \in L /\ c \in L /\ a \in DOMAIN at /\ a \in Nat /\ c \in Nat
    BY <1>1, <1>3, <1>4 DEF Linked, Memory
  <2>2. x.addr = a + HeaderSize /\ y.addr = c + HeaderSize
    BY <1>4, HeapAssumption
  <2>3. x.request.size <= at[a].data_size /\ x.request.size \in Nat
    BY <1>4
  <2> HIDE DEF a, c
  <2>4. a < c
    BY <1>5, <2>1, <2>2, HeapAssumption
  <2>5. block_end(at, a) <= c
    BY <1>3, <2>1, <2>4 DEF Linked
  <2>6. block_end(at, a) = a + HeaderSize + at[a].data_size /\ at[a].data_size \in Nat
    BY <1>1, <2>1, Fields, HeapAssumption
  <2> QED
    BY <2>1, <2>2, <2>3, <2>5, <2>6, HeapAssumption
<1>6. ASSUME NEW x \in live, NEW y \in live, x # y
      PROVE  x.addr < y.addr \/ y.addr < x.addr
  <2>1. x.addr # y.addr
    BY <1>3, <1>6 DEF Owned
  <2> QED
    BY <1>4, <2>1
<1> QED
  BY <1>4, <1>5, <1>6 DEF AllocationsAreSafe

LEMMA Sound ==
  ASSUME IInv, Orderly(load)
  PROVE  ListIsSound /\ NoBlockLost /\ FreedMemoryIsReusable
<1>1. load \in Loads /\ Memory(at) /\ load.pool \in Nat /\ heap_head = 0
  BY HeapAssumption DEF IInv, HeapOK
<1>2. PICK L : Blocks(at, L, live, load)
  BY DEF IInv, HeapOK
<1> DEFINE G == Given(at, L)
<1>3. Linked(at, L, load.pool) /\ Owned(at, G, live, load.requests, load.pool)
  BY <1>2 DEF Blocks
<1>4. /\ Chain \in Seq(L) /\ Len(Chain) >= 1 /\ Chain[1] = 0 /\ ToSet(Chain) = L
      /\ at[Last(Chain)].next = Null
      /\ \A i \in 1..Len(Chain) - 1 : at[Chain[i]].next = Chain[i + 1]
  BY <1>1, <1>3, ChainIsList
<1>5. G = {x.addr - HeaderSize : x \in live} /\ G \subseteq L
  BY <1>3 DEF Owned, Given
<1>6. Null \notin L
  BY <1>1, <1>3, HeapAssumption DEF Linked, Memory
<1>7. ListIsSound
  <2>1. ToSet(Chain) \subseteq DOMAIN at /\ at[heap_head].prev = Null
    BY <1>1, <1>3, <1>4 DEF Linked
  <2>2. ASSUME NEW i \in 1..Len(Chain) - 1
        PROVE  block_end(at, Chain[i]) = Chain[i + 1] /\ at[Chain[i + 1]].prev = Chain[i]
    <3>1. Chain[i] \in L /\ Chain[i + 1] \in L /\ at[Chain[i]].next = Chain[i + 1]
      BY <1>4
    <3>2. Chain[i + 1] # Null
      BY <1>6, <3>1
    <3> QED
      BY <1>3, <3>1, <3>2 DEF Linked
  <2>3. {a \in ToSet(Chain) : at[a].allocated} = {x.addr - HeaderSize : x \in live}
    BY <1>4, <1>5, Zenon DEF Given
  <2> QED
    BY <2>1, <2>2, <2>3 DEF ListIsSound
<1>8. NoBlockLost
  BY <1>4, <1>5 DEF NoBlockLost
<1>9. FreedMemoryIsReusable
  <2> SUFFICES ASSUME load.may_free PROVE FreedMemoryIsReusable
    BY DEF FreedMemoryIsReusable
  <2>1. WholeShape(at, L, G, load.requests, load.pool)
    BY <1>2 DEF Blocks
  <2>2. Last(Chain) \in L
    BY <1>4 DEF Last
  <2>3. block_end(at, Last(Chain)) = load.pool
    BY <1>4, <2>1, <2>2 DEF WholeShape
  <2>4. ASSUME NEW i \in 1..Len(Chain) - 1
        PROVE  at[Chain[i]].allocated \/ at[Chain[i + 1]].allocated
    <3>1. Chain[i] \in L /\ Chain[i + 1] \in L /\ at[Chain[i]].next = Chain[i + 1]
      BY <1>4
    <3>2. Chain[i + 1] # Null
      BY <1>6, <3>1
    <3>3. Chain[i] \in G \/ Chain[i + 1] \in G
      BY <2>1, <3>1, <3>2 DEF WholeShape
    <3> QED
      BY <3>3, Zenon DEF Given
  <2> QED
    BY <1>1, <2>3, <2>4 DEF FreedMemoryIsReusable
<1> QED
  BY <1>7, <1>8, <1>9

(* Memory handed out by kmalloc is aligned, within the pool and apart from *)
(* all other memory handed out and its headers, for the same requests.     *)
THEOREM MemoryIsSafe == Spec /\ [][FirstInPlace]_vars => [](Orderly(load) => AllocationsAreSafe)
<1>1. IInv => (Orderly(load) => AllocationsAreSafe)
  BY Safe
<1> QED
  BY <1>1, HeapInvariant, PTL

(* The chain from heap_head holds every block once, in the order of their  *)
(* addresses, and the allocated ones are those handed out.                 *)
THEOREM ListStaysSound == Spec /\ [][FirstInPlace]_vars => [](Orderly(load) => ListIsSound)
<1>1. IInv => (Orderly(load) => ListIsSound)
  BY Sound
<1> QED
  BY <1>1, HeapInvariant, PTL

(* No block handed out is cut off from the list by split_block.            *)
THEOREM NothingIsLost == Spec /\ [][FirstInPlace]_vars => [](Orderly(load) => NoBlockLost)
<1>1. IInv => (Orderly(load) => NoBlockLost)
  BY Sound
<1> QED
  BY <1>1, HeapInvariant, PTL

(* Where kfree is called the blocks cover the pool, and two free ones are  *)
(* never neighbours, whatever the order in which they are freed.           *)
THEOREM FreedIsMerged == Spec /\ [][FirstInPlace]_vars => [](Orderly(load) => FreedMemoryIsReusable)
<1>1. IInv => (Orderly(load) => FreedMemoryIsReusable)
  BY Sound
<1> QED
  BY <1>1, HeapInvariant, PTL
=============================================================================
