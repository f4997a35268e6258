---------------------------- MODULE Memory_proofs ---------------------------
(***************************************************************************)
(* The memory that MemoryManager sets up: the buddy allocator, for every   *)
(* memory whose number of frames is a power of two, whatever regions are   *)
(* released and whatever is requested; and the page tables, for tables and *)
(* pages of every size and every memory map.                               *)
(***************************************************************************)
EXTENDS MCBuddy, FiniteSetTheorems, SequenceTheorems, WellFoundedInduction, TLAPS

-----------------------------------------------------------------------------
(* Powers of two                                                           *)

LEMMA LeastNat ==
  ASSUME NEW T \in SUBSET Nat, T # {}
  PROVE  \E n \in T : \A m \in T : n <= m
<1>1. PICK n \in T : \A m \in T : <<m, n>> \notin OpToRel(<, Nat)
  BY NatLessThanWellFounded, WFMin
<1>2. \A m \in T : ~(m < n)
  BY <1>1 DEF OpToRel
<1> QED
  BY <1>2

(* f holds the powers up to the n-th.                                      *)
Powers(f, n) ==
  /\ f \in [0..n -> Nat]
  /\ f[0] = 1
  /\ \A k \in 1..n : f[k] = 2 * f[k - 1]

LEMMA PowersExist == \A n \in Nat : \E f : Powers(f, n)
<1> DEFINE T == {n \in Nat : ~\E f : Powers(f, n)}
<1> SUFFICES ASSUME T # {} PROVE FALSE
  OBVIOUS
<1>1. PICK n \in T : \A m \in T : n <= m
  <2>1. T \in SUBSET Nat
    OBVIOUS
  <2> HIDE DEF T
  <2> QED
    BY <2>1, LeastNat
<1>2. Powers([i \in 0..0 |-> 1], 0)
  BY DEF Powers
<1>3. n # 0 /\ n \in Nat
  BY <1>1, <1>2
<1>4. PICK f : Powers(f, n - 1)
  <2>1. n - 1 \in Nat /\ n - 1 \notin T
    BY <1>1, <1>3
  <2> QED
    BY <2>1
<1> DEFINE g == [i \in 0..n |-> IF i < n THEN f[i] ELSE 2 * f[n - 1]]
<1>5. Powers(g, n)
  BY <1>3, <1>4 DEF Powers
<1> QED
  BY <1>1, <1>5

LEMMA PowersAgree ==
  ASSUME NEW f, NEW g, NEW n \in Nat, NEW m \in Nat, Powers(f, n), Powers(g, m), n <= m
  PROVE  \A k \in 0..n : f[k] = g[k]
<1> DEFINE T == {k \in 0..n : f[k] # g[k]}
<1> SUFFICES ASSUME T # {} PROVE FALSE
  OBVIOUS
<1>1. PICK k \in T : \A l \in T : k <= l
  <2>1. T \in SUBSET Nat
    OBVIOUS
  <2> HIDE DEF T
  <2> QED
    BY <2>1, LeastNat
<1>2. k \in 1..n
  BY <1>1 DEF Powers
<1>3. k - 1 \in 0..n /\ k - 1 \notin T
  BY <1>1, <1>2
<1> QED
  BY <1>1, <1>2, <1>3 DEF Powers

LEMMA PowerRule ==
  /\ pow2 \in [Nat -> Nat]
  /\ pow2[0] = 1
  /\ \A k \in Nat \ {0} : pow2[k] = 2 * pow2[k - 1]
<1> DEFINE up(n) == CHOOSE f : Powers(f, n)
           F == [n \in Nat |-> up(n)[n]]
<1>1. \A n \in Nat : Powers(up(n), n)
  BY PowersExist
<1>2. ASSUME NEW k \in Nat \ {0}
      PROVE  up(k)[k] = 2 * up(k - 1)[k - 1]
  <2>1. k - 1 \in Nat /\ k \in Nat /\ k \in 1..k
    OBVIOUS
  <2>2. Powers(up(k), k) /\ Powers(up(k - 1), k - 1)
    BY <1>1, <2>1
  <2> HIDE DEF up
  <2>3. up(k - 1)[k - 1] = up(k)[k - 1]
    BY <2>1, <2>2, PowersAgree
  <2> QED
    BY <2>1, <2>2, <2>3 DEF Powers
<1>3. up(0)[0] = 1
  BY <1>1 DEF Powers
<1>4. F = [k \in Nat |-> IF k = 0 THEN 1 ELSE 2 * F[k - 1]]
  <2> HIDE DEF up
  <2> QED
    BY <1>2, <1>3
<1>5. pow2 = [k \in Nat |-> IF k = 0 THEN 1 ELSE 2 * pow2[k - 1]]
  <2> HIDE DEF F
  <2> QED
    BY <1>4 DEF pow2
<1>6. pow2[0] = 1 /\ \A k \in Nat \ {0} : pow2[k] = 2 * pow2[k - 1]
  BY <1>5
<1> DEFINE T == {k \in Nat : pow2[k] \notin Nat}
<1>7. T = {}
  <2> SUFFICES ASSUME T # {} PROVE FALSE
    OBVIOUS
  <2>1. T \in SUBSET Nat
    OBVIOUS
  <2>2. PICK k \in T : \A l \in T : k <= l
    <3> HIDE DEF T
    <3> QED
      BY <2>1, LeastNat
  <2>3. k \in Nat \ {0}
    BY <1>6, <2>2
  <2>4. k - 1 \in Nat /\ k - 1 \notin T
    BY <2>2, <2>3
  <2> QED
    BY <1>6, <2>2, <2>3, <2>4
<1> QED
  BY <1>5, <1>6, <1>7

(* The powers of two are what bounds the orders: each is larger than its   *)
(* exponent, and divides those that follow.                                *)
LEMMA PowerBounds == \A k \in Nat : pow2[k] \in Nat /\ pow2[k] > k /\ pow2[k + 1] = 2 * pow2[k]
<1> DEFINE T == {k \in Nat : ~(pow2[k] > k)}
<1>1. T = {}
  <2> SUFFICES ASSUME T # {} PROVE FALSE
    OBVIOUS
  <2>1. T \in SUBSET Nat
    OBVIOUS
  <2>2. PICK k \in T : \A l \in T : k <= l
    <3> HIDE DEF T
    <3> QED
      BY <2>1, LeastNat
  <2>3. k \in Nat \ {0}
    BY PowerRule, <2>2
  <2>4. k - 1 \in Nat /\ k - 1 \notin T
    BY <2>2, <2>3
  <2> QED
    BY PowerRule, <2>2, <2>3, <2>4
<1> QED
  BY <1>1, PowerRule

(* n is a multiple of u.                                                   *)
Multiple(n, u) == \E q \in Nat : n = q * u

LEMMA PowerSplits ==
  ASSUME NEW a \in Nat, NEW b \in Nat, a <= b
  PROVE  \E q \in Nat \ {0} : pow2[b] = q * pow2[a]
<1> DEFINE T == {d \in Nat : ~\E q \in Nat \ {0} : pow2[a + d] = q * pow2[a]}
<1>1. T = {}
  <2> SUFFICES ASSUME T # {} PROVE FALSE
    OBVIOUS
  <2>1. PICK d \in T : \A l \in T : d <= l
    <3>1. T \in SUBSET Nat
      OBVIOUS
    <3> HIDE DEF T
    <3> QED
      BY <3>1, LeastNat
  <2>2. d # 0
    <3>1. pow2[a + 0] = 1 * pow2[a]
      BY PowerBounds
    <3> QED
      BY <2>1, <3>1
  <2>3. d - 1 \in Nat /\ d - 1 \notin T /\ a + (d - 1) \in Nat /\ (a + (d - 1)) + 1 = a + d
    BY <2>1, <2>2
  <2>4. PICK q \in Nat \ {0} : pow2[a + (d - 1)] = q * pow2[a]
    BY <2>3
  <2>5. pow2[a + d] = 2 * (q * pow2[a])
    BY <2>3, <2>4, PowerBounds
  <2>6. 2 * (q * pow2[a]) = (2 * q) * pow2[a] /\ 2 * q \in Nat \ {0}
    BY PowerBounds
  <2> QED
    BY <2>1, <2>5, <2>6
<1>2. b - a \in Nat /\ a + (b - a) = b
  OBVIOUS
<1>3. b - a \notin T
  BY <1>1
<1> QED
  BY <1>2, <1>3

LEMMA PowersGrow ==
  ASSUME NEW a \in Nat, NEW b \in Nat, a < b
  PROVE  pow2[a] < pow2[b]
<1>1. PICK q \in Nat \ {0} : pow2[b] = q * pow2[a + 1]
  BY PowerSplits
<1>2. pow2[a + 1] > pow2[a] /\ pow2[a] \in Nat /\ pow2[a + 1] \in Nat
  BY PowerBounds
<1>3. \A x \in Nat : q * x >= x
  BY <1>1
<1> QED
  BY <1>1, <1>2, <1>3

-----------------------------------------------------------------------------
(* Orders                                                                  *)

LEMMA FloorOrder ==
  ASSUME NEW n \in Nat \ {0}
  PROVE  floor_order(n) \in 0..n /\ pow2[floor_order(n)] <= n /\ n < pow2[floor_order(n) + 1]
<1> DEFINE T == {k \in Nat : n < pow2[k + 1]}
<1>1. n \in T
  BY PowerBounds
<1>2. PICK k \in T : \A l \in T : k <= l
  <2>1. T \in SUBSET Nat
    OBVIOUS
  <2> HIDE DEF T
  <2> QED
    BY <1>1, <2>1, LeastNat
<1>3. pow2[k] <= n
  <2>1. CASE k = 0
    BY <2>1, PowerRule
  <2>2. CASE k # 0
    <3>1. k - 1 \in Nat /\ k - 1 \notin T /\ (k - 1) + 1 = k
      BY <1>2, <2>2
    <3> QED
      BY <1>2, <3>1, PowerBounds
  <2> QED
    BY <2>1, <2>2
<1>4. k \in 0..n /\ n < pow2[k + 1]
  BY <1>2, <1>3, PowerBounds
<1> QED
  BY <1>3, <1>4 DEF floor_order

LEMMA CeilOrder ==
  ASSUME NEW n \in Nat
  PROVE  /\ ceil_order(n) \in 0..n
         /\ n <= pow2[ceil_order(n)]
         /\ n > 1 => ceil_order(n) > 0 /\ pow2[ceil_order(n) - 1] < n
<1>1. CASE n <= 1
  BY <1>1, PowerRule DEF ceil_order
<1>2. CASE n > 1
  <2> DEFINE T == {k \in Nat : n <= pow2[k]}
  <2>1. n \in T
    BY PowerBounds
  <2>2. PICK k \in T : \A l \in T : k <= l
    <3>1. T \in SUBSET Nat
      OBVIOUS
    <3> HIDE DEF T
    <3> QED
      BY <2>1, <3>1, LeastNat
  <2>3. k # 0
    BY <1>2, <2>2, PowerRule
  <2>4. k - 1 \in Nat /\ k - 1 \notin T
    BY <2>2, <2>3
  <2>5. pow2[k - 1] < n
    BY <2>4, PowerBounds
  <2>6. k \in 1..n /\ n <= pow2[k]
    BY <2>2, <2>4, <2>5, PowerBounds
  <2> QED
    BY <1>2, <2>5, <2>6 DEF ceil_order
<1> QED
  BY <1>1, <1>2

(* The memories the pairs of bit_index are made for.                       *)
PowerOfTwo == \E k \in Nat \ {0} : frame_count = pow2[k]

LEMMA MaxOrder ==
  ASSUME PowerOfTwo
  PROVE  max_order \in Nat \ {0} /\ frame_count = pow2[max_order]
<1>1. PICK k \in Nat \ {0} : frame_count = pow2[k]
  BY DEF PowerOfTwo
<1>2. frame_count \in Nat /\ frame_count > 1
  BY <1>1, PowerBounds
<1>3. max_order \in Nat \ {0} /\ frame_count <= pow2[max_order] /\ pow2[max_order - 1] < frame_count
  BY <1>2, CeilOrder DEF max_order
<1>4. ~(max_order < k)
  BY <1>1, <1>3, PowersGrow, PowerBounds
<1>5. ~(k < max_order)
  <2> SUFFICES ASSUME k < max_order PROVE FALSE
    OBVIOUS
  <2>1. k <= max_order - 1 /\ max_order - 1 \in Nat
    BY <1>3
  <2>2. k = max_order - 1 \/ k < max_order - 1
    BY <2>1, <1>3
  <2> QED
    BY <1>1, <1>3, <2>1, <2>2, PowersGrow, PowerBounds
<1> QED
  BY <1>1, <1>3, <1>4, <1>5

-----------------------------------------------------------------------------
(* Chunks and their pairs                                                  *)

(* The chunks that fit: an aligned one of each order.                      *)
Places ==
  {c \in [start : 0..frame_count, order : Orders] :
     /\ \E q \in Nat : c.start = q * pow2[c.order]
     /\ c.start + pow2[c.order] - 1 <= frame_count}

Index(c) == bit_index(c.start, c.order)

(* The first frame of the pair.                                            *)
Base(c) == Index(c) * pow2[c.order + 1] - frame_count

LEMMA DivideSum ==
  ASSUME NEW H \in Nat \ {0}, NEW p \in Nat, NEW k \in Nat, NEW r \in 0..(2 * H - 1)
  PROVE  (p * (2 * H) + r + k * (2 * H)) \div (2 * H) = p + k
<1>1. p * (2 * H) + r + k * (2 * H) = (p + k) * (2 * H) + r
  OBVIOUS
<1> DEFINE D == 2 * H  s == p + k
<1>2. D \in Nat \ {0} /\ s \in Nat /\ r \in 0..(D - 1)
  OBVIOUS
<1>3. (s * D + r) \div D = s
  <2> HIDE DEF D, s
  <2> QED
    BY <1>2
<1> QED
  BY <1>1, <1>3

LEMMA Division ==
  ASSUME NEW x \in Nat, NEW D \in Nat \ {0}
  PROVE  x \div D \in Nat /\ (x \div D) * D <= x /\ x < ((x \div D) + 1) * D
<1>1. x = D * (x \div D) + (x % D) /\ x % D \in 0..(D - 1) /\ x \div D \in Nat
  OBVIOUS
<1>2. \A i \in Nat : D * i = i * D /\ (i + 1) * D = i * D + D
  OBVIOUS
<1> QED
  BY <1>1, <1>2

LEMMA OrderFacts ==
  ASSUME PowerOfTwo, NEW o \in Orders
  PROVE  /\ o \in Nat /\ o + 1 \in Nat /\ o <= max_order
         /\ pow2[o] \in Nat \ {0} /\ pow2[o + 1] = 2 * pow2[o]
         /\ o < max_order => \E k \in Nat \ {0} : frame_count = k * pow2[o + 1]
<1>1. max_order \in Nat \ {0} /\ frame_count = pow2[max_order]
  BY MaxOrder
<1>2. o \in Nat /\ o + 1 \in Nat /\ o <= max_order
  BY <1>1 DEF Orders
<1>3. pow2[o] \in Nat \ {0} /\ pow2[o + 1] = 2 * pow2[o]
  BY <1>2, PowerBounds
<1>4. o < max_order => \E k \in Nat \ {0} : frame_count = k * pow2[o + 1]
  BY <1>1, <1>2, PowerSplits
<1> QED
  BY <1>2, <1>3, <1>4

(* A chunk is one of the two of its pair.                                  *)
LEMMA PairOf ==
  ASSUME PowerOfTwo, NEW c \in Places, c.order < max_order
  PROVE  /\ Base(c) \in Nat /\ \E p \in Nat : Base(c) = p * pow2[c.order + 1]
         /\ c.start = Base(c) \/ c.start = Base(c) + pow2[c.order]
<1> DEFINE H == pow2[c.order]
<1>1. c.order \in Orders /\ c.start \in Nat
  BY BuddyAssumption DEF Places
<1>2. H \in Nat \ {0} /\ pow2[c.order + 1] = 2 * H
  BY <1>1, OrderFacts
<1>3. PICK k \in Nat \ {0} : frame_count = k * (2 * H)
  BY <1>1, <1>2, OrderFacts
<1>4. PICK q \in Nat : c.start = q * H
  BY DEF Places
<1> HIDE DEF H
<1> DEFINE p == q \div 2  r == q % 2
<1>5. p \in Nat /\ r \in 0..1 /\ q = 2 * p + r
  OBVIOUS
<1> HIDE DEF p, r
<1>6. c.start = p * (2 * H) + r * H
  <2>1. (2 * p + r) * H = p * (2 * H) + r * H
    BY <1>2, <1>5
  <2> QED
    BY <1>4, <1>5, <2>1
<1>7. r * H \in 0..(2 * H - 1) /\ (r * H = 0 \/ r * H = H)
  BY <1>2, <1>5
<1>8. Index(c) = p + k
  <2>1. (p * (2 * H) + r * H + k * (2 * H)) \div (2 * H) = p + k
    BY <1>2, <1>5, <1>7, DivideSum
  <2> QED
    BY <1>2, <1>3, <1>6, <2>1 DEF Index, bit_index
<1>9. Base(c) = p * (2 * H)
  <2>1. (p + k) * (2 * H) - k * (2 * H) = p * (2 * H)
    BY <1>2, <1>5
  <2> QED
    BY <1>2, <1>3, <1>8, <2>1 DEF Base
<1>10. p * (2 * H) \in Nat
  BY <1>2, <1>5
<1> QED
  BY <1>2, <1>5, <1>6, <1>7, <1>9, <1>10 DEF H

(* Both have one bit.                                                      *)
LEMMA IndexOfPair ==
  ASSUME PowerOfTwo, NEW o \in Orders, o < max_order, NEW p \in Nat
  PROVE  /\ bit_index(p * pow2[o + 1], o) * pow2[o + 1] - frame_count = p * pow2[o + 1]
         /\ bit_index(p * pow2[o + 1] + pow2[o], o) = bit_index(p * pow2[o + 1], o)
<1> DEFINE H == pow2[o]
<1>1. H \in Nat \ {0} /\ pow2[o + 1] = 2 * H
  BY OrderFacts
<1>2. PICK k \in Nat \ {0} : frame_count = k * (2 * H)
  BY <1>1, OrderFacts
<1> HIDE DEF H
<1>3. (p * (2 * H) + 0 + k * (2 * H)) \div (2 * H) = p + k
  BY <1>1, DivideSum
<1>4. (p * (2 * H) + H + k * (2 * H)) \div (2 * H) = p + k
  BY <1>1, DivideSum
<1>5. (p + k) * (2 * H) - k * (2 * H) = p * (2 * H) /\ p * (2 * H) \in Nat /\ k * (2 * H) \in Nat
  BY <1>1
<1>6. bit_index(p * pow2[o + 1], o) = p + k
  BY <1>1, <1>2, <1>3, <1>5 DEF bit_index
<1>7. bit_index(p * pow2[o + 1] + H, o) = p + k
  BY <1>1, <1>2, <1>4, <1>5 DEF bit_index
<1> QED
  BY <1>1, <1>2, <1>5, <1>6, <1>7 DEF H

LEMMA TopPlace ==
  ASSUME PowerOfTwo, NEW c \in Places, c.order = max_order
  PROVE  c.start = 0
<1>1. frame_count = pow2[max_order] /\ frame_count \in Nat /\ frame_count > 1
  <2>1. max_order \in Nat \ {0} /\ frame_count = pow2[max_order]
    BY MaxOrder
  <2>2. pow2[max_order] > max_order
    BY <2>1, PowerBounds
  <2> QED
    BY <2>1, <2>2, BuddyAssumption
<1>2. PICK q \in Nat : c.start = q * frame_count
  BY <1>1 DEF Places
<1>3. q * frame_count + frame_count - 1 <= frame_count
  BY <1>1, <1>2 DEF Places
<1>4. q # 0 => q * frame_count >= frame_count
  BY <1>1
<1>5. q = 0
  BY <1>1, <1>3, <1>4
<1> QED
  BY <1>1, <1>2, <1>5

(* The bits of different orders are different ones.                        *)
LEMMA OrdersApart ==
  ASSUME PowerOfTwo, NEW c \in Places, NEW d \in Places, c.order < d.order
  PROVE  Index(d) < Index(c)
<1> DEFINE D == pow2[c.order + 1]  G == pow2[d.order]  x == Index(d)  y == Index(c)
<1>1. /\ c.order \in Orders /\ c.start \in Nat /\ d.order \in Orders /\ d.start \in Nat
      /\ d.start + pow2[d.order] - 1 <= frame_count
  BY BuddyAssumption DEF Places
<1>2. c.order \in Nat /\ d.order \in Nat /\ d.order <= max_order /\ c.order < max_order /\ max_order \in Nat
  BY <1>1, OrderFacts, MaxOrder
<1>3. D \in Nat \ {0} /\ G \in Nat /\ G > 1 /\ pow2[d.order + 1] = 2 * G
  BY <1>1, <1>2, OrderFacts, PowerBounds
<1>4. PICK k \in Nat \ {0} : frame_count = k * D
  BY <1>1, <1>2, OrderFacts
<1>5. PICK t \in Nat \ {0} : G = t * D
  <2>1. c.order + 1 \in Nat /\ c.order + 1 <= d.order
    BY <1>2
  <2> QED
    BY <1>2, <2>1, PowerSplits
<1>6. frame_count \in Nat /\ c.start + frame_count \in Nat /\ d.start + frame_count \in Nat
  BY <1>1, BuddyAssumption
<1>7. y \in Nat /\ c.start + frame_count < (y + 1) * D
  BY <1>3, <1>6, Division DEF Index, bit_index
<1>8. x \in Nat /\ x * (2 * G) <= d.start + frame_count
  <2>1. 2 * G \in Nat \ {0} /\ x = (d.start + frame_count) \div (2 * G)
    BY <1>3 DEF Index, bit_index
  <2> HIDE DEF G, x
  <2> QED
    BY <1>6, <2>1, Division
<1>9. d.start + frame_count < 2 * frame_count
  BY <1>1, <1>3, <1>6
<1> HIDE DEF D, G, x, y
<1>10. k <= y
  <2>1. k * D < (y + 1) * D
    BY <1>1, <1>3, <1>4, <1>6, <1>7
  <2>2. k > y => k * D >= (y + 1) * D
    BY <1>3, <1>7
  <2> QED
    BY <1>3, <1>7, <2>1, <2>2
<1>11. x < k
  <2>1. x * G < k * D
    <3>1. x * (2 * G) = 2 * (x * G) /\ x * G \in Nat
      BY <1>3, <1>8
    <3> QED
      BY <1>4, <1>6, <1>8, <1>9, <3>1
  <2>2. G >= D
    BY <1>3, <1>5
  <2>3. x * G >= x * D
    BY <1>3, <1>8, <2>2
  <2>4. x >= k => x * D >= k * D
    BY <1>3, <1>8
  <2> QED
    BY <1>3, <1>8, <2>1, <2>3, <2>4
<1> QED
  BY <1>7, <1>8, <1>10, <1>11 DEF x, y

LEMMA SameIndex ==
  ASSUME PowerOfTwo, NEW c \in Places, NEW d \in Places, Index(c) = Index(d)
  PROVE  c.order = d.order
<1>1. c.order \in Nat /\ d.order \in Nat
  BY MaxOrder DEF Places, Orders
<1>2. Index(c) \in Int /\ Index(d) \in Int
  <2>1. \A e \in Places : Index(e) \in Int
    <3> SUFFICES ASSUME NEW e \in Places PROVE Index(e) \in Int
      OBVIOUS
    <3>1. e.order \in Orders /\ e.start + frame_count \in Nat
      BY BuddyAssumption DEF Places
    <3>2. pow2[e.order + 1] \in Nat \ {0}
      BY <3>1, OrderFacts
    <3> QED
      BY <3>1, <3>2, Division DEF Index, bit_index
  <2> QED
    BY <2>1
<1>3. ~(c.order < d.order) /\ ~(d.order < c.order)
  BY <1>2, OrdersApart
<1> QED
  BY <1>1, <1>3

(* Two that share a bit are buddies: left and right half of a chunk.       *)
Pair(c) == FrameChunk(Base(c), c.order + 1)

LEMMA PlaceType ==
  ASSUME PowerOfTwo, NEW c \in Places
  PROVE  /\ c.order \in Orders /\ c.start \in Nat /\ c.start <= frame_count
         /\ c = FrameChunk(c.start, c.order)
         /\ pow2[c.order] \in Nat \ {0} /\ pow2[c.order + 1] = 2 * pow2[c.order]
         /\ c.start \in frames_of(c) /\ frames_of(c) \subseteq 0..frame_count
<1>1. c \in [start : 0..frame_count, order : Orders] /\ c.start + pow2[c.order] - 1 <= frame_count
  BY DEF Places
<1>2. c.order \in Orders /\ c.start \in Nat /\ c.start <= frame_count /\ c = FrameChunk(c.start, c.order)
  BY <1>1, BuddyAssumption DEF FrameChunk
<1>3. pow2[c.order] \in Nat \ {0} /\ pow2[c.order + 1] = 2 * pow2[c.order]
  BY <1>2, OrderFacts
<1>4. c.start \in frames_of(c) /\ frames_of(c) \subseteq 0..frame_count
  BY <1>1, <1>2, <1>3, BuddyAssumption DEF frames_of
<1> QED
  BY <1>2, <1>3, <1>4

LEMMA Buddies ==
  ASSUME PowerOfTwo, NEW c \in Places, NEW d \in Places, Index(c) = Index(d), c # d
  PROVE  /\ d.order = c.order /\ c.order < max_order /\ Base(d) = Base(c)
         /\ \/ c.start = Base(c) /\ d.start = Base(c) + pow2[c.order]
            \/ d.start = Base(c) /\ c.start = Base(c) + pow2[c.order]
         /\ Pair(c) \in Places
         /\ frames_of(Pair(c)) = frames_of(c) \cup frames_of(d)
<1> DEFINE H == pow2[c.order]
<1>1. d.order = c.order
  BY SameIndex
<1>2. /\ c.order \in Orders /\ c.start \in Nat /\ d.start \in Nat
      /\ c = FrameChunk(c.start, c.order) /\ d = FrameChunk(d.start, c.order)
      /\ H \in Nat \ {0} /\ pow2[c.order + 1] = 2 * H
  BY <1>1, PlaceType
<1>3. c.start # d.start
  BY <1>2
<1>4. c.order < max_order /\ c.order + 1 \in Orders
  <2>1. c.order \in Nat /\ c.order <= max_order /\ max_order \in Nat
    BY <1>2, OrderFacts, MaxOrder
  <2>2. c.order # max_order
    BY <1>1, <1>3, TopPlace
  <2> QED
    BY <2>1, <2>2 DEF Orders
<1>5. Base(d) = Base(c)
  BY <1>1 DEF Base
<1>6. PICK p \in Nat : Base(c) = p * pow2[c.order + 1]
  BY <1>4, PairOf
<1>7. /\ Base(c) \in Nat
      /\ c.start = Base(c) \/ c.start = Base(c) + H
      /\ d.start = Base(c) \/ d.start = Base(c) + H
  BY <1>1, <1>4, <1>5, PairOf
<1>8. \/ c.start = Base(c) /\ d.start = Base(c) + H
      \/ d.start = Base(c) /\ c.start = Base(c) + H
  BY <1>3, <1>7
<1>9. c.start + H - 1 <= frame_count /\ d.start + H - 1 <= frame_count
  BY <1>1 DEF Places
<1>10. Base(c) + 2 * H - 1 <= frame_count
  <2> HIDE DEF H
  <2> QED
    BY <1>2, <1>7, <1>8, <1>9, BuddyAssumption
<1>11. Base(c) \in 0..frame_count
  <2> HIDE DEF H
  <2> QED
    BY <1>2, <1>7, <1>10, BuddyAssumption
<1>12. Pair(c) \in [start : 0..frame_count, order : Orders] /\ Pair(c).start = Base(c) /\ Pair(c).order = c.order + 1
  BY <1>4, <1>11 DEF Pair, FrameChunk
<1>13. Pair(c) \in Places
  BY <1>2, <1>6, <1>10, <1>12 DEF Places
<1>14. frames_of(Pair(c)) = Base(c)..(Base(c) + 2 * H - 1)
  BY <1>2, <1>12 DEF frames_of
<1>15. frames_of(c) = c.start..(c.start + H - 1) /\ frames_of(d) = d.start..(d.start + H - 1)
  BY <1>1 DEF frames_of
<1>16. frames_of(Pair(c)) = frames_of(c) \cup frames_of(d)
  <2> HIDE DEF H
  <2> QED
    BY <1>2, <1>7, <1>8, <1>14, <1>15
<1> QED
  BY <1>1, <1>4, <1>5, <1>8, <1>13, <1>16

-----------------------------------------------------------------------------
(* Sets of free chunks, with the bits that belong to them                   *)

Sound(C, R) ==
  /\ C \subseteq Places
  /\ \A c \in C : frames_of(c) \subseteq R
  /\ \A c, d \in C : c # d => frames_of(c) \cap frames_of(d) = {}

Covers(C, R) == \A x \in R : \E c \in C : x \in frames_of(c)

(* One of the two of a pair is free exactly when its bit is set.            *)
Marked(C, bits) ==
  /\ \A c \in C : Index(c) \in bits
  /\ \A c \in Places : Index(c) \in bits => \E d \in C : Index(d) = Index(c)
  /\ \A c, d \in C : Index(c) = Index(d) => c = d

(* All of R is free in the chunks of C.                                     *)
Whole(C, bits, R) == Sound(C, R) /\ Covers(C, R) /\ Marked(C, bits)

LEMMA InsertKeeps ==
  ASSUME PowerOfTwo, NEW C, NEW bits, NEW R, NEW c \in Places, frames_of(c) \subseteq R,
         Whole(C, bits, R \ frames_of(c)), Index(c) \notin bits
  PROVE  Whole(C \cup {c}, bits \cup {Index(c)}, R) /\ c \notin C
<1>1. Sound(C, R \ frames_of(c)) /\ Covers(C, R \ frames_of(c)) /\ Marked(C, bits)
  BY DEF Whole
<1>2. c \notin C
  BY <1>1 DEF Marked
<1>3. Sound(C \cup {c}, R)
  BY <1>1 DEF Sound
<1>4. Covers(C \cup {c}, R)
  BY <1>1 DEF Covers
<1>5. Marked(C \cup {c}, bits \cup {Index(c)})
  BY <1>1 DEF Marked
<1> QED
  BY <1>2, <1>3, <1>4, <1>5 DEF Whole

LEMMA MergeKeeps ==
  ASSUME PowerOfTwo, NEW C, NEW bits, NEW R, NEW c \in Places, frames_of(c) \subseteq R,
         Whole(C, bits, R \ frames_of(c)), Index(c) \in bits
  PROVE  \E d \in C :
           /\ d \in Places /\ Index(d) = Index(c) /\ d # c
           /\ frames_of(Pair(c)) \subseteq R
           /\ Whole(C \ {d}, bits \ {Index(c)}, R \ frames_of(Pair(c)))
<1>1. Sound(C, R \ frames_of(c)) /\ Covers(C, R \ frames_of(c)) /\ Marked(C, bits)
  BY DEF Whole
<1>2. PICK d \in C : Index(d) = Index(c)
  BY <1>1 DEF Marked
<1>3. d \in Places /\ frames_of(d) \subseteq R \ frames_of(c)
  BY <1>1 DEF Sound
<1>4. d # c
  BY <1>3, PlaceType
<1>5. Pair(c) \in Places /\ frames_of(Pair(c)) = frames_of(c) \cup frames_of(d)
  BY <1>2, <1>3, <1>4, Buddies
<1>6. Sound(C \ {d}, R \ frames_of(Pair(c)))
  BY <1>1, <1>5 DEF Sound
<1>7. Covers(C \ {d}, R \ frames_of(Pair(c)))
  BY <1>1, <1>5 DEF Covers
<1>8. Marked(C \ {d}, bits \ {Index(c)})
  <2>1. \A e \in C \ {d} : Index(e) \in bits \ {Index(c)}
    BY <1>1, <1>2 DEF Marked
  <2>2. ASSUME NEW e \in Places, Index(e) \in bits \ {Index(c)}
        PROVE  \E g \in C \ {d} : Index(g) = Index(e)
    BY <1>1, <1>2, <2>2 DEF Marked
  <2>3. \A e, g \in C \ {d} : Index(e) = Index(g) => e = g
    BY <1>1 DEF Marked
  <2> QED
    BY <2>1, <2>2, <2>3 DEF Marked
<1> QED
  BY <1>2, <1>3, <1>4, <1>5, <1>6, <1>7, <1>8 DEF Whole

-----------------------------------------------------------------------------
(* The lists                                                               *)

FreeIn(lists) == UNION {{FrameChunk(f, o) : f \in ToSet(lists[o])} : o \in Orders}

Lists(lists) ==
  /\ lists \in [Orders -> Seq(0..frame_count)]
  /\ \A o \in Orders : IsInjective(lists[o])

LEMMA InFree ==
  ASSUME NEW lists
  PROVE  /\ \A c \in FreeIn(lists) : c.order \in Orders /\ c.start \in ToSet(lists[c.order])
                                     /\ c = FrameChunk(c.start, c.order)
         /\ \A o \in Orders : \A f \in ToSet(lists[o]) : FrameChunk(f, o) \in FreeIn(lists)
         /\ \A f, o : FrameChunk(f, o).start = f /\ FrameChunk(f, o).order = o
  BY DEF FreeIn, FrameChunk

LEMMA RemoveFromSeq ==
  ASSUME NEW S, NEW q \in Seq(S), IsInjective(q), NEW t \in ToSet(q)
  PROVE  remove(q, t) \in Seq(S) /\ IsInjective(remove(q, t)) /\ ToSet(remove(q, t)) = ToSet(q) \ {t}
<1> DEFINE k == Len(q)
<1>1. k \in Nat /\ DOMAIN q = 1..k /\ \A i \in 1..k : q[i] \in S
  OBVIOUS
<1>2. PICK p \in 1..k : q[p] = t
  BY <1>1 DEF ToSet
<1>3. \A i \in 1..k : q[i] = t => i = p
  BY <1>1, <1>2 DEF IsInjective
<1> DEFINE r == remove(q, t)
<1>4. /\ r \in Seq(S) /\ Len(r) = k - 1
      /\ \A i \in 1..(k - 1) : r[i] = IF i < p THEN q[i] ELSE q[i + 1]
  <2>1. CASE q[1] = t
    <3>1. p = 1 /\ r = Tail(q)
      BY <1>1, <1>2, <1>3, <2>1 DEF remove
    <3> HIDE DEF r
    <3> QED
      BY <1>1, <1>2, <3>1
  <2>2. CASE q[1] # t
    <3>1. (CHOOSE j \in 1..Len(q) : q[j] = t) = p
      BY <1>2, <1>3
    <3>2. Head(q) = q[1]
      BY <1>1, <1>2
    <3>3. r = SubSeq(q, 1, p - 1) \o SubSeq(q, p + 1, k)
      BY <2>2, <3>1, <3>2 DEF remove
    <3> DEFINE a == SubSeq(q, 1, p - 1)  b == SubSeq(q, p + 1, k)
    <3>4. a \in Seq(S) /\ Len(a) = p - 1 /\ \A i \in 1..(p - 1) : a[i] = q[i]
      BY <1>1, <1>2
    <3>5. b \in Seq(S) /\ Len(b) = k - p /\ \A i \in 1..(k - p) : b[i] = q[i + p]
      <4>1. p + 1 \in Int /\ k \in Int /\ \A i \in (p + 1)..k : q[i] \in S
        BY <1>1
      <4>2. /\ b \in Seq(S) /\ Len(b) = IF p + 1 <= k THEN k - (p + 1) + 1 ELSE 0
            /\ \A i \in 1..(k - (p + 1) + 1) : b[i] = q[(p + 1) + i - 1]
        BY <4>1, SubSeqProperties
      <4> HIDE DEF b, r
      <4>3. k \in Nat /\ p \in Nat /\ p <= k
        BY <1>1
      <4> HIDE DEF k
      <4>4. k - (p + 1) + 1 = k - p /\ (k < p + 1 => k - p = 0)
        BY <4>3
      <4>5. \A i \in 1..(k - p) : (p + 1) + i - 1 = i + p
        BY <4>3
      <4> QED
        BY <4>2, <4>3, <4>4, <4>5
    <3> HIDE DEF a, b, r
    <3>6. /\ a \o b \in Seq(S) /\ Len(a \o b) = Len(a) + Len(b)
          /\ \A i \in 1..(Len(a) + Len(b)) : (a \o b)[i] = IF i <= Len(a) THEN a[i] ELSE b[i - Len(a)]
      BY <3>4, <3>5, ConcatProperties
    <3>7. r = a \o b
      BY <3>3 DEF a, b
    <3>12. r \in Seq(S) /\ Len(r) = k - 1
      <4>1. Len(a) + Len(b) = k - 1
        BY <1>1, <1>2, <3>4, <3>5
      <4> HIDE DEF k
      <4> QED
        BY <3>6, <3>7, <4>1
    <3>11. \A i \in 1..(k - 1) : r[i] = IF i < p THEN a[i] ELSE b[i - (p - 1)]
      BY <1>1, <3>4, <3>5, <3>6, <3>7
    <3>8. ASSUME NEW i \in 1..(k - 1) PROVE r[i] = IF i < p THEN q[i] ELSE q[i + 1]
      <4>1. CASE i < p
        BY <3>4, <3>11, <4>1
      <4>2. CASE ~(i < p)
        <5>1. i - (p - 1) \in 1..(k - p) /\ (i - (p - 1)) + p = i + 1
          BY <1>1, <1>2, <4>2
        <5> QED
          BY <3>5, <3>11, <4>2, <5>1
      <4> QED
        BY <4>1, <4>2
    <3> QED
      BY <3>12, <3>8
  <2> QED
    BY <2>1, <2>2
<1> HIDE DEF r
<1>5. DOMAIN r = 1..(k - 1)
  BY <1>4
<1>6. IsInjective(r)
  <2> SUFFICES ASSUME NEW a \in 1..(k - 1), NEW b \in 1..(k - 1), r[a] = r[b] PROVE a = b
    BY <1>5 DEF IsInjective
  <2>1. \A x, y \in 1..k : q[x] = q[y] => x = y
    BY <1>1 DEF IsInjective
  <2> QED
    BY <1>1, <1>2, <1>4, <2>1
<1>7. ToSet(r) = ToSet(q) \ {t}
  <2>1. ASSUME NEW x \in ToSet(r) PROVE x \in ToSet(q) \ {t}
    <3>1. PICK i \in 1..(k - 1) : x = r[i]
      BY <1>5 DEF ToSet
    <3>2. \E j \in 1..k : x = q[j] /\ j # p
      BY <1>1, <1>2, <1>4, <3>1
    <3> QED
      BY <1>1, <1>3, <3>2 DEF ToSet
  <2>2. ASSUME NEW x \in ToSet(q) \ {t} PROVE x \in ToSet(r)
    <3>1. PICK j \in 1..k : x = q[j]
      BY <1>1 DEF ToSet
    <3>2. j # p
      BY <1>2, <3>1
    <3>3. \E i \in 1..(k - 1) : x = r[i]
      <4>1. CASE j < p
        BY <1>1, <1>2, <1>4, <3>1, <4>1
      <4>2. CASE j > p
        <5>1. j - 1 \in 1..(k - 1) /\ ~(j - 1 < p) /\ (j - 1) + 1 = j
          BY <1>1, <1>2, <4>2
        <5> QED
          BY <1>4, <3>1, <5>1
      <4> QED
        BY <1>1, <1>2, <3>2, <4>1, <4>2
    <3> QED
      BY <1>5, <3>3 DEF ToSet
  <2> QED
    BY <2>1, <2>2
<1> QED
  BY <1>4, <1>6, <1>7 DEF r

LEMMA AppendToSeq ==
  ASSUME NEW S, NEW q \in Seq(S), IsInjective(q), NEW t \in S, t \notin ToSet(q)
  PROVE  Append(q, t) \in Seq(S) /\ IsInjective(Append(q, t)) /\ ToSet(Append(q, t)) = ToSet(q) \cup {t}
<1> DEFINE k == Len(q)  r == Append(q, t)
<1>1. k \in Nat /\ DOMAIN q = 1..k /\ \A i \in 1..k : q[i] \in S
  OBVIOUS
<1>2. /\ r \in Seq(S) /\ Len(r) = k + 1 /\ DOMAIN r = 1..(k + 1)
      /\ r[k + 1] = t /\ \A i \in 1..k : r[i] = q[i]
  OBVIOUS
<1>3. \A i \in 1..k : q[i] # t
  BY <1>1 DEF ToSet
<1> HIDE DEF r
<1>4. IsInjective(r)
  BY <1>1, <1>2, <1>3 DEF IsInjective
<1>5. ToSet(r) = ToSet(q) \cup {t}
  BY <1>1, <1>2 DEF ToSet
<1> QED
  BY <1>2, <1>4, <1>5 DEF r

LEMMA WithoutKeeps ==
  ASSUME NEW lists, Lists(lists), NEW c \in FreeIn(lists)
  PROVE  /\ Lists(without(lists, c.order, c.start))
         /\ FreeIn(without(lists, c.order, c.start)) = FreeIn(lists) \ {c}
<1> DEFINE o == c.order  new == without(lists, c.order, c.start)  r == remove(lists[o], c.start)
<1>1. o \in Orders /\ c.start \in ToSet(lists[o]) /\ c = FrameChunk(c.start, o)
  BY InFree
<1>2. lists[o] \in Seq(0..frame_count) /\ IsInjective(lists[o])
  BY <1>1 DEF Lists
<1>3. r \in Seq(0..frame_count) /\ IsInjective(r) /\ ToSet(r) = ToSet(lists[o]) \ {c.start}
  BY <1>1, <1>2, RemoveFromSeq
<1>4. new = [lists EXCEPT ![o] = r] /\ lists \in [Orders -> Seq(0..frame_count)]
  BY DEF without, Lists
<1> HIDE DEF r, new
<1>5. \A p \in Orders : new[p] = IF p = o THEN r ELSE lists[p]
  BY <1>1, <1>4
<1>6. Lists(new)
  BY <1>1, <1>3, <1>4, <1>5 DEF Lists
<1>7. FreeIn(new) = FreeIn(lists) \ {c}
  <2>1. ASSUME NEW d \in FreeIn(new) PROVE d \in FreeIn(lists) \ {c}
    <3>1. d.order \in Orders /\ d.start \in ToSet(new[d.order]) /\ d = FrameChunk(d.start, d.order)
      BY InFree
    <3> QED
      BY <1>1, <1>3, <1>5, <3>1, InFree
  <2>2. ASSUME NEW d \in FreeIn(lists) \ {c} PROVE d \in FreeIn(new)
    <3>1. d.order \in Orders /\ d.start \in ToSet(lists[d.order]) /\ d = FrameChunk(d.start, d.order)
      BY InFree
    <3>2. d.order # o \/ d.start # c.start
      BY <1>1, <3>1
    <3>3. d.start \in ToSet(new[d.order])
      BY <1>1, <1>3, <1>5, <3>1, <3>2
    <3> QED
      BY <3>1, <3>3, InFree
  <2> QED
    BY <2>1, <2>2
<1> QED
  BY <1>6, <1>7 DEF new

LEMMA AppendKeeps ==
  ASSUME NEW lists, Lists(lists), NEW o \in Orders, NEW f \in 0..frame_count,
         FrameChunk(f, o) \notin FreeIn(lists)
  PROVE  /\ Lists([lists EXCEPT ![o] = Append(@, f)])
         /\ FreeIn([lists EXCEPT ![o] = Append(@, f)]) = FreeIn(lists) \cup {FrameChunk(f, o)}
<1> DEFINE new == [lists EXCEPT ![o] = Append(@, f)]  r == Append(lists[o], f)
<1>1. lists[o] \in Seq(0..frame_count) /\ IsInjective(lists[o]) /\ f \notin ToSet(lists[o])
  BY InFree DEF Lists
<1>2. r \in Seq(0..frame_count) /\ IsInjective(r) /\ ToSet(r) = ToSet(lists[o]) \cup {f}
  <2> DEFINE q == lists[o]  S == 0..frame_count
  <2>1. q \in Seq(S) /\ IsInjective(q) /\ f \notin ToSet(q) /\ f \in S
    BY <1>1
  <2> HIDE DEF q, S
  <2>2. /\ Append(q, f) \in Seq(S) /\ IsInjective(Append(q, f))
        /\ ToSet(Append(q, f)) = ToSet(q) \cup {f}
    BY ONLY <2>1, AppendToSeq
  <2> QED
    BY <2>2 DEF q, S
<1>3. new = [lists EXCEPT ![o] = r] /\ lists \in [Orders -> Seq(0..frame_count)]
  BY DEF Lists
<1> HIDE DEF r, new
<1>4. \A p \in Orders : new[p] = IF p = o THEN r ELSE lists[p]
  BY <1>3
<1>5. Lists(new)
  BY <1>2, <1>3, <1>4 DEF Lists
<1>6. FreeIn(new) = FreeIn(lists) \cup {FrameChunk(f, o)}
  <2>1. ASSUME NEW d \in FreeIn(new) PROVE d \in FreeIn(lists) \cup {FrameChunk(f, o)}
    <3>1. d.order \in Orders /\ d.start \in ToSet(new[d.order]) /\ d = FrameChunk(d.start, d.order)
      BY InFree
    <3> QED
      BY <1>2, <1>4, <3>1, InFree
  <2>2. ASSUME NEW d \in FreeIn(lists) PROVE d \in FreeIn(new)
    <3>1. d.order \in Orders /\ d.start \in ToSet(lists[d.order]) /\ d = FrameChunk(d.start, d.order)
      BY InFree
    <3>2. d.start \in ToSet(new[d.order])
      BY <1>2, <1>4, <3>1
    <3> QED
      BY <3>1, <3>2, InFree
  <2>3. FrameChunk(f, o) \in FreeIn(new)
    <3>1. f \in ToSet(new[o])
      BY <1>2, <1>4
    <3> QED
      BY <3>1, InFree
  <2> QED
    BY <2>1, <2>2, <2>3
<1> QED
  BY <1>5, <1>6 DEF new

-----------------------------------------------------------------------------
(* free_pages                                                              *)

StateType ==
  [bits : SUBSET Int, lists : [Orders -> Seq(0..frame_count)],
   chunk : [0..frame_count -> Orders \cup {None}], start : Int, order : Int,
   done : BOOLEAN, crashed : BOOLEAN, left : Int]

(* frames[] knows the chunk that starts at a frame.                        *)
Pointed(C, chunks) ==
  /\ chunks \in [0..frame_count -> Orders \cup {None}]
  /\ \A c \in C : chunks[c.start] = c.order

Current(m) == FrameChunk(m.start, m.order)

Consistent(m, R) ==
  /\ Lists(m.lists)
  /\ Whole(FreeIn(m.lists), m.bits, R)
  /\ Pointed(FreeIn(m.lists), m.chunk)

(* All of R is free but the chunk that is being freed.                     *)
Freeing(m, R) ==
  /\ m \in StateType /\ m.crashed = FALSE
  /\ IF m.done THEN Consistent(m, R)
     ELSE /\ Current(m) \in Places /\ frames_of(Current(m)) \subseteq R
          /\ Consistent(m, R \ frames_of(Current(m)))

LEMMA InsertFields ==
  ASSUME NEW m \in StateType
  PROVE  /\ insert(m).bits = m.bits \cup {bit_index(m.start, m.order)}
         /\ insert(m).lists = [m.lists EXCEPT ![m.order] = Append(@, m.start)]
         /\ insert(m).chunk = [m.chunk EXCEPT ![m.start] = m.order]
         /\ insert(m).start = m.start /\ insert(m).order = m.order /\ insert(m).left = m.left
         /\ insert(m).done = TRUE /\ insert(m).crashed = m.crashed
         /\ DOMAIN insert(m) = DOMAIN m
BY DEF insert, StateType

LEMMA MergeFields ==
  ASSUME NEW m \in StateType, NEW b, NEW l, NEW c, NEW s
  PROVE  LET n == [m EXCEPT !.bits = b, !.lists = l, !.chunk = c, !.start = s, !.order = @ + 1]
         IN  /\ n.bits = b /\ n.lists = l /\ n.chunk = c /\ n.start = s /\ n.order = m.order + 1
             /\ n.left = m.left /\ n.done = m.done /\ n.crashed = m.crashed
BY DEF StateType

LEMMA MergeType ==
  ASSUME NEW m \in StateType, NEW b \in SUBSET Int, NEW l \in [Orders -> Seq(0..frame_count)],
         NEW c \in [0..frame_count -> Orders \cup {None}], NEW s \in Int, NEW o \in Int
  PROVE  [m EXCEPT !.bits = b, !.lists = l, !.chunk = c, !.start = s, !.order = o] \in StateType
BY DEF StateType

LEMMA NextNumber ==
  /\ \A x \in Int : x + 1 \in Int
  /\ \A x \in Int : \A y \in Nat \ {0} : x + y # x
OBVIOUS

LEMMA CurrentChunk ==
  ASSUME PowerOfTwo, NEW m \in StateType, Current(m) \in Places
  PROVE  /\ Current(m).start = m.start /\ Current(m).order = m.order
         /\ m.start \in 0..frame_count /\ m.order \in Orders /\ m.start \in Int /\ m.order \in Nat
         /\ Index(Current(m)) = bit_index(m.start, m.order) /\ bit_index(m.start, m.order) \in Int
<1>1. Current(m).start = m.start /\ Current(m).order = m.order
  BY DEF Current, FrameChunk
<1>2. m.start \in 0..frame_count /\ m.order \in Orders
  BY <1>1 DEF Places
<1>3. m.start \in Nat /\ m.order \in Nat /\ pow2[m.order + 1] \in Nat \ {0} /\ m.start + frame_count \in Nat
  BY <1>2, BuddyAssumption, OrderFacts
<1>4. bit_index(m.start, m.order) \in Int
  BY <1>3, Division DEF bit_index
<1> QED
  BY <1>1, <1>2, <1>3, <1>4 DEF Index

LEMMA InsertStep ==
  ASSUME PowerOfTwo, NEW m, NEW R, Freeing(m, R), m.done = FALSE,
         bit_index(m.start, m.order) \notin m.bits
  PROVE  Freeing(insert(m), R) /\ insert(m).done = TRUE /\ insert(m).left = m.left
<1> DEFINE c == Current(m)  C == FreeIn(m.lists)  n == insert(m)
<1>1. /\ m \in StateType /\ m.crashed = FALSE /\ c \in Places /\ frames_of(c) \subseteq R
      /\ Lists(m.lists) /\ Whole(C, m.bits, R \ frames_of(c)) /\ Pointed(C, m.chunk)
  BY DEF Freeing, Consistent
<1>2. /\ c.start = m.start /\ c.order = m.order /\ c = FrameChunk(m.start, m.order)
      /\ m.start \in 0..frame_count /\ m.order \in Orders /\ m.start \in Int /\ m.order \in Nat
      /\ Index(c) = bit_index(m.start, m.order) /\ bit_index(m.start, m.order) \in Int
  BY <1>1, CurrentChunk DEF Current
<1>3. Whole(C \cup {c}, m.bits \cup {Index(c)}, R) /\ c \notin C
  BY <1>1, <1>2, InsertKeeps
<1>4. Lists([m.lists EXCEPT ![m.order] = Append(@, m.start)])
      /\ FreeIn([m.lists EXCEPT ![m.order] = Append(@, m.start)]) = C \cup {c}
  <2>1. FrameChunk(m.start, m.order) \notin FreeIn(m.lists)
    BY <1>2, <1>3
  <2> HIDE DEF c, C
  <2>2. Lists([m.lists EXCEPT ![m.order] = Append(@, m.start)])
        /\ FreeIn([m.lists EXCEPT ![m.order] = Append(@, m.start)])
             = FreeIn(m.lists) \cup {FrameChunk(m.start, m.order)}
    <3>1. Lists(m.lists) /\ m.order \in Orders /\ m.start \in 0..frame_count
      BY <1>1, <1>2
    <3> QED
      BY ONLY <2>1, <3>1, AppendKeeps
  <2> QED
    BY <1>2, <2>2 DEF C
<1>5. Pointed(C \cup {c}, [m.chunk EXCEPT ![m.start] = m.order])
  <2>1. \A d \in C : d.start # c.start
    <3> SUFFICES ASSUME NEW d \in C PROVE d.start # c.start
      OBVIOUS
    <3>1. d \in Places /\ frames_of(d) \subseteq R \ frames_of(c)
      BY <1>3, <1>1 DEF Whole, Sound
    <3> QED
      BY <1>1, <3>1, PlaceType
  <2>2. \A d \in C : d.start \in 0..frame_count
    BY <1>1 DEF Whole, Sound, Places
  <2> QED
    BY <1>1, <1>2, <2>1, <2>2 DEF Pointed
<1>6. /\ n.bits = m.bits \cup {Index(c)}
      /\ n.lists = [m.lists EXCEPT ![m.order] = Append(@, m.start)]
      /\ n.chunk = [m.chunk EXCEPT ![m.start] = m.order]
      /\ n.done = TRUE /\ n.crashed = FALSE /\ n.left = m.left
  BY <1>1, <1>2, InsertFields
<1>7. Consistent(n, R)
  BY <1>3, <1>4, <1>5, <1>6 DEF Consistent
<1>8. n \in StateType
  <2> DEFINE B == m.bits \cup {Index(c)}
             L == [m.lists EXCEPT ![m.order] = Append(@, m.start)]
             K == [m.chunk EXCEPT ![m.start] = m.order]
  <2>1. B \in SUBSET Int /\ L \in [Orders -> Seq(0..frame_count)] /\ K \in [0..frame_count -> Orders \cup {None}]
    <3>1. B \in SUBSET Int
      BY <1>1, <1>2 DEF StateType
    <3> QED
      BY <1>4, <1>5, <3>1 DEF Lists, Pointed
  <2>2. n = [m EXCEPT !.bits = B, !.lists = L, !.chunk = K, !.done = TRUE]
    BY <1>1, <1>2 DEF insert, StateType
  <2> HIDE DEF B, L, K, n
  <2> QED
    BY <1>1, <2>1, <2>2 DEF StateType
<1> QED
  BY <1>6, <1>7, <1>8 DEF Freeing

LEMMA MergeStep ==
  ASSUME PowerOfTwo, NEW m, NEW R, Freeing(m, R), m.done = FALSE,
         bit_index(m.start, m.order) \in m.bits
  PROVE  /\ Freeing(merge(m), R) /\ merge(m).done = FALSE /\ merge(m).left = m.left
         /\ merge(m).order = m.order + 1
<1> DEFINE c == Current(m)  C == FreeIn(m.lists)  n == merge(m)
<1>1. /\ m \in StateType /\ m.crashed = FALSE /\ c \in Places /\ frames_of(c) \subseteq R
      /\ Lists(m.lists) /\ Whole(C, m.bits, R \ frames_of(c)) /\ Pointed(C, m.chunk)
  BY DEF Freeing, Consistent
<1>2. /\ c.start = m.start /\ c.order = m.order /\ c = FrameChunk(m.start, m.order)
      /\ m.start \in 0..frame_count /\ m.order \in Orders /\ m.start \in Int /\ m.order \in Nat
      /\ Index(c) = bit_index(m.start, m.order) /\ bit_index(m.start, m.order) \in Int
  BY <1>1, CurrentChunk DEF Current
<1>3. PICK d \in C :
        /\ d \in Places /\ Index(d) = Index(c) /\ d # c
        /\ frames_of(Pair(c)) \subseteq R
        /\ Whole(C \ {d}, m.bits \ {Index(c)}, R \ frames_of(Pair(c)))
  <2>1. Index(c) \in m.bits
    BY <1>2
  <2> HIDE DEF c, C
  <2> QED
    BY <1>1, <2>1, MergeKeeps
<1>4. /\ d.order = c.order
      /\ \/ c.start = Base(c) /\ d.start = Base(c) + pow2[c.order]
         \/ d.start = Base(c) /\ c.start = Base(c) + pow2[c.order]
      /\ Pair(c) \in Places
      /\ frames_of(Pair(c)) = frames_of(c) \cup frames_of(d)
  BY <1>1, <1>3, Buddies
<1>5. pow2[c.order] \in Nat \ {0} /\ d.start \in 0..frame_count /\ d.start \in ToSet(m.lists[m.order])
      /\ m.chunk[d.start] = m.order /\ m.order # None
  <2>1. pow2[c.order] \in Nat \ {0}
    BY <1>1, PlaceType
  <2>2. d.start \in 0..frame_count
    BY <1>3 DEF Places
  <2>3. d.start \in ToSet(m.lists[m.order])
    BY <1>2, <1>4, InFree
  <2>4. m.chunk[d.start] = m.order
    BY <1>1, <1>2, <1>4 DEF Pointed
  <2> QED
    BY <1>2, <2>1, <2>2, <2>3, <2>4, BuddyAssumption
<1>6. Base(c) = bit_index(m.start, m.order) * pow2[m.order + 1] - frame_count
  BY <1>2 DEF Base
<1> DEFINE right == Base(c) = m.start
           buddy == IF right THEN m.start + pow2[m.order] ELSE Base(c)
           gone == IF right THEN buddy ELSE m.start
           L == without(m.lists, m.order, d.start)
           B == m.bits \ {Index(c)}
           K == [m.chunk EXCEPT ![gone] = None]
<1>7. buddy = d.start /\ (IF right THEN m.start ELSE buddy) = Base(c)
      /\ gone \in {c.start, d.start}
  <2>1. Base(c) + pow2[c.order] # Base(c)
    <3>1. Base(c) \in Int
      BY <1>2, <1>4, <1>5
    <3> HIDE DEF c, C, n
    <3> QED
      BY <1>5, <3>1, NextNumber
  <2> QED
    BY <1>2, <1>4, <2>1
<1>8. n = [m EXCEPT !.bits = B, !.lists = L, !.chunk = K, !.start = Base(c), !.order = @ + 1]
  <2>1. n = IF \/ buddy \notin 0..frame_count
               \/ m.chunk[buddy] = None
               \/ buddy \notin ToSet(m.lists[m.chunk[buddy]])
            THEN [m EXCEPT !.crashed = TRUE]
            ELSE [m EXCEPT !.bits = @ \ {bit_index(m.start, m.order)},
                           !.lists = without(@, m.chunk[buddy], buddy),
                           !.chunk[gone] = None,
                           !.start = IF right THEN @ ELSE buddy,
                           !.order = @ + 1]
    BY <1>6 DEF merge
  <2>2. n = [m EXCEPT !.bits = @ \ {bit_index(m.start, m.order)},
                      !.lists = without(@, m.chunk[buddy], buddy),
                      !.chunk[gone] = None,
                      !.start = IF right THEN @ ELSE buddy,
                      !.order = @ + 1]
    <3> HIDE DEF buddy, gone, right, n
    <3> QED
      BY <1>5, <1>7, <2>1
  <2> HIDE DEF buddy, gone, right, n
  <2> QED
    BY <1>2, <1>5, <1>7, <2>2
<1>9. Lists(L) /\ FreeIn(L) = C \ {d}
  BY <1>1, <1>2, <1>4, WithoutKeeps
<1>10. Pointed(C \ {d}, K)
  <2>1. \A e \in C \ {d} : e.start # c.start /\ e.start # d.start /\ e.start \in 0..frame_count
    <3> SUFFICES ASSUME NEW e \in C \ {d}
                 PROVE e.start # c.start /\ e.start # d.start /\ e.start \in 0..frame_count
      OBVIOUS
    <3>1. e \in Places /\ frames_of(e) \subseteq R \ frames_of(Pair(c))
      BY <1>3 DEF Whole, Sound
    <3>2. e.start \in frames_of(e) /\ c.start \in frames_of(c) /\ d.start \in frames_of(d)
      BY <1>1, <1>3, <3>1, PlaceType
    <3> QED
      BY <1>4, <3>1, <3>2 DEF Places
  <2>2. K \in [0..frame_count -> Orders \cup {None}]
    BY <1>1 DEF Pointed
  <2>3. \A f \in 0..frame_count : f # gone => K[f] = m.chunk[f]
    BY <1>1 DEF Pointed
  <2> HIDE DEF K, gone
  <2> QED
    BY <1>1, <1>7, <2>1, <2>2, <2>3 DEF Pointed
<1>11. /\ n.bits = B /\ n.lists = L /\ n.chunk = K /\ n.start = Base(c) /\ n.order = m.order + 1
       /\ n.left = m.left /\ n.done = m.done /\ n.crashed = m.crashed
  <2> HIDE DEF B, L, K, n
  <2> QED
    BY <1>1, <1>8, MergeFields
<1>12. Current(n) = Pair(c)
  BY <1>2, <1>11 DEF Current, Pair
<1>13. Consistent(n, R \ frames_of(Pair(c)))
  <2> HIDE DEF B, L, K, n
  <2> QED
    BY <1>3, <1>9, <1>10, <1>11 DEF Consistent, B
<1>14. n \in StateType
  <2>1. B \in SUBSET Int /\ L \in [Orders -> Seq(0..frame_count)] /\ K \in [0..frame_count -> Orders \cup {None}]
    <3>1. B \in SUBSET Int
      BY <1>1 DEF StateType
    <3> QED
      BY <1>9, <1>10, <3>1 DEF Lists, Pointed
  <2>2. Base(c) \in Int /\ m.order + 1 \in Int
    BY <1>2, <1>4, <1>5, NextNumber
  <2> HIDE DEF B, L, K, n, c
  <2> QED
    BY <1>1, <1>8, <2>1, <2>2, MergeType
<1> QED
  <2>1. n.crashed = FALSE /\ n.done = FALSE /\ Current(n) \in Places /\ frames_of(Current(n)) \subseteq R
        /\ Consistent(n, R \ frames_of(Current(n)))
    <3> HIDE DEF n, c
    <3> QED
      BY <1>1, <1>3, <1>4, <1>11, <1>12, <1>13
  <2>2. Freeing(n, R)
    <3> HIDE DEF n
    <3> QED
      BY <1>14, <2>1 DEF Freeing
  <2> QED
    BY <1>11, <2>1, <2>2

-----------------------------------------------------------------------------
(* The loops are folds over the numbers of their turns.                    *)

LEMMA MaxOfNumbers ==
  ASSUME NEW k \in Nat, NEW s \in SUBSET (0..k), s # {}
  PROVE  Max(s) \in s /\ \A x \in s : x <= Max(s)
<1> DEFINE T == {n \in Nat : \E x \in s : n = k - x}
<1>1. T \in SUBSET Nat /\ T # {}
  <2>1. PICK x \in s : TRUE
    OBVIOUS
  <2>2. k - x \in T
    BY <2>1
  <2> QED
    BY <2>2
<1>2. PICK n \in T : \A i \in T : n <= i
  <2> HIDE DEF T
  <2> QED
    BY <1>1, LeastNat
<1>3. PICK x \in s : n = k - x
  BY <1>2
<1>4. \A y \in s : y <= x
  BY <1>2, <1>3
<1> QED
  BY <1>4 DEF Max

(* A fold that takes the numbers one by one goes along a sequence c of     *)
(* results.                                                                *)
Follows(f, k, c) ==
  /\ f = [s \in SUBSET (1..k) |-> f[s]]
  /\ f[{}] = c[0]
  /\ \A s \in SUBSET (1..k) : s # {} =>
       \E i \in 1..k : f[s] = c[i] /\ f[s \ {Max(s)}] = c[i - 1]

LEMMA FoldOver ==
  ASSUME NEW k \in Nat, NEW c
  PROVE  \E f : Follows(f, k, c)
<1> DEFINE f == [s \in SUBSET (1..k) |-> c[Cardinality(s)]]
<1>1. IsFiniteSet(1..k) /\ Cardinality(1..k) = k
  BY FS_Interval
<1>2. f[{}] = c[0]
  BY FS_EmptySet
<1>3. ASSUME NEW s \in SUBSET (1..k), s # {}
      PROVE  \E i \in 1..k : f[s] = c[i] /\ f[s \ {Max(s)}] = c[i - 1]
  <2>1. IsFiniteSet(s) /\ Cardinality(s) <= k /\ Cardinality(s) \in Nat
    BY <1>1, FS_Subset, FS_CardinalityType
  <2>2. Max(s) \in s
    BY <1>3, MaxOfNumbers
  <2>3. Cardinality(s \ {Max(s)}) = Cardinality(s) - 1
    BY <2>1, <2>2, FS_RemoveElement
  <2>4. Cardinality(s) \in 1..k
    BY <1>3, <2>1, FS_EmptySet
  <2>5. s \ {Max(s)} \in SUBSET (1..k)
    OBVIOUS
  <2> QED
    BY <2>3, <2>4, <2>5
<1>4. f = [s \in SUBSET (1..k) |-> f[s]]
  OBVIOUS
<1>5. Follows(f, k, c)
  <2> HIDE DEF f
  <2> QED
    BY <1>2, <1>3, <1>4 DEF Follows
<1> QED
  BY <1>5

LEMMA IntervalSteps ==
  ASSUME NEW k \in Nat
  PROVE  /\ 1..0 = {}
         /\ \A i \in 1..k : /\ (1..i) \in SUBSET (1..k) /\ (1..i) # {}
                            /\ (1..i) \ {Max(1..i)} = 1..(i - 1)
<1>1. ASSUME NEW i \in 1..k
      PROVE  (1..i) \in SUBSET (1..k) /\ (1..i) # {} /\ (1..i) \ {Max(1..i)} = 1..(i - 1)
  <2>1. i \in Nat /\ i \in 1..i /\ (1..i) \in SUBSET (0..i) /\ (1..i) # {}
    OBVIOUS
  <2>2. Max(1..i) \in 1..i /\ \A x \in 1..i : x <= Max(1..i)
    BY <2>1, MaxOfNumbers
  <2>3. Max(1..i) = i
    BY <2>1, <2>2
  <2> QED
    BY <2>1, <2>3
<1> QED
  BY <1>1

Turns(m, k, c) == c[0] = m /\ \A i \in 1..k : c[i] = merge_or_insert(c[i - 1])

LEMMA TurnsExist == \A k \in Nat : \A m : \E c : Turns(m, k, c)
<1> SUFFICES ASSUME NEW m PROVE \A k \in Nat : \E c : Turns(m, k, c)
  OBVIOUS
<1> DEFINE T == {k \in Nat : ~\E c : Turns(m, k, c)}
<1> SUFFICES ASSUME T # {} PROVE FALSE
  OBVIOUS
<1>1. PICK n \in T : \A l \in T : n <= l
  <2>1. T \in SUBSET Nat
    OBVIOUS
  <2> HIDE DEF T
  <2> QED
    BY <2>1, LeastNat
<1>2. Turns(m, 0, [i \in 0..0 |-> m])
  BY DEF Turns
<1>3. n # 0 /\ n \in Nat
  BY <1>1, <1>2
<1>4. PICK c : Turns(m, n - 1, c)
  <2>1. n - 1 \in Nat /\ n - 1 \notin T
    BY <1>1, <1>3
  <2> QED
    BY <2>1
<1> DEFINE d == [i \in 0..n |-> IF i < n THEN c[i] ELSE merge_or_insert(c[n - 1])]
<1>5. Turns(m, n, d)
  <2>1. \A i \in 0..(n - 1) : d[i] = c[i]
    BY <1>3
  <2>2. d[n] = merge_or_insert(c[n - 1])
    BY <1>3
  <2> HIDE DEF d
  <2> QED
    BY <1>3, <1>4, <2>1, <2>2 DEF Turns
<1> QED
  BY <1>1, <1>5

LEMMA FreePagesTurns ==
  ASSUME NEW m, max_order - m.order + 1 \in Nat
  PROVE  \E c : Turns(m, max_order - m.order + 1, c) /\ free_pages(m) = c[max_order - m.order + 1]
<1> DEFINE k == max_order - m.order + 1
           Folded(f) == [s \in SUBSET (1..k) |-> IF s = {} THEN m ELSE merge_or_insert(f[s \ {Max(s)}])]
           fold == CHOOSE f : f = Folded(f)
           r == [i \in 0..k |-> fold[1..i]]
<1>0. k \in Nat
  OBVIOUS
<1>1. free_pages(m) = fold[1..k]
  BY DEF free_pages, FoldLeft, MapThenFoldSet
<1>2. \E f : f = Folded(f)
  <2>1. PICK c : Turns(m, k, c)
    BY <1>0, TurnsExist
  <2>2. PICK f : Follows(f, k, c)
    <3> HIDE DEF k
    <3> QED
      BY <1>0, FoldOver
  <2>3. ASSUME NEW s \in SUBSET (1..k)
        PROVE  f[s] = IF s = {} THEN m ELSE merge_or_insert(f[s \ {Max(s)}])
    <3> HIDE DEF k
    <3> QED
      BY <2>1, <2>2 DEF Turns, Follows
  <2>4. Folded(f) = [s \in SUBSET (1..k) |-> f[s]]
    <3> HIDE DEF k
    <3> QED
      BY <2>3
  <2> HIDE DEF k, Folded
  <2> QED
    BY <2>2, <2>4 DEF Follows
<1>3. fold = Folded(fold)
  <2> HIDE DEF Folded
  <2> QED
    BY <1>2
<1>4. Turns(m, k, r)
  <2>1. \A s \in SUBSET (1..k) : fold[s] = IF s = {} THEN m ELSE merge_or_insert(fold[s \ {Max(s)}])
    <3> HIDE DEF fold, k
    <3> QED
      BY <1>3
  <2>2. /\ 1..0 = {}
        /\ \A i \in 1..k : /\ (1..i) \in SUBSET (1..k) /\ (1..i) # {}
                           /\ (1..i) \ {Max(1..i)} = 1..(i - 1)
    <3> HIDE DEF k
    <3> QED
      BY <1>0, IntervalSteps
  <2>3. r[0] = m
    <3>1. {} \in SUBSET (1..k)
      OBVIOUS
    <3>2. r[0] = fold[1..0]
      <4> HIDE DEF fold, k
      <4> QED
        BY <1>0
    <3> HIDE DEF fold, k, r
    <3> QED
      BY <2>1, <2>2, <3>1, <3>2
  <2>4. ASSUME NEW i \in 1..k PROVE r[i] = merge_or_insert(r[i - 1])
    <3>1. r[i] = fold[1..i] /\ r[i - 1] = fold[1..(i - 1)]
      <4> HIDE DEF fold, k
      <4> QED
        BY <1>0
    <3> HIDE DEF fold, k, r
    <3> QED
      BY <2>1, <2>2, <3>1
  <2> HIDE DEF r, k
  <2> QED
    BY <2>3, <2>4 DEF Turns
<1>5. r[k] = fold[1..k]
  <2> HIDE DEF fold, k
  <2> QED
    BY <1>0
<1> QED
  <2> HIDE DEF fold, r
  <2> QED
    BY <1>1, <1>4, <1>5

-----------------------------------------------------------------------------
(* free_pages ends with the chunk in a list, however often it merges.      *)

LEMMA StepKeeps ==
  ASSUME PowerOfTwo, NEW m, NEW R, Freeing(m, R), m.done = FALSE
  PROVE  /\ Freeing(merge_or_insert(m), R) /\ merge_or_insert(m).left = m.left
         /\ \/ merge_or_insert(m).done = TRUE
            \/ merge_or_insert(m).done = FALSE /\ merge_or_insert(m).order = m.order + 1
<1>1. m.crashed = FALSE
  BY DEF Freeing
<1>2. CASE bit_index(m.start, m.order) \in m.bits
  <2>1. merge_or_insert(m) = merge(m)
    BY <1>1, <1>2 DEF merge_or_insert
  <2> QED
    BY <1>2, <2>1, MergeStep
<1>3. CASE bit_index(m.start, m.order) \notin m.bits
  <2>1. merge_or_insert(m) = insert(m)
    BY <1>1, <1>3 DEF merge_or_insert
  <2>2. Freeing(insert(m), R) /\ insert(m).done = TRUE /\ insert(m).left = m.left
    BY <1>3, InsertStep
  <2> QED
    BY ONLY <2>1, <2>2
<1> QED
  BY <1>2, <1>3

(* What is so after i turns.                                               *)
AfterTurns(n, m, R, i) ==
  /\ Freeing(n, R) /\ n.left = m.left
  /\ n.done = TRUE \/ (n.done = FALSE /\ n.order = m.order + i)

LEMMA NextTurn ==
  ASSUME PowerOfTwo, NEW m \in StateType, NEW R, NEW i \in Nat, NEW n, AfterTurns(n, m, R, i)
  PROVE  AfterTurns(merge_or_insert(n), m, R, i + 1)
<1>1. CASE n.done = TRUE
  <2>1. merge_or_insert(n) = n
    BY <1>1 DEF merge_or_insert
  <2> QED
    BY <1>1, <2>1 DEF AfterTurns
<1>2. CASE n.done = FALSE
  <2>1. Freeing(n, R) /\ n.left = m.left /\ n.order = m.order + i
    BY <1>2 DEF AfterTurns
  <2>2. m.order \in Int
    BY DEF StateType
  <2>3. (m.order + i) + 1 = m.order + (i + 1)
    BY ONLY <2>2, i \in Nat
  <2> QED
    BY <1>2, <2>1, <2>3, StepKeeps DEF AfterTurns
<1> QED
  BY <1>1, <1>2 DEF AfterTurns

LEMMA FreePages ==
  ASSUME PowerOfTwo, NEW m, NEW R, Freeing(m, R), m.done = FALSE
  PROVE  Freeing(free_pages(m), R) /\ free_pages(m).done = TRUE /\ free_pages(m).left = m.left
<1> DEFINE k == max_order - m.order + 1
<1>1. m \in StateType /\ Current(m) \in Places
  BY DEF Freeing
<1>2. m.order \in Orders /\ m.order \in Nat /\ max_order \in Nat /\ m.order <= max_order
  BY <1>1, CurrentChunk, OrderFacts, MaxOrder
<1>3. k \in Nat /\ m.order + k = max_order + 1 /\ m.order + 0 = m.order
  BY ONLY <1>2
<1>4. PICK c : Turns(m, k, c) /\ free_pages(m) = c[k]
  BY <1>3, FreePagesTurns
<1> DEFINE T == {i \in 0..k : ~AfterTurns(c[i], m, R, i)}
<1> HIDE DEF k
<1>5. T = {}
  <2> SUFFICES ASSUME T # {} PROVE FALSE
    OBVIOUS
  <2>1. PICK i \in T : \A j \in T : i <= j
    <3>1. T \in SUBSET Nat
      BY <1>3
    <3> HIDE DEF T
    <3> QED
      BY <3>1, LeastNat
  <2>2. AfterTurns(m, m, R, 0)
    BY <1>3 DEF AfterTurns
  <2>3. i # 0
    BY <1>4, <2>1, <2>2 DEF Turns
  <2>4. i \in 1..k /\ i - 1 \in 0..k /\ i - 1 \in Nat /\ (i - 1) + 1 = i /\ ~(i <= i - 1)
    BY ONLY <1>3, <2>1, <2>3
  <2>5. AfterTurns(c[i - 1], m, R, i - 1)
    BY <2>1, <2>4
  <2>6. c[i] = merge_or_insert(c[i - 1])
    BY <1>4, <2>4 DEF Turns
  <2>7. AfterTurns(c[i], m, R, i)
    BY <1>1, <2>4, <2>5, <2>6, NextTurn
  <2> QED
    BY <2>1, <2>7
<1>6. AfterTurns(c[k], m, R, k)
  <2>1. k \in 0..k
    BY <1>3
  <2> QED
    BY <1>5, <2>1
<1>7. c[k].done = TRUE
  <2> SUFFICES ASSUME c[k].done = FALSE PROVE FALSE
    BY <1>6 DEF AfterTurns
  <2>1. Freeing(c[k], R) /\ c[k].order = max_order + 1
    BY <1>3, <1>6 DEF AfterTurns
  <2>2. c[k] \in StateType /\ Current(c[k]) \in Places
    BY <2>1 DEF Freeing
  <2>3. c[k].order \in Orders
    BY <2>2, CurrentChunk
  <2>4. c[k].order <= max_order
    BY <2>3, OrderFacts
  <2> QED
    BY ONLY <1>2, <2>1, <2>4
<1> QED
  BY <1>4, <1>6, <1>7 DEF AfterTurns

-----------------------------------------------------------------------------
(* free_range                                                              *)

LEMMA ChunkOrder ==
  ASSUME PowerOfTwo, NEW left \in 0..frame_count, NEW right \in left..frame_count
  PROVE  /\ FrameChunk(left, chunk_order(left, right)) \in Places
         /\ left + pow2[chunk_order(left, right)] - 1 <= right
<1> DEFINE n == right - left + 1  a == floor_order(n)  b == ceil_order(left)
           most == Min({a, b})  s == {o \in 0..most : left % pow2[o] = 0}
           order == chunk_order(left, right)
<1>1. /\ n \in Nat \ {0} /\ left \in Nat /\ right \in Nat /\ left <= right /\ right <= frame_count
      /\ frame_count \in Nat
  BY BuddyAssumption
<1>2. a \in Nat /\ pow2[a] <= n
  BY <1>1, FloorOrder
<1>3. b \in Nat /\ (left = 0 => b = 0)
  BY <1>1, CeilOrder
<1> HIDE DEF a, b
<1>4. most \in Nat /\ most <= a /\ most <= b
  <2>1. CASE a <= b
    <3>1. Min({a, b}) = a
      BY <1>2, <1>3, <2>1 DEF Min
    <3> QED
      BY <1>2, <1>3, <2>1, <3>1
  <2>2. CASE b < a
    <3>1. Min({a, b}) = b
      BY <1>2, <1>3, <2>2 DEF Min
    <3> QED
      BY <1>2, <1>3, <2>2, <3>1
  <2> QED
    BY <1>2, <1>3, <2>1, <2>2
<1>5. order = Max(s)
  BY DEF chunk_order, a, b
<1> HIDE DEF most, order
<1>6. s # {}
  <2>1. 0 \in s
    BY <1>1, <1>4, PowerRule
  <2> QED
    BY <2>1
<1>7. order \in 0..most /\ left % pow2[order] = 0
  <2>1. s \in SUBSET (0..most)
    OBVIOUS
  <2>2. Max(s) \in s
    <3> HIDE DEF s
    <3> QED
      BY <1>4, <1>6, <2>1, MaxOfNumbers
  <2> QED
    BY <1>5, <2>2
<1>8. order \in Nat /\ order <= a
  BY <1>4, <1>7, <1>2
<1>9. pow2[order] \in Nat \ {0} /\ pow2[order] <= n
  <2>1. pow2[order] \in Nat \ {0}
    BY <1>8, PowerBounds
  <2>2. order = a \/ pow2[order] < pow2[a]
    BY <1>2, <1>8, PowersGrow
  <2> QED
    BY <1>2, <1>8, <2>1, <2>2, PowerBounds
<1>10. left + pow2[order] - 1 <= right
  BY <1>1, <1>9
<1>11. order \in Orders
  <2>1. max_order \in Nat \ {0} /\ frame_count = pow2[max_order]
    BY MaxOrder
  <2>2. CASE left = 0
    BY <1>3, <1>4, <1>7, <2>1, <2>2 DEF Orders
  <2>3. CASE left # 0
    <3>1. pow2[order] <= frame_count
      BY <1>1, <1>9, <2>3
    <3>2. ~(max_order < order)
      BY <1>8, <1>9, <2>1, <3>1, PowersGrow, PowerBounds
    <3> QED
      BY <1>8, <2>1, <3>2 DEF Orders
  <2> QED
    BY <2>2, <2>3
<1>12. \E q \in Nat : left = q * pow2[order]
  <2> DEFINE P == pow2[order]
  <2>1. P \in Nat \ {0} /\ left % P = 0
    BY <1>7, <1>9
  <2> HIDE DEF P
  <2>2. left = P * (left \div P) /\ left \div P \in Nat
    BY <1>1, <2>1
  <2>3. \A i \in Nat : P * i = i * P
    BY <2>1
  <2>4. \E q \in Nat : left = q * P
    BY <2>2, <2>3
  <2> QED
    BY <2>4 DEF P
<1>13. FrameChunk(left, order) \in Places
  <2>1. FrameChunk(left, order).start = left /\ FrameChunk(left, order).order = order
        /\ FrameChunk(left, order) \in [start : 0..frame_count, order : Orders]
    BY <1>1, <1>11 DEF FrameChunk
  <2>2. left + pow2[order] - 1 <= frame_count
    BY <1>1, <1>9, <1>10
  <2> QED
    BY <1>12, <2>1, <2>2 DEF Places
<1> QED
  BY <1>10, <1>13 DEF order

(* What has been released when the loop of free_range is at m.left.        *)
Releasing(m, R, from, right) ==
  /\ m \in StateType /\ m.crashed = FALSE
  /\ m.left \in from..(right + 1)
  /\ Consistent(m, R \cup (from..(m.left - 1)))

(* The record with which release calls free_pages.                         *)
Begun(m, s, o) == [m EXCEPT !.start = s, !.order = o, !.done = FALSE]

Begins(n, m, s, o) ==
  /\ n \in StateType
  /\ n.bits = m.bits /\ n.lists = m.lists /\ n.chunk = m.chunk /\ n.left = m.left
  /\ n.start = s /\ n.order = o /\ n.done = FALSE /\ n.crashed = m.crashed

LEMMA BeginFields ==
  ASSUME NEW m \in StateType, NEW s \in Int, NEW o \in Int
  PROVE  Begins(Begun(m, s, o), m, s, o)
BY DEF StateType, Begun, Begins

LEMMA EndFields ==
  ASSUME NEW m \in StateType, NEW l \in Int
  PROVE  LET n == [m EXCEPT !.left = l]
         IN  /\ n \in StateType
             /\ n.bits = m.bits /\ n.lists = m.lists /\ n.chunk = m.chunk
             /\ n.left = l /\ n.crashed = m.crashed
BY DEF StateType

LEMMA RangeGrows ==
  ASSUME NEW R, NEW from \in Nat, NEW left \in Nat, NEW right \in Nat, NEW P \in Nat \ {0},
         from <= left, left + P - 1 <= right, (from..right) \cap R = {}
  PROVE  /\ R \cup (from..(left - 1))
              = (R \cup (from..((left + P) - 1))) \ (left..(left + P - 1))
         /\ (left..(left + P - 1)) \subseteq R \cup (from..((left + P) - 1))
         /\ left + P \in from..(right + 1) /\ left + P > left /\ left + P \in Int
<1>1. (left..(left + P - 1)) \subseteq from..right
  OBVIOUS
<1>2. from..((left + P) - 1) = (from..(left - 1)) \cup (left..(left + P - 1))
  OBVIOUS
<1>3. (from..(left - 1)) \cap (left..(left + P - 1)) = {}
  OBVIOUS
<1>4. left + P \in from..(right + 1) /\ left + P > left /\ left + P \in Int
  OBVIOUS
<1> QED
  BY <1>1, <1>2, <1>3, <1>4

LEMMA ReleaseStep ==
  ASSUME PowerOfTwo, NEW R, NEW from \in 0..frame_count, NEW right \in from..frame_count,
         (from..right) \cap R = {}, NEW m, Releasing(m, R, from, right)
  PROVE  /\ Releasing(release(m, right), R, from, right)
         /\ m.left <= right => release(m, right).left > m.left
         /\ m.left > right => release(m, right) = m
<1>1. m \in StateType /\ m.crashed = FALSE /\ m.left \in from..(right + 1)
      /\ Consistent(m, R \cup (from..(m.left - 1)))
  BY DEF Releasing
<1>2. from \in Nat /\ right \in Nat /\ frame_count \in Nat /\ m.left \in Nat /\ from <= m.left
      /\ right <= frame_count
  BY ONLY <1>1, BuddyAssumption, from \in 0..frame_count, right \in from..frame_count
<1>3. CASE m.left > right
  <2>1. release(m, right) = m
    BY <1>3 DEF release
  <2>2. ~(m.left <= right)
    BY ONLY <1>2, <1>3
  <2> QED
    BY <2>1, <2>2
<1>4. CASE m.left <= right
  <2> DEFINE o == chunk_order(m.left, right)  P == pow2[o]  c == FrameChunk(m.left, o)
             n0 == Begun(m, m.left, o)
             n1 == free_pages(n0)
             n2 == [n1 EXCEPT !.left = m.left + P]
             Rnew == R \cup (from..((m.left + P) - 1))
  <2>1. m.left \in 0..frame_count /\ right \in m.left..frame_count /\ ~(m.left > right)
    BY ONLY <1>2, <1>4
  <2>2. release(m, right) = n2
    BY <1>1, <2>1 DEF release, Begun
  <2>3. c \in Places /\ m.left + P - 1 <= right
    BY <2>1, ChunkOrder
  <2>4. P \in Nat \ {0} /\ c.start = m.left /\ c.order = o /\ o \in Orders
    <3>1. c.start = m.left /\ c.order = o
      BY DEF FrameChunk
    <3> HIDE DEF c
    <3> QED
      BY <2>3, <3>1, PlaceType
  <2>5. frames_of(c) = m.left..(m.left + P - 1)
    BY <2>4 DEF frames_of
  <2> HIDE DEF c, P
  <2>6. /\ R \cup (from..(m.left - 1)) = Rnew \ frames_of(c)
        /\ frames_of(c) \subseteq Rnew
        /\ m.left + P \in from..(right + 1) /\ m.left + P > m.left /\ m.left + P \in Int
    <3> DEFINE left == m.left
    <3>1. /\ from \in Nat /\ left \in Nat /\ right \in Nat /\ P \in Nat \ {0}
          /\ from <= left /\ left + P - 1 <= right /\ (from..right) \cap R = {}
      BY <1>2, <2>3, <2>4
    <3> HIDE DEF left
    <3>2. /\ R \cup (from..(left - 1))
                = (R \cup (from..((left + P) - 1))) \ (left..(left + P - 1))
          /\ (left..(left + P - 1)) \subseteq R \cup (from..((left + P) - 1))
          /\ left + P \in from..(right + 1) /\ left + P > left /\ left + P \in Int
      BY ONLY <3>1, RangeGrows
    <3> QED
      BY <2>5, <3>2 DEF left
  <2>7. o \in Int /\ m.left \in Int
    BY <1>2, <2>4, OrderFacts
  <2>8. /\ n0 \in StateType
        /\ n0.bits = m.bits /\ n0.lists = m.lists /\ n0.chunk = m.chunk /\ n0.start = m.left /\ n0.order = o
        /\ n0.done = FALSE /\ n0.crashed = FALSE
    <3> HIDE DEF o
    <3>1. m \in StateType
      BY <1>1
    <3>2. Begins(n0, m, m.left, o)
      BY ONLY <2>7, <3>1, BeginFields
    <3> HIDE DEF n0
    <3> QED
      BY <1>1, <3>2 DEF Begins
  <2> HIDE DEF n0, Rnew
  <2>9. Freeing(n0, Rnew)
    <3>1. Current(n0) = c
      BY <2>8 DEF Current, c
    <3>2. Consistent(n0, Rnew \ frames_of(c))
      BY <1>1, <2>6, <2>8 DEF Consistent
    <3> QED
      BY <2>3, <2>6, <2>8, <3>1, <3>2 DEF Freeing
  <2>10. Freeing(n1, Rnew) /\ n1.done = TRUE
    BY <2>8, <2>9, FreePages
  <2> HIDE DEF n1
  <2>11. n1 \in StateType /\ n1.crashed = FALSE /\ Consistent(n1, Rnew)
    BY <2>10 DEF Freeing
  <2>12. /\ n2 \in StateType
         /\ n2.bits = n1.bits /\ n2.lists = n1.lists /\ n2.chunk = n1.chunk
         /\ n2.left = m.left + P /\ n2.crashed = FALSE
    BY <2>6, <2>11, EndFields
  <2> HIDE DEF n2
  <2>13. Consistent(n2, Rnew)
    BY <2>11, <2>12 DEF Consistent
  <2>14. Releasing(n2, R, from, right)
    BY <2>6, <2>12, <2>13 DEF Releasing, Rnew
  <2> QED
    BY <2>1, <2>2, <2>6, <2>12, <2>14
<1> QED
  BY ONLY <1>2, <1>3, <1>4

Rounds(m, right, k, c) == c[0] = m /\ \A i \in 1..k : c[i] = release(c[i - 1], right)

LEMMA RoundsExist == \A k \in Nat : \A m, right : \E c : Rounds(m, right, k, c)
<1> SUFFICES ASSUME NEW m, NEW right PROVE \A k \in Nat : \E c : Rounds(m, right, k, c)
  OBVIOUS
<1> DEFINE T == {k \in Nat : ~\E c : Rounds(m, right, k, c)}
<1> SUFFICES ASSUME T # {} PROVE FALSE
  OBVIOUS
<1>1. PICK n \in T : \A l \in T : n <= l
  <2>1. T \in SUBSET Nat
    OBVIOUS
  <2> HIDE DEF T
  <2> QED
    BY <2>1, LeastNat
<1>2. Rounds(m, right, 0, [i \in 0..0 |-> m])
  BY DEF Rounds
<1>3. n # 0 /\ n \in Nat
  BY <1>1, <1>2
<1>4. PICK c : Rounds(m, right, n - 1, c)
  <2>1. n - 1 \in Nat /\ n - 1 \notin T
    BY <1>1, <1>3
  <2> QED
    BY <2>1
<1> DEFINE d == [i \in 0..n |-> IF i < n THEN c[i] ELSE release(c[n - 1], right)]
<1>5. Rounds(m, right, n, d)
  <2>1. \A i \in 0..(n - 1) : d[i] = c[i]
    BY <1>3
  <2>2. d[n] = release(c[n - 1], right)
    BY <1>3
  <2> HIDE DEF d
  <2> QED
    BY <1>3, <1>4, <2>1, <2>2 DEF Rounds
<1> QED
  BY <1>1, <1>5

LEMMA FreeRangeRounds ==
  ASSUME NEW m, NEW right, NEW k \in Nat
  PROVE  \E c : Rounds(m, right, k, c) /\ release_range(m, right, k) = c[k]
<1> DEFINE Folded(f) == [s \in SUBSET (1..k) |-> IF s = {} THEN m ELSE release(f[s \ {Max(s)}], right)]
           fold == CHOOSE f : f = Folded(f)
           r == [i \in 0..k |-> fold[1..i]]
<1>1. release_range(m, right, k) = fold[1..k]
  BY DEF release_range, FoldLeft, MapThenFoldSet
<1>2. \E f : f = Folded(f)
  <2>1. PICK c : Rounds(m, right, k, c)
    BY RoundsExist
  <2>2. PICK f : Follows(f, k, c)
    BY FoldOver
  <2>3. ASSUME NEW s \in SUBSET (1..k)
        PROVE  f[s] = IF s = {} THEN m ELSE release(f[s \ {Max(s)}], right)
    BY <2>1, <2>2 DEF Rounds, Follows
  <2>4. Folded(f) = [s \in SUBSET (1..k) |-> f[s]]
    BY <2>3
  <2> HIDE DEF Folded
  <2> QED
    BY <2>2, <2>4 DEF Follows
<1>3. fold = Folded(fold)
  <2> HIDE DEF Folded
  <2> QED
    BY <1>2
<1>4. Rounds(m, right, k, r)
  <2>1. \A s \in SUBSET (1..k) : fold[s] = IF s = {} THEN m ELSE release(fold[s \ {Max(s)}], right)
    <3> HIDE DEF fold
    <3> QED
      BY <1>3
  <2>2. /\ 1..0 = {}
        /\ \A i \in 1..k : /\ (1..i) \in SUBSET (1..k) /\ (1..i) # {}
                           /\ (1..i) \ {Max(1..i)} = 1..(i - 1)
    BY IntervalSteps
  <2>3. r[0] = m
    <3>1. {} \in SUBSET (1..k)
      OBVIOUS
    <3>2. r[0] = fold[1..0]
      <4> HIDE DEF fold
      <4> QED
        OBVIOUS
    <3> HIDE DEF fold, r
    <3> QED
      BY <2>1, <2>2, <3>1, <3>2
  <2>4. ASSUME NEW i \in 1..k PROVE r[i] = release(r[i - 1], right)
    <3>1. r[i] = fold[1..i] /\ r[i - 1] = fold[1..(i - 1)]
      <4> HIDE DEF fold
      <4> QED
        OBVIOUS
    <3> HIDE DEF fold, r
    <3> QED
      BY <2>1, <2>2, <3>1
  <2> HIDE DEF r
  <2> QED
    BY <2>3, <2>4 DEF Rounds
<1>5. r[k] = fold[1..k]
  <2> HIDE DEF fold
  <2> QED
    OBVIOUS
<1> QED
  <2> HIDE DEF fold, r
  <2> QED
    BY <1>1, <1>4, <1>5

(* All of the range is free in the end.                                    *)
Freed(m, R) == m \in StateType /\ m.crashed = FALSE /\ Consistent(m, R)

LEMMA FreeRange ==
  ASSUME PowerOfTwo, NEW R, NEW from \in 0..frame_count, NEW right \in from..frame_count,
         (from..right) \cap R = {}, NEW m, Freed(m, R), m.left = from
  PROVE  Freed(release_range(m, right, right - from + 1), R \cup (from..right))
<1> DEFINE k == right - from + 1
<1>1. from \in Nat /\ right \in Nat /\ from <= right /\ k \in Nat /\ from + k = right + 1
  BY ONLY BuddyAssumption, from \in 0..frame_count, right \in from..frame_count
<1>2. PICK c : Rounds(m, right, k, c) /\ release_range(m, right, k) = c[k]
  BY <1>1, FreeRangeRounds
<1> HIDE DEF k
<1> DEFINE After(i) == Releasing(c[i], R, from, right) /\ (c[i].left > right \/ c[i].left >= from + i)
           T == {i \in 0..k : ~After(i)}
<1>3. T = {}
  <2> SUFFICES ASSUME T # {} PROVE FALSE
    OBVIOUS
  <2>1. PICK i \in T : \A j \in T : i <= j
    <3>1. T \in SUBSET Nat
      BY <1>1
    <3> HIDE DEF T
    <3> QED
      BY <3>1, LeastNat
  <2>2. Releasing(m, R, from, right)
    <3>1. from..(from - 1) = {} /\ from \in from..(right + 1)
      BY ONLY <1>1
    <3>2. R \cup (from..(from - 1)) = R
      BY <3>1
    <3> QED
      BY <3>1, <3>2 DEF Releasing, Freed
  <2>3. After(0)
    <3>1. c[0] = m
      BY <1>2 DEF Rounds
    <3>2. from >= from + 0
      BY ONLY <1>1
    <3> QED
      BY <2>2, <3>1, <3>2
  <2>4. i \in 0..k /\ i # 0
    BY <2>1, <2>3
  <2>5. i \in 1..k /\ i - 1 \in 0..k /\ ~(i <= i - 1)
    BY ONLY <1>1, <2>4
  <2>6. After(i - 1)
    BY <2>1, <2>5
  <2>7. c[i] = release(c[i - 1], right)
    BY <1>2, <2>5 DEF Rounds
  <2>8. /\ Releasing(c[i], R, from, right)
        /\ c[i - 1].left <= right => c[i].left > c[i - 1].left
        /\ c[i - 1].left > right => c[i] = c[i - 1]
    BY <2>6, <2>7, ReleaseStep
  <2>9. c[i].left \in Int /\ c[i - 1].left \in Int
    <3>1. c[i].left \in from..(right + 1) /\ c[i - 1].left \in from..(right + 1)
      BY <2>6, <2>8 DEF Releasing
    <3> QED
      BY ONLY <1>1, <3>1
  <2>10. c[i].left > right \/ c[i].left >= from + i
    <3>1. c[i - 1].left > right \/ c[i - 1].left >= from + (i - 1)
      BY <2>6
    <3> QED
      BY ONLY <1>1, <2>4, <2>8, <2>9, <3>1
  <2>11. After(i)
    BY <2>8, <2>10
  <2> QED
    BY <2>1, <2>11
<1>4. After(k)
  <2>1. k \in 0..k
    BY <1>1
  <2> QED
    BY <1>3, <2>1
<1>5. c[k] \in StateType /\ c[k].crashed = FALSE /\ c[k].left \in from..(right + 1)
      /\ Consistent(c[k], R \cup (from..(c[k].left - 1)))
  BY <1>4 DEF Releasing
<1>6. c[k].left - 1 = right
  <2>1. c[k].left > right \/ c[k].left >= from + k
    BY <1>4
  <2> QED
    BY ONLY <1>1, <1>5, <2>1
<1> QED
  BY <1>2, <1>5, <1>6 DEF k, Freed

-----------------------------------------------------------------------------
(* alloc_frames                                                            *)

LEMMA FrontOfSeq ==
  ASSUME NEW S, NEW q \in Seq(S), IsInjective(q), q # <<>>
  PROVE  /\ Front(q) \in Seq(S) /\ IsInjective(Front(q)) /\ Last(q) \in ToSet(q)
         /\ ToSet(Front(q)) = ToSet(q) \ {Last(q)}
<1> DEFINE k == Len(q)  r == Front(q)
<1>1. k \in Nat /\ k # 0 /\ DOMAIN q = 1..k /\ \A i \in 1..k : q[i] \in S
  OBVIOUS
<1>2. r = SubSeq(q, 1, k - 1) /\ Last(q) = q[k]
  BY DEF Front, Last
<1>3. r \in Seq(S) /\ Len(r) = k - 1 /\ DOMAIN r = 1..(k - 1) /\ \A i \in 1..(k - 1) : r[i] = q[i]
  <2> HIDE DEF r
  <2> QED
    BY <1>1, <1>2
<1> HIDE DEF r
<1>4. IsInjective(r)
  BY <1>1, <1>3 DEF IsInjective
<1>5. q[k] \in ToSet(q) /\ \A i \in 1..(k - 1) : q[i] # q[k]
  BY <1>1 DEF ToSet, IsInjective
<1>6. ToSet(r) = ToSet(q) \ {q[k]}
  <2> HIDE DEF k
  <2>1. \A i \in 1..k : i \in 1..(k - 1) \/ i = k
    BY <1>1
  <2>2. \A i \in 1..(k - 1) : i \in 1..k
    BY <1>1
  <2>3. ToSet(q) = {q[i] : i \in 1..k} /\ ToSet(r) = {r[i] : i \in 1..(k - 1)}
    BY <1>1, <1>3 DEF ToSet
  <2>4. ASSUME NEW t \in ToSet(r) PROVE t \in ToSet(q) \ {q[k]}
    BY <1>3, <1>5, <2>2, <2>3
  <2>5. ASSUME NEW t \in ToSet(q) \ {q[k]} PROVE t \in ToSet(r)
    BY <1>3, <2>1, <2>3
  <2> QED
    BY <2>4, <2>5
<1> QED
  BY <1>2, <1>3, <1>4, <1>5, <1>6 DEF r

LEMMA FrontKeeps ==
  ASSUME NEW lists, Lists(lists), NEW o \in Orders, lists[o] # <<>>
  PROVE  /\ Lists([lists EXCEPT ![o] = Front(@)])
         /\ FrameChunk(Last(lists[o]), o) \in FreeIn(lists)
         /\ FreeIn([lists EXCEPT ![o] = Front(@)]) = FreeIn(lists) \ {FrameChunk(Last(lists[o]), o)}
<1> DEFINE new == [lists EXCEPT ![o] = Front(@)]  r == Front(lists[o])  f == Last(lists[o])
           c == FrameChunk(f, o)
<1>1. lists[o] \in Seq(0..frame_count) /\ IsInjective(lists[o])
  BY DEF Lists
<1>2. /\ r \in Seq(0..frame_count) /\ IsInjective(r) /\ f \in ToSet(lists[o])
      /\ ToSet(r) = ToSet(lists[o]) \ {f}
  BY <1>1, FrontOfSeq
<1>3. new = [lists EXCEPT ![o] = r] /\ lists \in [Orders -> Seq(0..frame_count)]
  BY DEF Lists
<1>4. c \in FreeIn(lists) /\ c.start = f /\ c.order = o
  BY <1>2, InFree
<1> HIDE DEF r, new, c, f
<1>5. \A p \in Orders : new[p] = IF p = o THEN r ELSE lists[p]
  BY <1>3
<1>6. Lists(new)
  BY <1>2, <1>3, <1>5 DEF Lists
<1>7. FreeIn(new) = FreeIn(lists) \ {c}
  <2>1. ASSUME NEW d \in FreeIn(new) PROVE d \in FreeIn(lists) \ {c}
    <3>1. d.order \in Orders /\ d.start \in ToSet(new[d.order]) /\ d = FrameChunk(d.start, d.order)
      BY InFree
    <3> QED
      BY <1>2, <1>4, <1>5, <3>1, InFree
  <2>2. ASSUME NEW d \in FreeIn(lists) \ {c} PROVE d \in FreeIn(new)
    <3>1. d.order \in Orders /\ d.start \in ToSet(lists[d.order]) /\ d = FrameChunk(d.start, d.order)
      BY InFree
    <3>2. d.order # o \/ d.start # f
      BY <3>1 DEF c
    <3>3. d.start \in ToSet(new[d.order])
      BY <1>2, <1>5, <3>1, <3>2
    <3> QED
      BY <3>1, <3>3, InFree
  <2> QED
    BY <2>1, <2>2
<1> QED
  BY <1>4, <1>6, <1>7 DEF new, c, f

(* The two halves of a chunk.                                              *)
Left(c) == FrameChunk(c.start, c.order - 1)
Right(c) == FrameChunk(right_half(c.start, c.order), c.order - 1)

LEMMA Halves ==
  ASSUME PowerOfTwo, NEW c \in Places, c.order # 0
  PROVE  /\ Left(c) \in Places /\ Right(c) \in Places /\ Left(c) # Right(c)
         /\ frames_of(Left(c)) \cup frames_of(Right(c)) = frames_of(c)
         /\ frames_of(Left(c)) \cap frames_of(Right(c)) = {}
         /\ Left(c).start \in frames_of(c) /\ Left(c).start \in frames_of(Left(c))
         /\ Right(c).start \in frames_of(c) /\ Right(c).start \in frames_of(Right(c))
<1> DEFINE o == c.order - 1  H == pow2[o]
<1>1. /\ c.order \in Orders /\ c.order \in Nat /\ c.start \in Nat /\ c.start <= frame_count
      /\ c.order <= max_order /\ max_order \in Nat
  BY PlaceType, OrderFacts, MaxOrder
<1>2. o \in Orders /\ o \in Nat /\ o + 1 = c.order
  BY ONLY <1>1, c.order # 0 DEF Orders
<1>3. H \in Nat \ {0} /\ pow2[c.order] = 2 * H
  BY <1>2, OrderFacts
<1>4. PICK q \in Nat : c.start = q * pow2[c.order]
  BY DEF Places
<1>5. c.start + pow2[c.order] - 1 <= frame_count
  BY DEF Places
<1>6. right_half(c.start, c.order) = c.start + H
  BY DEF right_half
<1> HIDE DEF H
<1>7. c.start \in 0..frame_count /\ c.start + H \in 0..frame_count
      /\ c.start + H - 1 <= frame_count /\ (c.start + H) + H - 1 <= frame_count
  BY ONLY <1>1, <1>3, <1>5, BuddyAssumption
<1>8. 2 * q \in Nat /\ 2 * q + 1 \in Nat /\ q * (2 * H) = (2 * q) * H
      /\ q * (2 * H) + H = (2 * q + 1) * H
  BY ONLY q \in Nat, <1>3
<1>9. c.start = (2 * q) * H /\ c.start + H = (2 * q + 1) * H
  BY <1>3, <1>4, <1>8
<1>10. /\ Left(c).start = c.start /\ Left(c).order = o
       /\ Right(c).start = c.start + H /\ Right(c).order = o
       /\ Left(c) \in [start : 0..frame_count, order : Orders]
       /\ Right(c) \in [start : 0..frame_count, order : Orders]
  BY <1>2, <1>6, <1>7 DEF Left, Right, FrameChunk
<1>11. Left(c) \in Places /\ Right(c) \in Places
  <2>1. \E p \in Nat : c.start = p * H
    BY <1>8, <1>9
  <2>2. \E p \in Nat : c.start + H = p * H
    BY <1>8, <1>9
  <2> QED
    BY <1>7, <1>10, <2>1, <2>2 DEF Places, H
<1>12. /\ frames_of(Left(c)) = c.start..(c.start + H - 1)
       /\ frames_of(Right(c)) = (c.start + H)..((c.start + H) + H - 1)
       /\ frames_of(c) = c.start..(c.start + 2 * H - 1)
  BY <1>3, <1>10 DEF frames_of, H
<1>13. c.start # c.start + H
  BY ONLY <1>1, <1>3
<1> DEFINE s == c.start
<1>14. s \in Nat
  BY <1>1
<1> HIDE DEF s
<1>15. /\ (s..(s + H - 1)) \cup ((s + H)..((s + H) + H - 1)) = s..(s + 2 * H - 1)
       /\ (s..(s + H - 1)) \cap ((s + H)..((s + H) + H - 1)) = {}
       /\ s \in s..(s + H - 1) /\ s + H \in (s + H)..((s + H) + H - 1)
       /\ s \in s..(s + 2 * H - 1) /\ s + H \in s..(s + 2 * H - 1)
  BY ONLY <1>3, <1>14
<1> QED
  BY <1>10, <1>11, <1>12, <1>13, <1>15 DEF s

LEMMA SmallerSound ==
  ASSUME NEW C, NEW D, NEW R, Sound(C, R), D \subseteq C
  PROVE  Sound(D, R)
BY DEF Sound

(* One half of a chunk becomes free in its place, the other is given.      *)
LEMMA SplitSound ==
  ASSUME PowerOfTwo, NEW C, NEW G, NEW R, Sound(C \cup G, R), C \cap G = {},
         NEW c \in C, c.order # 0
  PROVE  /\ Left(c) \notin C /\ Right(c) \notin C
         /\ Sound(((C \ {c}) \cup {Left(c)}) \cup (G \cup {Right(c)}), R)
         /\ ((C \ {c}) \cup {Left(c)}) \cap (G \cup {Right(c)}) = {}
<1> DEFINE O == (C \cup G) \ {c}  l == Left(c)  r == Right(c)
<1>1. c \in Places /\ frames_of(c) \subseteq R
  BY DEF Sound
<1>2. /\ l \in Places /\ r \in Places /\ l # r
      /\ frames_of(l) \cup frames_of(r) = frames_of(c)
      /\ frames_of(l) \cap frames_of(r) = {}
      /\ l.start \in frames_of(c) /\ l.start \in frames_of(l)
      /\ r.start \in frames_of(c) /\ r.start \in frames_of(r)
  BY <1>1, Halves
<1>3. l # c /\ r # c
  <2>1. l.order = c.order - 1 /\ r.order = c.order - 1
    BY DEF Left, Right, FrameChunk
  <2>2. c.order \in Nat
    BY <1>1, PlaceType, OrderFacts
  <2>3. c.order - 1 # c.order
    BY ONLY <2>2
  <2> QED
    BY <2>1, <2>3
<1> HIDE DEF l, r
<1>4. /\ O \subseteq Places
      /\ \A d \in O : frames_of(d) \subseteq R /\ frames_of(d) \cap frames_of(c) = {}
      /\ \A d, e \in O : d # e => frames_of(d) \cap frames_of(e) = {}
  BY DEF Sound
<1>5. l \notin O /\ r \notin O
  BY <1>2, <1>4
<1>6. C \subseteq O \cup {c} /\ G \subseteq O /\ C \ {c} \subseteq O
  OBVIOUS
<1>7. \A d \in O : frames_of(d) \cap frames_of(l) = {} /\ frames_of(d) \cap frames_of(r) = {}
  BY <1>2, <1>4
<1>8. frames_of(l) \subseteq R /\ frames_of(r) \subseteq R
  BY <1>1, <1>2
<1>9. ((C \ {c}) \cup {l}) \cup (G \cup {r}) = O \cup {l, r}
  BY <1>6
<1> HIDE DEF O
<1>10. Sound(O \cup {l, r}, R)
  <2>1. O \cup {l, r} \subseteq Places /\ \A d \in O \cup {l, r} : frames_of(d) \subseteq R
    BY <1>2, <1>4, <1>8
  <2>2. \A d, e \in O \cup {l, r} : d # e => frames_of(d) \cap frames_of(e) = {}
    BY <1>2, <1>4, <1>7
  <2> QED
    BY <2>1, <2>2 DEF Sound
<1>11. l \notin C /\ r \notin C
  BY <1>3, <1>5, <1>6
<1>12. ((C \ {c}) \cup {l}) \cap (G \cup {r}) = {}
  BY <1>2, <1>5, <1>6
<1> QED
  BY <1>9, <1>10, <1>11, <1>12 DEF l, r

LEMMA HeadOfSeq ==
  ASSUME NEW S, NEW q \in Seq(S), q # <<>>
  PROVE  Head(q) \in ToSet(q) /\ Head(q) \in S
<1>1. Len(q) \in Nat /\ Len(q) # 0 /\ DOMAIN q = 1..Len(q) /\ Head(q) = q[1]
  OBVIOUS
<1>2. 1 \in DOMAIN q
  BY <1>1
<1> QED
  BY <1>1, <1>2 DEF ToSet

LEMMA SplitLists ==
  ASSUME PowerOfTwo, NEW lists, Lists(lists), NEW from \in Orders, from # 0, lists[from] # <<>>,
         Left(FrameChunk(Head(lists[from]), from)) \notin FreeIn(lists)
  PROVE  LET c == FrameChunk(Head(lists[from]), from)
             new == split_lists(lists, Head(lists[from]), from)
         IN  c \in FreeIn(lists) /\ Lists(new) /\ FreeIn(new) = (FreeIn(lists) \ {c}) \cup {Left(c)}
<1> DEFINE f == Head(lists[from])  c == FrameChunk(f, from)  mid == without(lists, from, f)
           new == split_lists(lists, f, from)
<1>1. lists[from] \in Seq(0..frame_count)
  BY DEF Lists
<1>2. f \in ToSet(lists[from]) /\ f \in 0..frame_count
  BY <1>1, HeadOfSeq
<1>3. c \in FreeIn(lists) /\ c.start = f /\ c.order = from
  BY <1>2, InFree
<1>4. Lists(mid) /\ FreeIn(mid) = FreeIn(lists) \ {c}
  BY <1>3, WithoutKeeps
<1>5. from - 1 \in Orders
  <2>1. from \in Nat /\ from <= max_order /\ max_order \in Nat
    BY OrderFacts, MaxOrder
  <2> QED
    BY ONLY <2>1, from # 0 DEF Orders
<1>6. Left(c) = FrameChunk(f, from - 1)
  BY <1>3 DEF Left
<1>7. new = [mid EXCEPT ![from - 1] = Append(@, f)]
  BY DEF split_lists
<1>8. FrameChunk(f, from - 1) \notin FreeIn(mid)
  BY <1>4, <1>6
<1> HIDE DEF mid, f
<1>9. Lists(new) /\ FreeIn(new) = FreeIn(mid) \cup {FrameChunk(f, from - 1)}
  <2>1. /\ Lists([mid EXCEPT ![from - 1] = Append(@, f)])
        /\ FreeIn([mid EXCEPT ![from - 1] = Append(@, f)]) = FreeIn(mid) \cup {FrameChunk(f, from - 1)}
    BY ONLY <1>2, <1>4, <1>5, <1>8, AppendKeeps
  <2> QED
    BY <1>7, <2>1
<1> QED
  BY <1>3, <1>4, <1>6, <1>9 DEF f

LEMMA OrderFits ==
  ASSUME PowerOfTwo, NEW count \in 1..frame_count
  PROVE  order_for(count) \in Orders /\ pow2[order_for(count)] >= count
<1> DEFINE o == ceil_order(count)
<1>1. count \in Nat /\ count <= frame_count /\ frame_count \in Nat
  BY BuddyAssumption
<1>2. o \in Nat /\ count <= pow2[o] /\ (count > 1 => o > 0 /\ pow2[o - 1] < count)
  BY <1>1, CeilOrder
<1>3. max_order \in Nat \ {0} /\ frame_count = pow2[max_order]
  BY MaxOrder
<1>4. order_for(count) = o
  BY DEF order_for
<1>5. pow2[o] \in Nat
  BY <1>2, PowerBounds
<1>6. ~(o > max_order)
  <2> SUFFICES ASSUME o > max_order PROVE FALSE
    OBVIOUS
  <2>1. count > 1
    <3>1. count = 1 => o = 0
      BY DEF ceil_order
    <3> HIDE DEF o
    <3>2. o # 0
      BY ONLY <1>2, <1>3, o > max_order
    <3> QED
      BY <1>1, <3>1, <3>2
  <2> HIDE DEF o
  <2>2. o - 1 \in Nat /\ (max_order < o - 1 \/ max_order = o - 1)
    BY ONLY <1>2, <1>3, o > max_order
  <2>3. pow2[max_order] < pow2[o - 1] \/ pow2[max_order] = pow2[o - 1]
    BY <1>3, <2>2, PowersGrow
  <2>4. pow2[o - 1] \in Nat /\ pow2[o - 1] < count
    BY <1>2, <2>1, <2>2, PowerBounds
  <2> QED
    BY ONLY <1>1, <1>3, <2>3, <2>4
<1> HIDE DEF o
<1>7. o \in Orders
  BY ONLY <1>2, <1>3, <1>6 DEF Orders
<1>8. pow2[o] >= count
  BY ONLY <1>1, <1>2, <1>5
<1> QED
  BY <1>4, <1>7, <1>8

LEMMA FramesNumber ==
  ASSUME PowerOfTwo, NEW c \in Places
  PROVE  Cardinality(frames_of(c)) = pow2[c.order]
<1>1. c.start \in Int /\ pow2[c.order] \in Nat \ {0}
  BY PlaceType
<1> DEFINE a == c.start  b == c.start + pow2[c.order] - 1
<1>2. a \in Int /\ b \in Int /\ ~(a > b) /\ b - a + 1 = pow2[c.order]
  BY ONLY <1>1
<1>3. Cardinality(a..b) = IF a > b THEN 0 ELSE b - a + 1
  BY ONLY <1>2, FS_Interval
<1> QED
  BY <1>2, <1>3 DEF frames_of

-----------------------------------------------------------------------------
(* The inductive invariant.  What is free or given is sound at all times;  *)
(* the bits and the pointers of frames[] are only kept while the regions   *)
(* are released: alloc_frames may set bits of chunks it has forgotten.     *)

Settled ==
  /\ Lists(order_map) /\ bitmap \subseteq Int
  /\ Sound(FreeIn(order_map) \cup given, released)
  /\ FreeIn(order_map) \cap given = {}

Booting ==
  /\ given = {} /\ crashed = FALSE
  /\ Whole(FreeIn(order_map), bitmap, released)
  /\ Pointed(FreeIn(order_map), chunk)

IInv == Settled /\ (phase = "boot" => Booting)

LEMMA InitInv == PowerOfTwo /\ Init => IInv
<1> SUFFICES ASSUME PowerOfTwo, Init PROVE IInv
  OBVIOUS
<1>1. /\ bitmap = {} /\ order_map = [o \in Orders |-> <<>>] /\ released = {} /\ given = {}
      /\ chunk = [i \in 0..frame_count |-> None] /\ crashed = FALSE
  BY DEF Init
<1>2. Lists(order_map)
  <2>1. <<>> \in Seq(0..frame_count) /\ IsInjective(<<>>)
    BY DEF IsInjective
  <2> QED
    BY <1>1, <2>1 DEF Lists
<1>3. FreeIn(order_map) = {}
  <2>1. ToSet(<<>>) = {}
    BY DEF ToSet
  <2>2. \A o \in Orders : ToSet(order_map[o]) = {}
    BY <1>1, <2>1
  <2> QED
    BY <2>2 DEF FreeIn
<1>4. Sound({}, {}) /\ Whole({}, {}, {}) /\ Pointed({}, chunk)
  BY <1>1 DEF Sound, Covers, Marked, Whole, Pointed
<1>5. {} \cup {} = {}
  OBVIOUS
<1> QED
  BY <1>1, <1>2, <1>3, <1>4, <1>5 DEF IInv, Settled, Booting

LEMMA FreeRangeInv ==
  ASSUME PowerOfTwo, IInv, NEW left \in 0..frame_count, NEW right \in 0..frame_count,
         left <= right, free_range(left, right)
  PROVE  IInv'
<1> DEFINE start == [bits |-> bitmap, lists |-> order_map, chunk |-> chunk,
                     start |-> 0, order |-> 0, done |-> TRUE, crashed |-> FALSE, left |-> left]
           end == release_range(start, right, right - left + 1)
<1>1. /\ phase = "boot" /\ (left..right) \cap released = {}
      /\ released' = released \cup (left..right)
      /\ bitmap' = end.bits /\ order_map' = end.lists /\ chunk' = end.chunk
      /\ crashed' = end.crashed /\ given' = given
  BY DEF free_range
<1>2. Settled /\ Booting
  BY <1>1 DEF IInv
<1>3. right \in left..frame_count /\ left \in Int
  BY BuddyAssumption
<1>4. /\ start \in StateType /\ start.crashed = FALSE /\ start.left = left
      /\ start.bits = bitmap /\ start.lists = order_map /\ start.chunk = chunk
  <2>1. order_map \in [Orders -> Seq(0..frame_count)] /\ bitmap \in SUBSET Int
        /\ chunk \in [0..frame_count -> Orders \cup {None}]
    BY <1>2 DEF Settled, Booting, Lists, Pointed
  <2> QED
    BY <1>3, <2>1 DEF StateType
<1> HIDE DEF start
<1>5. Freed(start, released)
  BY <1>2, <1>4 DEF Freed, Consistent, Settled, Booting
<1>6. Freed(end, released \cup (left..right))
  BY <1>1, <1>3, <1>4, <1>5, FreeRange
<1> HIDE DEF end
<1>7. /\ Lists(order_map') /\ Whole(FreeIn(order_map'), bitmap', released')
      /\ Pointed(FreeIn(order_map'), chunk') /\ crashed' = FALSE /\ given' = {}
      /\ bitmap' \subseteq Int
  BY <1>1, <1>2, <1>6 DEF Freed, Consistent, Booting, StateType
<1>8. Settled'
  <2>1. Sound(FreeIn(order_map'), released')
    BY <1>7 DEF Whole
  <2>2. FreeIn(order_map') \cup given' = FreeIn(order_map') /\ FreeIn(order_map') \cap given' = {}
    BY <1>7
  <2> QED
    BY <1>7, <2>1, <2>2 DEF Settled
<1> QED
  BY <1>7, <1>8 DEF IInv, Booting

LEMMA TakeExactInv ==
  ASSUME PowerOfTwo, IInv, NEW o \in Orders, take_exact(o), released' = released
  PROVE  /\ Settled'
         /\ \A c \in given' \ given : c \in Places /\ c.order = o
<1> DEFINE c == FrameChunk(Last(order_map[o]), o)
<1>1. /\ order_map[o] # <<>> /\ order_map' = [order_map EXCEPT ![o] = Front(@)]
      /\ given' = given \cup {c} /\ bitmap' = bitmap
  BY DEF take_exact
<1>2. /\ Lists(order_map) /\ bitmap \subseteq Int
      /\ Sound(FreeIn(order_map) \cup given, released)
      /\ FreeIn(order_map) \cap given = {}
  BY DEF IInv, Settled
<1>3. Lists(order_map') /\ c \in FreeIn(order_map) /\ FreeIn(order_map') = FreeIn(order_map) \ {c}
  BY <1>1, <1>2, FrontKeeps
<1>4. FreeIn(order_map') \cup given' = FreeIn(order_map) \cup given
      /\ FreeIn(order_map') \cap given' = {}
  BY <1>1, <1>2, <1>3
<1>5. Settled'
  BY <1>1, <1>2, <1>3, <1>4 DEF Settled
<1>6. c \in Places /\ c.order = o
  BY <1>2, <1>3, InFree DEF Sound
<1> QED
  BY <1>1, <1>5, <1>6

LEMMA LeastOrder ==
  ASSUME NEW T \in SUBSET Nat, T # {}
  PROVE  Min(T) \in T
BY LeastNat DEF Min

LEMMA TakeLargerInv ==
  ASSUME PowerOfTwo, IInv, NEW o \in Orders, take_larger(o), released' = released
  PROVE  /\ Settled'
         /\ \A c \in given' \ given : c \in Places /\ c.order \in Orders /\ c.order >= o
<1> DEFINE exact == order_map[o]
           index == bit_index(Last(exact), o)
           lists == IF exact = <<>> THEN order_map ELSE [order_map EXCEPT ![o] = Front(@)]
           bits == IF exact = <<>> THEN bitmap
                   ELSE IF index \in bitmap THEN bitmap \ {index} ELSE bitmap \cup {index}
           larger == {p \in o + 1..max_order : lists[p] # <<>>}
           from == Min(larger)
           left == Head(lists[from])
           right == right_half(left, from)
           c == FrameChunk(left, from)
<1>1. /\ Lists(order_map) /\ bitmap \subseteq Int
      /\ Sound(FreeIn(order_map) \cup given, released)
      /\ FreeIn(order_map) \cap given = {}
  BY DEF IInv, Settled
<1>2. IF larger = {}
      THEN order_map' = lists /\ bitmap' = bits /\ given' = given
      ELSE /\ order_map' = split_lists(lists, left, from)
           /\ bitmap' = bits \cup {bit_index(right, from - 1)}
           /\ given' = given \cup {FrameChunk(right, from - 1)}
  BY DEF take_larger
<1>3. Lists(lists) /\ FreeIn(lists) \subseteq FreeIn(order_map)
  <2>1. CASE exact = <<>>
    BY <1>1, <2>1
  <2>2. CASE exact # <<>>
    <3>1. lists = [order_map EXCEPT ![o] = Front(@)]
      BY <2>2
    <3> HIDE DEF lists
    <3> QED
      BY <1>1, <2>2, <3>1, FrontKeeps
  <2> QED
    BY <2>1, <2>2
<1>4. \A f, p \in Int : p \in Nat => bit_index(f, p) \in Int
  <2> SUFFICES ASSUME NEW f \in Int, NEW p \in Nat PROVE bit_index(f, p) \in Int
    OBVIOUS
  <2>1. f + frame_count \in Int /\ p + 1 \in Nat
    BY BuddyAssumption
  <2>2. pow2[p + 1] \in Nat \ {0}
    <3>1. pow2[p + 1] \in Nat /\ pow2[p + 1] > p + 1
      BY <2>1, PowerBounds
    <3> QED
      BY <2>1, <3>1
  <2>3. \A x \in Int : \A y \in Nat \ {0} : x \div y \in Int
    OBVIOUS
  <2> QED
    BY <2>1, <2>2, <2>3 DEF bit_index
<1>5. o \in Nat /\ max_order \in Nat
  BY OrderFacts, MaxOrder
<1>6. bits \subseteq Int
  <2>1. CASE exact = <<>>
    BY <1>1, <2>1
  <2>2. CASE exact # <<>>
    <3>1. FrameChunk(Last(exact), o) \in Places
      BY <1>1, <2>2, FrontKeeps DEF Sound
    <3>2. Last(exact) \in Int
      BY <3>1, PlaceType DEF FrameChunk
    <3>3. index \in Int
      BY <1>4, <1>5, <3>2
    <3> HIDE DEF index
    <3> QED
      BY <1>1, <2>2, <3>3
  <2> QED
    BY <2>1, <2>2
<1> HIDE DEF lists, bits
<1>7. Sound(FreeIn(lists) \cup given, released) /\ FreeIn(lists) \cap given = {}
  <2>1. FreeIn(lists) \cup given \subseteq FreeIn(order_map) \cup given
        /\ FreeIn(lists) \cap given = {}
    BY <1>1, <1>3
  <2> QED
    BY <1>1, <2>1, SmallerSound
<1>8. CASE larger = {}
  <2>1. order_map' = lists /\ bitmap' = bits /\ given' = given
    BY <1>2, <1>8
  <2>2. Settled'
    BY <1>3, <1>6, <1>7, <2>1 DEF Settled
  <2> QED
    BY <2>1, <2>2
<1>9. CASE larger # {}
  <2>1. larger \in SUBSET Nat
    BY <1>5
  <2>2. from \in larger
    BY <1>9, <2>1, LeastOrder
  <2> HIDE DEF from
  <2>3. /\ from \in Orders /\ from # 0 /\ from \in Nat /\ from - 1 >= o /\ from - 1 \in Nat
        /\ from - 1 \in Orders /\ lists[from] # <<>>
    BY <1>5, <2>2 DEF Orders
  <2>4. c \in FreeIn(lists) /\ c.start = left /\ c.order = from
    <3>1. lists[from] \in Seq(0..frame_count)
      BY <1>3, <2>3 DEF Lists
    <3>2. left \in ToSet(lists[from])
      BY <2>3, <3>1, HeadOfSeq
    <3> QED
      BY <2>3, <3>2, InFree
  <2>5. c \in Places
    BY <1>7, <2>4 DEF Sound
  <2>6. /\ Left(c) \notin FreeIn(lists)
        /\ Sound(((FreeIn(lists) \ {c}) \cup {Left(c)}) \cup (given \cup {Right(c)}), released)
        /\ ((FreeIn(lists) \ {c}) \cup {Left(c)}) \cap (given \cup {Right(c)}) = {}
    <3>1. c \in FreeIn(lists) /\ c.order # 0
      BY <2>3, <2>4
    <3> HIDE DEF c
    <3> QED
      BY <1>7, <3>1, SplitSound
  <2>7. /\ order_map' = split_lists(lists, left, from)
        /\ bitmap' = bits \cup {bit_index(right, from - 1)}
        /\ given' = given \cup {FrameChunk(right, from - 1)}
    BY <1>2, <1>9
  <2>8. Lists(order_map') /\ FreeIn(order_map') = (FreeIn(lists) \ {c}) \cup {Left(c)}
    BY <1>3, <2>3, <2>6, <2>7, SplitLists
  <2>9. Right(c) = FrameChunk(right, from - 1) /\ Right(c).start = right /\ Right(c).order = from - 1
    BY <2>4 DEF Right, FrameChunk
  <2>10. Right(c) \in Places
    BY <2>3, <2>4, <2>5, Halves
  <2>11. right \in Int
    BY <2>9, <2>10, PlaceType
  <2>12. bitmap' \subseteq Int
    <3> HIDE DEF right
    <3>1. bit_index(right, from - 1) \in Int
      BY <1>4, <2>3, <2>11
    <3> QED
      BY <1>6, <2>7, <3>1
  <2>13. given' = given \cup {Right(c)}
    BY <2>7, <2>9
  <2>14. Settled'
    BY <2>6, <2>8, <2>12, <2>13 DEF Settled
  <2> QED
    BY <2>3, <2>9, <2>10, <2>13, <2>14
<1> QED
  BY <1>8, <1>9

LEMMA AllocInv ==
  ASSUME PowerOfTwo, IInv, NEW count \in 1..frame_count, alloc_frames(count)
  PROVE  /\ IInv'
         /\ \A c \in given' \ given : c \in Places /\ pow2[c.order] >= count
<1> DEFINE o == order_for(count)
<1>1. o \in Orders /\ pow2[o] >= count
  BY OrderFits
<1>2. phase' = "up" /\ released' = released
      /\ (take_exact(o) \/ take_larger(o) \/ search_runs_out(o))
  BY DEF alloc_frames
<1> HIDE DEF o
<1>3. o \in Nat /\ pow2[o] \in Nat /\ count \in Nat
  BY <1>1, OrderFacts
<1>4. CASE take_exact(o)
  BY <1>1, <1>2, <1>4, TakeExactInv DEF IInv
<1>5. CASE take_larger(o)
  <2>1. Settled' /\ \A c \in given' \ given : c \in Places /\ c.order \in Orders /\ c.order >= o
    BY <1>1, <1>2, <1>5, TakeLargerInv
  <2>2. ASSUME NEW c \in given' \ given PROVE c \in Places /\ pow2[c.order] >= count
    <3>1. c \in Places /\ c.order \in Orders /\ c.order >= o
      BY <2>1
    <3> DEFINE p == c.order
    <3>2. p \in Nat /\ pow2[p] \in Nat
      BY <3>1, OrderFacts
    <3> HIDE DEF p
    <3>3. p = o \/ o < p
      BY <1>3, <3>1, <3>2 DEF p
    <3>4. pow2[p] >= pow2[o]
      <4>1. CASE p = o
        BY <1>3, <4>1
      <4>2. CASE o < p
        <5>1. pow2[o] < pow2[p]
          BY ONLY <1>3, <3>2, <4>2, PowersGrow
        <5> QED
          BY ONLY <1>3, <3>2, <5>1
      <4> QED
        BY <3>3, <4>1, <4>2
    <3>5. pow2[p] >= count
      BY ONLY <1>1, <1>3, <3>2, <3>4
    <3> QED
      BY <3>1, <3>5 DEF p
  <2> QED
    BY <1>2, <2>1, <2>2 DEF IInv
<1>6. CASE search_runs_out(o)
  <2>1. UNCHANGED <<bitmap, order_map, given>>
    BY <1>6 DEF search_runs_out
  <2>2. Settled'
    BY <1>2, <2>1 DEF IInv, Settled
  <2> QED
    BY <1>2, <2>1, <2>2 DEF IInv
<1> QED
  BY <1>2, <1>4, <1>5, <1>6

LEMMA NextInv == PowerOfTwo /\ IInv /\ [Next]_vars => IInv'
<1> SUFFICES ASSUME PowerOfTwo, IInv, [Next]_vars PROVE IInv'
  OBVIOUS
<1>1. ASSUME NEW left \in 0..frame_count, NEW right \in 0..frame_count,
             left <= right, free_range(left, right)
      PROVE  IInv'
  BY <1>1, FreeRangeInv
<1>2. CASE finish_init
  BY <1>2 DEF finish_init, IInv, Settled
<1>3. ASSUME NEW count \in 1..frame_count, alloc_frames(count) PROVE IInv'
  BY <1>3, AllocInv
<1>4. CASE UNCHANGED vars
  BY <1>4 DEF vars, IInv, Settled, Booting
<1> QED
  BY <1>1, <1>2, <1>3, <1>4 DEF Next

-----------------------------------------------------------------------------
(* What the invariant says of the model's own properties                   *)

LEMMA FreeOfLists == Free = FreeIn(order_map)
BY DEF Free, FreeIn

LEMMA DisjointInv == IInv => ChunksAreDisjoint
<1> SUFFICES ASSUME IInv PROVE ChunksAreDisjoint
  OBVIOUS
<1>1. Lists(order_map) /\ Sound(Free \cup given, released) /\ Free \cap given = {}
  BY FreeOfLists DEF IInv, Settled
<1> QED
  BY <1>1 DEF ChunksAreDisjoint, Lists, Sound

LEMMA MultipleModulus ==
  ASSUME NEW P \in Nat \ {0}, NEW q \in Nat
  PROVE  (q * P) % P = 0
<1> DEFINE n == q * P  d == n \div P  r == n % P
<1>1. n \in Nat
  OBVIOUS
<1> HIDE DEF n
<1>2. n = P * d + r /\ r \in 0..(P - 1) /\ d \in Nat
  BY ONLY <1>1, P \in Nat \ {0}
<1>3. n = q * P
  BY DEF n
<1> HIDE DEF d, r
<1>4. \A a, b \in Nat : a < b => P * a + P <= P * b
  <2> SUFFICES ASSUME NEW a \in Nat, NEW b \in Nat, a < b PROVE P * a + P <= P * b
    OBVIOUS
  <2>1. b = (a + 1) + (b - a - 1) /\ b - a - 1 \in Nat
    BY ONLY a \in Nat, b \in Nat, a < b
  <2>2. P * (b - a - 1) >= 0
    BY ONLY <2>1, P \in Nat \ {0}
  <2> QED
    BY ONLY <2>1, <2>2, a \in Nat, b \in Nat, P \in Nat \ {0}
<1>5. P * q = n /\ P * q \in Nat /\ P * d \in Nat
  BY ONLY <1>2, <1>3, P \in Nat \ {0}, q \in Nat
<1>6. r = 0
  <2>1. CASE d < q
    <3>1. P * d + P <= P * q
      BY <1>2, <1>4, <2>1
    <3> QED
      BY ONLY <1>2, <1>5, <3>1, P \in Nat \ {0}
  <2>2. CASE q < d
    <3>1. P * q + P <= P * d
      BY <1>2, <1>4, <2>2
    <3> QED
      BY ONLY <1>2, <1>5, <3>1, P \in Nat \ {0}
  <2>3. CASE d = q
    BY ONLY <1>2, <1>5, <2>3
  <2> QED
    BY ONLY <1>2, <2>1, <2>2, <2>3, q \in Nat
<1> QED
  BY <1>6 DEF r, n

LEMMA AlignedInv == PowerOfTwo /\ IInv => FreeChunksAligned
<1> SUFFICES ASSUME PowerOfTwo, IInv, NEW c \in Free PROVE c.start % pow2[c.order] = 0
  BY DEF FreeChunksAligned
<1>1. c \in Places
  BY FreeOfLists DEF IInv, Settled, Sound
<1>2. PICK q \in Nat : c.start = q * pow2[c.order]
  BY <1>1 DEF Places
<1>3. pow2[c.order] \in Nat \ {0}
  BY <1>1, PlaceType
<1> QED
  BY <1>2, <1>3, MultipleModulus

(* The left one of a pair of buddies, and its pair's number.               *)
LEMMA LeftBuddy ==
  ASSUME PowerOfTwo, NEW o \in Orders, NEW f \in 0..(frame_count - 1), f % pow2[o + 1] = 0
  PROVE  /\ FrameChunk(f, o) \in Places /\ Index(FrameChunk(f, o)) = bit_index(f, o)
         /\ o < max_order => /\ Base(FrameChunk(f, o)) = f
                             /\ bit_index(f + pow2[o], o) = bit_index(f, o)
<1> DEFINE H == pow2[o]  D == pow2[o + 1]  c == FrameChunk(f, o)
<1>1. /\ o \in Nat /\ o <= max_order /\ H \in Nat \ {0} /\ D = 2 * H
      /\ (o < max_order => \E k \in Nat \ {0} : frame_count = k * D)
  BY OrderFacts
<1>2. max_order \in Nat /\ frame_count = pow2[max_order] /\ frame_count \in Nat
  BY MaxOrder, BuddyAssumption
<1>3. f \in Nat /\ f < frame_count /\ f % D = 0
  BY BuddyAssumption
<1> HIDE DEF H, D
<1>4. PICK p \in Nat : f = p * D
  <2>1. D \in Nat \ {0}
    BY ONLY <1>1
  <2>2. f = D * (f \div D) /\ f \div D \in Nat
    BY ONLY <1>3, <2>1
  <2>3. \A i \in Nat : D * i = i * D
    BY ONLY <2>1
  <2> QED
    BY <2>2, <2>3
<1>5. f + H - 1 <= frame_count
  <2>1. CASE o < max_order
    <3>1. PICK k \in Nat \ {0} : frame_count = k * D
      BY <1>1, <2>1
    <3>2. p < k
      <4>1. ~(k <= p)
        <5> SUFFICES ASSUME k <= p PROVE FALSE
          OBVIOUS
        <5>1. p = k + (p - k) /\ p - k \in Nat
          BY ONLY k <= p, k \in Nat \ {0}, p \in Nat
        <5>2. (p - k) * D >= 0
          BY ONLY <5>1, <1>1
        <5> QED
          BY ONLY <1>1, <1>3, <1>4, <3>1, <5>1, <5>2, k \in Nat \ {0}, p \in Nat
      <4> QED
        BY ONLY <4>1, k \in Nat \ {0}, p \in Nat
    <3>3. k = (p + 1) + (k - p - 1) /\ k - p - 1 \in Nat
      BY ONLY <3>2, k \in Nat \ {0}, p \in Nat
    <3>4. (k - p - 1) * D >= 0
      BY ONLY <3>3, <1>1
    <3>5. f + D <= frame_count
      BY ONLY <1>1, <1>3, <1>4, <3>1, <3>3, <3>4, k \in Nat \ {0}, p \in Nat
    <3> QED
      BY ONLY <1>1, <1>2, <1>3, <3>5
  <2>2. CASE o = max_order
    <3>1. H = frame_count
      BY <1>2, <2>2 DEF H
    <3>2. p = 0
      <4> SUFFICES ASSUME p # 0 PROVE FALSE
        OBVIOUS
      <4>1. (p - 1) * D >= 0 /\ p * D = D + (p - 1) * D
        BY ONLY <1>1, p \in Nat, p # 0
      <4> QED
        BY ONLY <1>1, <1>2, <1>3, <1>4, <3>1, <4>1, p \in Nat
    <3>3. f = 0
      BY ONLY <1>1, <1>4, <3>2
    <3> QED
      BY ONLY <1>1, <3>1, <3>3
  <2> QED
    BY ONLY <1>1, <1>2, <2>1, <2>2
<1>6. c.start = f /\ c.order = o /\ c \in [start : 0..frame_count, order : Orders]
  BY <1>2, <1>3 DEF FrameChunk
<1>7. \E q \in Nat : f = q * H
  <2>1. 2 * p \in Nat /\ p * (2 * H) = (2 * p) * H
    BY ONLY <1>1, p \in Nat
  <2> QED
    BY <1>1, <1>4, <2>1
<1>8. c \in Places
  BY <1>5, <1>6, <1>7 DEF Places, H
<1>9. Index(c) = bit_index(f, o)
  BY <1>6 DEF Index
<1>10. ASSUME o < max_order PROVE Base(c) = f /\ bit_index(f + H, o) = bit_index(f, o)
  <2>1. /\ bit_index(p * pow2[o + 1], o) * pow2[o + 1] - frame_count = p * pow2[o + 1]
        /\ bit_index(p * pow2[o + 1] + pow2[o], o) = bit_index(p * pow2[o + 1], o)
    BY <1>10, IndexOfPair
  <2>2. f = p * pow2[o + 1]
    BY <1>4 DEF D
  <2> QED
    BY <1>6, <1>9, <2>1, <2>2 DEF Base, H
<1> QED
  BY <1>8, <1>9, <1>10 DEF H

LEMMA MergedInv == PowerOfTwo /\ IInv => BootMergesFully
<1> SUFFICES ASSUME PowerOfTwo, IInv, phase = "boot"
             PROVE  /\ UNION {frames_of(c) : c \in Free} = released
                    /\ \A o \in Orders : \A f \in {g \in 0..frame_count - 1 : g % pow2[o + 1] = 0} :
                         LET free == {f, f + pow2[o]} \cap ToSet(order_map[o])
                         IN  Cardinality(free) # 2 /\ (bit_index(f, o) \in bitmap <=> free # {})
                    /\ \A c \in Free : chunk[c.start] = c.order
  BY DEF BootMergesFully
<1>1. Sound(Free, released) /\ Covers(Free, released) /\ Marked(Free, bitmap) /\ Pointed(Free, chunk)
  BY FreeOfLists DEF IInv, Booting, Whole
<1>2. UNION {frames_of(c) : c \in Free} = released
  BY <1>1 DEF Sound, Covers
<1>3. ASSUME NEW o \in Orders, NEW f \in 0..(frame_count - 1), f % pow2[o + 1] = 0
      PROVE  LET free == {f, f + pow2[o]} \cap ToSet(order_map[o])
             IN  Cardinality(free) # 2 /\ (bit_index(f, o) \in bitmap <=> free # {})
  <2> DEFINE S == ToSet(order_map[o])  g == f + pow2[o]  free == {f, g} \cap S
             l == FrameChunk(f, o)  r == FrameChunk(g, o)
  <2>1. /\ l \in Places /\ Index(l) = bit_index(f, o) /\ l.start = f /\ l.order = o
        /\ r.start = g /\ r.order = o
        /\ o < max_order => Base(l) = f /\ bit_index(g, o) = bit_index(f, o)
    BY <1>3, LeftBuddy, InFree
  <2>2. /\ f \in Nat /\ f # g /\ g # 0 /\ o \in Nat /\ (o < max_order \/ o = max_order)
    <3>1. o \in Nat /\ pow2[o] \in Nat \ {0} /\ o <= max_order /\ max_order \in Nat
      BY OrderFacts, MaxOrder
    <3>2. f \in Nat
      BY BuddyAssumption
    <3> QED
      BY ONLY <3>1, <3>2
  <2>3. (f \in S <=> l \in Free) /\ (g \in S <=> r \in Free)
    BY <2>1, FreeOfLists, InFree
  <2>4. ASSUME g \in S PROVE o < max_order /\ Index(r) = Index(l)
    <3>1. r \in Places
      BY <1>1, <2>3, <2>4 DEF Sound
    <3>2. o < max_order
      BY <2>1, <2>2, <3>1, TopPlace
    <3>3. Index(r) = bit_index(g, o)
      BY <2>1 DEF Index
    <3> QED
      BY <2>1, <3>2, <3>3
  <2>5. ~(f \in S /\ g \in S)
    <3> SUFFICES ASSUME f \in S, g \in S PROVE FALSE
      OBVIOUS
    <3>1. l = r
      BY <1>1, <2>3, <2>4 DEF Marked
    <3> QED
      BY <2>1, <2>2, <3>1
  <2>6. Cardinality(free) # 2
    <3>1. free = {} \/ free = {f} \/ free = {g}
      BY <2>5
    <3>2. Cardinality({}) = 0 /\ Cardinality({f}) = 1 /\ Cardinality({g}) = 1
      BY FS_EmptySet, FS_Singleton
    <3> HIDE DEF free, g
    <3> QED
      BY <3>1, <3>2
  <2>7. ASSUME bit_index(f, o) \in bitmap PROVE free # {}
    <3>1. PICK d \in Free : Index(d) = Index(l)
      BY <1>1, <2>1, <2>7 DEF Marked
    <3>2. d \in Places
      BY <1>1 DEF Sound
    <3>3. CASE d = l
      BY <2>3, <3>3
    <3>4. CASE d # l
      <4>1. /\ d.order = o /\ o < max_order
            /\ \/ l.start = Base(l) /\ d.start = Base(l) + pow2[o]
               \/ d.start = Base(l) /\ l.start = Base(l) + pow2[o]
        BY <2>1, <3>1, <3>2, <3>4, Buddies
      <4>2. d.start = g
        BY <2>1, <2>2, <4>1
      <4>3. d = r
        BY <3>2, <4>1, <4>2, PlaceType
      <4> QED
        BY <2>3, <4>3
    <3> QED
      BY <3>3, <3>4
  <2>8. ASSUME free # {} PROVE bit_index(f, o) \in bitmap
    <3>1. CASE f \in S
      BY <1>1, <2>1, <2>3, <3>1 DEF Marked
    <3>2. CASE g \in S
      BY <1>1, <2>1, <2>3, <2>4, <3>2 DEF Marked
    <3> QED
      BY <2>8, <3>1, <3>2
  <2> QED
    BY <2>6, <2>7, <2>8
<1>4. \A c \in Free : chunk[c.start] = c.order
  BY <1>1 DEF Pointed
<1> QED
  BY <1>2, <1>3, <1>4

LEMMA RequestStep ==
  ASSUME PowerOfTwo, IInv, NEW count \in 1..frame_count, alloc_frames(count),
         NEW c \in given' \ given
  PROVE  Cardinality(frames_of(c)) >= count
BY AllocInv, FramesNumber

-----------------------------------------------------------------------------
(* The theorems                                                            *)

(* The invariant: what is free and what is given never shares a frame, and *)
(* while the regions are released every frame of them is in a free chunk,  *)
(* whose pair's bit is set and to which its first frame points.            *)
THEOREM AllocatorIsConsistent == PowerOfTwo => (Spec => []IInv)
<1> SUFFICES ASSUME PowerOfTwo PROVE Spec => []IInv
  OBVIOUS
<1>1. Init => IInv
  BY InitInv
<1>2. IInv /\ [Next]_vars => IInv'
  BY NextInv
<1> QED
  BY <1>1, <1>2, PTL DEF Spec

(* No frame is free twice, given twice, or free and given: of alloc_frames *)
(* and of free_range with every merge it makes.                            *)
THEOREM NoFrameTwice == PowerOfTwo => (Spec => []ChunksAreDisjoint)
<1> SUFFICES ASSUME PowerOfTwo PROVE Spec => []ChunksAreDisjoint
  OBVIOUS
<1>1. Spec => []IInv
  BY AllocatorIsConsistent
<1> QED
  BY <1>1, DisjointInv, PTL

(* Every free chunk starts at a multiple of its length, as free_pages      *)
(* asserts.  Of any number of frames it is false: the run of six frames    *)
(* finds the counterexample.                                               *)
THEOREM ChunksStayAligned == PowerOfTwo => (Spec => []FreeChunksAligned)
<1> SUFFICES ASSUME PowerOfTwo PROVE Spec => []FreeChunksAligned
  OBVIOUS
<1>1. Spec => []IInv
  BY AllocatorIsConsistent
<1>2. IInv => FreeChunksAligned
  BY AlignedInv
<1> QED
  BY <1>1, <1>2, PTL

(* Whatever regions init_frames releases, in whatever order, all of their  *)
(* frames end up free, no two buddies are left unmerged, and every bit and *)
(* every pointer of frames[] is what the next free_pages relies on.        *)
THEOREM RegionsMergeFully == PowerOfTwo => (Spec => []BootMergesFully)
<1> SUFFICES ASSUME PowerOfTwo PROVE Spec => []BootMergesFully
  OBVIOUS
<1>1. Spec => []IInv
  BY AllocatorIsConsistent
<1>2. IInv => BootMergesFully
  BY MergedInv
<1> QED
  BY <1>1, <1>2, PTL

(* alloc_frames never returns a chunk with fewer frames than it was asked  *)
(* for.                                                                    *)
THEOREM RequestsGetTheirFrames == PowerOfTwo => (Spec => RequestsAreMet)
<1> SUFFICES ASSUME PowerOfTwo PROVE Spec => RequestsAreMet
  OBVIOUS
<1>1. Spec => []IInv
  BY AllocatorIsConsistent
<1>2. IInv /\ [Next]_vars =>
        [\A count \in 1..frame_count : alloc_frames(count) =>
           \A c \in given' \ given : Cardinality(frames_of(c)) >= count]_vars
  BY RequestStep
<1> QED
  BY <1>1, <1>2, PTL DEF Spec, RequestsAreMet

-----------------------------------------------------------------------------
(* The page tables                                                         *)

LEMMA SumDivides ==
  ASSUME NEW D \in Nat \ {0}, NEW q \in Nat, NEW r \in 0..(D - 1)
  PROVE  (q * D + r) \div D = q /\ (q * D + r) % D = r
OBVIOUS

LEMMA PageSizes ==
  /\ PageSize \in Nat \ {0} /\ TableEntries \in Nat \ {0} /\ DirEntries \in Nat \ {0}
  /\ KernelTable \in Nat \ {0} /\ InitTables \in Nat \ {0}
  /\ KernelTable + InitTables <= DirEntries
  /\ Span \in Nat \ {0} /\ Space \in Nat \ {0}
  /\ Span = PageSize * TableEntries /\ Space = Span * DirEntries
  /\ KERNEL_VADDR_OFFSET \in Nat /\ KERNEL_VADDR_OFFSET = KernelTable * Span
<1>1. /\ PageSize \in Nat \ {0} /\ TableEntries \in Nat \ {0} /\ DirEntries \in Nat \ {0}
      /\ KernelTable \in Nat \ {0} /\ InitTables \in Nat \ {0}
      /\ KernelTable + InitTables <= DirEntries
  BY PagingAssumption
<1>2. \A x, y \in Nat \ {0} : x * y \in Nat \ {0}
  OBVIOUS
<1>3. Span \in Nat \ {0}
  BY <1>1, <1>2 DEF Span
<1>4. Space \in Nat \ {0} /\ KernelTable * Span \in Nat
  BY <1>1, <1>2, <1>3 DEF Space
<1> QED
  BY <1>1, <1>3, <1>4 DEF Span, Space, KERNEL_VADDR_OFFSET

(* Multiplication grows.                                                   *)
LEMMA TimesGrows ==
  ASSUME NEW D \in Nat \ {0}, NEW x \in Nat, NEW y \in Nat, x < y
  PROVE  x * D + D <= y * D
<1>1. y = (x + 1) + (y - x - 1) /\ y - x - 1 \in Nat
  OBVIOUS
<1>2. (y - x - 1) * D >= 0
  BY ONLY <1>1, D \in Nat \ {0}
<1> QED
  BY ONLY <1>1, <1>2, D \in Nat \ {0}, x \in Nat, y \in Nat

(* An address is a page's byte in a page of a table.                       *)
IsAt(a, i, j, b) == a = i * Span + (j * PageSize + b)

LEMMA AddressParts ==
  ASSUME NEW a \in Nat
  PROVE  \E i \in Nat : \E j \in 0..(TableEntries - 1) : \E b \in 0..(PageSize - 1) : IsAt(a, i, j, b)
<1> DEFINE i == a \div Span  r == a % Span  j == r \div PageSize  b == r % PageSize
<1>1. Span \in Nat \ {0} /\ PageSize \in Nat \ {0} /\ TableEntries \in Nat \ {0}
      /\ Span = PageSize * TableEntries
  BY PageSizes
<1>2. \A x \in Nat : \A D \in Nat \ {0} :
        x = D * (x \div D) + (x % D) /\ x \div D \in Nat /\ x % D \in 0..(D - 1)
  OBVIOUS
<1>3. a = Span * i + r /\ i \in Nat /\ r \in 0..(Span - 1)
  BY <1>1, <1>2
<1> HIDE DEF i, r
<1>4. r = PageSize * j + b /\ j \in Nat /\ b \in 0..(PageSize - 1)
  <2>1. r \in Nat /\ PageSize \in Nat \ {0}
    BY <1>1, <1>3
  <2> QED
    BY ONLY <1>2, <2>1
<1> HIDE DEF j, b
<1>5. j < TableEntries
  <2> SUFFICES ASSUME TableEntries <= j PROVE FALSE
    BY <1>1, <1>4
  <2>1. TableEntries * PageSize <= j * PageSize
    <3>1. TableEntries = j \/ TableEntries < j
      BY <1>1, <1>4
    <3>2. CASE TableEntries = j
      BY <1>1, <3>2
    <3>3. CASE TableEntries < j
      <4>1. TableEntries * PageSize + PageSize <= j * PageSize
        BY <1>1, <1>4, <3>3, TimesGrows
      <4>2. TableEntries * PageSize \in Int /\ j * PageSize \in Int
        BY <1>1, <1>4
      <4> QED
        BY <1>1, <4>1, <4>2
    <3> QED
      BY <3>1, <3>2, <3>3
  <2>2. TableEntries * PageSize = Span /\ j * PageSize = PageSize * j
    BY <1>1, <1>4
  <2> QED
    BY <1>1, <1>3, <1>4, <2>1, <2>2
<1>6. j \in 0..(TableEntries - 1)
  BY <1>1, <1>4, <1>5
<1>7. IsAt(a, i, j, b)
  <2>1. Span * i = i * Span /\ PageSize * j = j * PageSize
    BY <1>1, <1>3, <1>4
  <2> QED
    BY <1>3, <1>4, <2>1 DEF IsAt
<1> QED
  BY <1>3, <1>4, <1>6, <1>7

(* Where the processor looks an address up.                                *)
LEMMA Lookup ==
  ASSUME NEW a, NEW e \in 0..(DirEntries - 1), NEW j \in 0..(TableEntries - 1),
         NEW b \in 0..(PageSize - 1), IsAt(a, e, j, b)
  PROVE  /\ a \in 0..(Space - 1) /\ Word(a) = a
         /\ PAGE_TABLE_INDEX(a) = e /\ PAGE_INDEX(a) = j /\ a % PageSize = b
<1>1. /\ PageSize \in Nat \ {0} /\ TableEntries \in Nat \ {0} /\ DirEntries \in Nat \ {0}
      /\ Span \in Nat \ {0} /\ Space \in Nat \ {0}
      /\ Span = PageSize * TableEntries /\ Space = Span * DirEntries
  BY PageSizes
<1>2. e \in Nat /\ j \in Nat /\ b \in Nat /\ e < DirEntries /\ j < TableEntries /\ b < PageSize
  BY ONLY <1>1, e \in 0..(DirEntries - 1), j \in 0..(TableEntries - 1), b \in 0..(PageSize - 1)
<1> DEFINE r == j * PageSize + b
<1>3. r \in 0..(Span - 1)
  <2>1. j * PageSize + PageSize <= TableEntries * PageSize
    BY <1>1, <1>2, TimesGrows
  <2>2. j * PageSize \in Nat /\ TableEntries * PageSize = Span
    BY <1>1, <1>2
  <2> QED
    BY ONLY <1>1, <1>2, <2>1, <2>2
<1> HIDE DEF r
<1>4. a = e * Span + r
  BY DEF IsAt, r
<1>5. a \in 0..(Space - 1)
  <2>1. e * Span + Span <= DirEntries * Span
    BY <1>1, <1>2, TimesGrows
  <2>2. e * Span \in Nat /\ DirEntries * Span = Space
    BY <1>1, <1>2
  <2> QED
    BY ONLY <1>1, <1>3, <1>4, <2>1, <2>2
<1>6. Word(a) = a
  BY ONLY <1>1, <1>5 DEF Word
<1>7. PAGE_TABLE_INDEX(a) = e
  <2>1. (e * Span + r) \div Span = e
    BY <1>1, <1>2, <1>3, SumDivides
  <2> QED
    BY <1>4, <1>6, <2>1 DEF PAGE_TABLE_INDEX
<1> DEFINE p == e * TableEntries + j
<1>8. p \in Nat /\ a = p * PageSize + b
  <2>1. (e * TableEntries + j) * PageSize = e * (PageSize * TableEntries) + j * PageSize
    BY ONLY <1>1, <1>2
  <2>2. p * PageSize = e * Span + j * PageSize
    BY <1>1, <2>1
  <2>3. e * Span \in Nat /\ j * PageSize \in Nat /\ p \in Nat
    BY <1>1, <1>2
  <2> HIDE DEF p
  <2> QED
    BY <1>2, <1>4, <2>2, <2>3 DEF r
<1>9. p % TableEntries = j
  BY <1>1, <1>2, SumDivides
<1> HIDE DEF p
<1>10. a \div PageSize = p /\ a % PageSize = b
  BY <1>1, <1>8, SumDivides
<1> QED
  BY <1>5, <1>6, <1>7, <1>9, <1>10 DEF PAGE_INDEX

LEMMA TableIsNoHole == \A i \in Nat : table(i) # NoTable
<1> SUFFICES ASSUME NEW i \in Nat PROVE table(i) # NoTable
  OBVIOUS
<1>1. PageSize \in Nat \ {0} /\ TableEntries \in Nat \ {0} /\ Space \in Nat \ {0}
  BY PageSizes
<1>2. ASSUME NEW j \in 0..(TableEntries - 1) PROVE Word((j + i * TableEntries) * PageSize) \in Int
  <2>1. \A x, y \in Nat : x * y \in Nat /\ x + y \in Nat
    OBVIOUS
  <2>2. j \in Nat /\ TableEntries \in Nat /\ PageSize \in Nat
    BY <1>1
  <2>3. (j + i * TableEntries) * PageSize \in Nat
    BY <2>1, <2>2
  <2>4. \A x \in Nat : x % Space \in Int
    BY <1>1
  <2> QED
    BY <2>3, <2>4 DEF Word
<1>3. table(i) \in [0 .. TableEntries - 1 -> Int]
  BY <1>2 DEF table
<1> QED
  BY <1>3, PagingAssumption

(* What table i maps is at the frames from i * Span on.                    *)
LEMMA WalkThrough ==
  ASSUME NEW dir, NEW e \in 0..(DirEntries - 1), NEW i \in 0..(DirEntries - 1), dir[e] = table(i),
         NEW j \in 0..(TableEntries - 1), NEW b \in 0..(PageSize - 1),
         NEW a, NEW x, IsAt(a, i, j, b), IsAt(x, e, j, b)
  PROVE  walk(dir, x) = a
<1>1. PAGE_TABLE_INDEX(x) = e /\ PAGE_INDEX(x) = j /\ x % PageSize = b
  BY Lookup
<1>2. /\ PageSize \in Nat \ {0} /\ TableEntries \in Nat \ {0} /\ DirEntries \in Nat \ {0}
      /\ Span \in Nat \ {0} /\ Space \in Nat \ {0} /\ Span = PageSize * TableEntries
  BY PageSizes
<1>3. i \in Nat /\ j \in Nat /\ b \in Nat
  BY <1>2
<1>4. table(i) # NoTable
  BY <1>3, TableIsNoHole
<1>5. table(i)[j] = Word((j + i * TableEntries) * PageSize)
  BY DEF table
<1>6. (j + i * TableEntries) * PageSize = i * Span + j * PageSize
  <2>1. (j + i * TableEntries) * PageSize = i * (PageSize * TableEntries) + j * PageSize
    BY ONLY <1>2, <1>3
  <2> QED
    BY <1>2, <2>1
<1>7. Word(i * Span + j * PageSize) = i * Span + j * PageSize
  <2>1. 0 \in 0..(PageSize - 1)
    BY <1>2
  <2>2. i * Span + (j * PageSize + 0) = i * Span + j * PageSize
    <3>1. i * Span \in Nat /\ j * PageSize \in Nat
      BY <1>2, <1>3
    <3> QED
      BY ONLY <3>1
  <2>3. IsAt(i * Span + j * PageSize, i, j, 0)
    BY <2>2 DEF IsAt
  <2> QED
    BY <2>1, <2>3, Lookup
<1>8. (i * Span + j * PageSize) + b = a
  <2>1. i * Span \in Nat /\ j * PageSize \in Nat
    BY <1>2, <1>3
  <2> QED
    BY <1>3, <2>1 DEF IsAt
<1> QED
  BY <1>1, <1>4, <1>5, <1>6, <1>7, <1>8 DEF walk

(* The entry to which the loops write table i.                             *)
LEMMA EntryOf ==
  ASSUME NEW i \in 0..(DirEntries - 1)
  PROVE  PAGE_TABLE_INDEX(KERNEL_VADDR_OFFSET + i * Span)
           = IF KernelTable + i < DirEntries THEN KernelTable + i ELSE KernelTable + i - DirEntries
<1> DEFINE x == KERNEL_VADDR_OFFSET + i * Span  e == KernelTable + i
<1>1. /\ PageSize \in Nat \ {0} /\ TableEntries \in Nat \ {0} /\ DirEntries \in Nat \ {0}
      /\ KernelTable \in Nat \ {0} /\ InitTables \in Nat \ {0} /\ KernelTable + InitTables <= DirEntries
      /\ Span \in Nat \ {0} /\ Space \in Nat \ {0} /\ Space = Span * DirEntries
      /\ KERNEL_VADDR_OFFSET = KernelTable * Span
  BY PageSizes
<1>2. 0 \in 0..(TableEntries - 1) /\ 0 \in 0..(PageSize - 1) /\ i \in Nat /\ i < DirEntries /\ e \in Nat
  BY <1>1
<1>3. x = e * Span
  BY <1>1, <1>2
<1> HIDE DEF x
<1>4. \A k \in 0..(DirEntries - 1) : PAGE_TABLE_INDEX(k * Span) = k /\ Word(k * Span) = k * Span
  <2> SUFFICES ASSUME NEW k \in 0..(DirEntries - 1)
               PROVE  PAGE_TABLE_INDEX(k * Span) = k /\ Word(k * Span) = k * Span
    OBVIOUS
  <2>1. k * Span + (0 * PageSize + 0) = k * Span
    <3>1. k * Span \in Nat /\ 0 * PageSize = 0
      BY <1>1
    <3> QED
      BY ONLY <3>1
  <2>2. IsAt(k * Span, k, 0, 0)
    BY <2>1 DEF IsAt
  <2> QED
    BY <1>2, <2>2, Lookup
<1>5. CASE e < DirEntries
  <2>1. e \in 0..(DirEntries - 1)
    BY <1>1, <1>2, <1>5
  <2> QED
    BY <1>3, <1>4, <1>5, <2>1 DEF x
<1>6. CASE ~(e < DirEntries)
  <2> DEFINE k == e - DirEntries
  <2>1. k \in 0..(DirEntries - 1) /\ k \in Nat
    BY <1>1, <1>2, <1>6
  <2>2. e * Span = 1 * Space + k * Span
    <3>1. e = DirEntries + k
      BY <1>1, <1>2
    <3> HIDE DEF k, e
    <3> QED
      BY <1>1, <2>1, <3>1
  <2>3. k * Span \in 0..(Space - 1)
    <3>1. k < DirEntries
      BY <1>1, <2>1
    <3>2. k * Span + Span <= DirEntries * Span
      BY <1>1, <2>1, <3>1, TimesGrows
    <3> HIDE DEF k
    <3>3. k * Span \in Nat /\ DirEntries * Span = Space
      BY <1>1, <2>1
    <3> QED
      BY ONLY <1>1, <3>2, <3>3
  <2> HIDE DEF k
  <2>4. (1 * Space + k * Span) % Space = k * Span
    BY ONLY <1>1, <2>3, SumDivides
  <2>5. Word(x) = k * Span
    BY <1>3, <2>2, <2>4 DEF Word
  <2>6. PAGE_TABLE_INDEX(x) = k
    BY <1>4, <2>1, <2>5 DEF PAGE_TABLE_INDEX
  <2> QED
    <3>1. PAGE_TABLE_INDEX(KERNEL_VADDR_OFFSET + i * Span) = KernelTable + i - DirEntries
      <4>1. x = KERNEL_VADDR_OFFSET + i * Span
        BY DEF x
      <4>2. k = KernelTable + i - DirEntries
        BY <1>1, <1>2 DEF k
      <4> HIDE DEF e
      <4> QED
        BY ONLY <2>6, <4>1, <4>2
    <3>2. ~(KernelTable + i < DirEntries)
      BY <1>6
    <3> QED
      BY ONLY <3>1, <3>2
<1> QED
  BY <1>5, <1>6

LEMMA KernelWindow ==
  ASSUME NEW dir, NEW n \in 0..DirEntries
  PROVE  /\ \A i \in 0..(n - 1) : KernelTable + i < DirEntries =>
                with_kernel_tables(dir, n)[KernelTable + i] = table(i)
         /\ KernelTable + n <= DirEntries => with_kernel_tables(dir, n)[0] = dir[0]
<1>1. DirEntries \in Nat \ {0} /\ KernelTable \in Nat \ {0} /\ InitTables \in Nat \ {0}
      /\ KernelTable + InitTables <= DirEntries
  BY PageSizes
<1> DEFINE entry(i) == PAGE_TABLE_INDEX(KERNEL_VADDR_OFFSET + i * Span)
<1>2. \A i \in 0..(n - 1) : i \in 0..(DirEntries - 1) /\ i \in Nat /\ i < n
  BY <1>1
<1>3. \A i \in 0..(n - 1) :
        entry(i) = IF KernelTable + i < DirEntries THEN KernelTable + i ELSE KernelTable + i - DirEntries
  BY <1>2, EntryOf
<1> HIDE DEF entry
<1>4. ASSUME NEW i \in 0..(n - 1), KernelTable + i < DirEntries
      PROVE  with_kernel_tables(dir, n)[KernelTable + i] = table(i)
  <2> DEFINE k == KernelTable + i  window == {h \in 0..(n - 1) : entry(h) = k}
  <2>1. k \in 0..(DirEntries - 1)
    BY <1>1, <1>2, <1>4
  <2>2. i \in window
    BY <1>3, <1>4
  <2>3. ASSUME NEW h \in window PROVE h = i
    <3>1. h \in 0..(n - 1) /\ entry(h) = KernelTable + i
      OBVIOUS
    <3>2. h \in Nat /\ h < DirEntries /\ i \in Nat
      BY <1>1, <1>2, <3>1
    <3>3. entry(h) = IF KernelTable + h < DirEntries THEN KernelTable + h ELSE KernelTable + h - DirEntries
      BY <1>3, <3>1
    <3> QED
      BY ONLY <1>1, <3>1, <3>2, <3>3
  <2>4. window # {} /\ (CHOOSE h \in window : TRUE) = i
    BY <2>2, <2>3
  <2>5. with_kernel_tables(dir, n)[k]
          = IF window = {} THEN dir[k] ELSE table(CHOOSE h \in window : TRUE)
    BY <2>1 DEF with_kernel_tables, entry
  <2> QED
    BY <2>4, <2>5
<1>5. ASSUME KernelTable + n <= DirEntries PROVE with_kernel_tables(dir, n)[0] = dir[0]
  <2> DEFINE window == {h \in 0..(n - 1) : entry(h) = 0}
  <2>1. 0 \in 0..(DirEntries - 1)
    BY <1>1
  <2>2. ASSUME NEW h \in 0..(n - 1) PROVE entry(h) # 0
    <3>1. h \in Nat /\ h < n /\ n \in Nat
      BY <1>1, <1>2
    <3>2. KernelTable + h < DirEntries /\ KernelTable + h # 0
      BY ONLY <1>1, <1>5, <3>1
    <3> QED
      BY <1>3, <3>2
  <2>3. with_kernel_tables(dir, n)[0]
          = IF window = {} THEN dir[0] ELSE table(CHOOSE h \in window : TRUE)
    BY <2>1 DEF with_kernel_tables, entry
  <2> QED
    BY <2>2, <2>3
<1> QED
  BY <1>4, <1>5

LEMMA TableOfAddress ==
  ASSUME NEW a \in Nat, NEW n \in Nat, a < n * Span, NEW i \in Nat,
         NEW j \in 0..(TableEntries - 1), NEW b \in 0..(PageSize - 1), IsAt(a, i, j, b)
  PROVE  i < n
<1>1. Span \in Nat \ {0} /\ PageSize \in Nat \ {0} /\ TableEntries \in Nat \ {0}
  BY PageSizes
<1>2. j \in Nat /\ b \in Nat
  BY <1>1
<1>3. i * Span \in Nat /\ n * Span \in Nat /\ j * PageSize \in Nat
  BY <1>1, <1>2
<1>4. i * Span <= a
  BY <1>2, <1>3 DEF IsAt
<1> SUFFICES ASSUME n <= i PROVE FALSE
  BY <1>1
<1>5. CASE n = i
  BY <1>3, <1>4, <1>5
<1>6. CASE n < i
  <2>1. n * Span + Span <= i * Span
    BY <1>1, <1>6, TimesGrows
  <2> QED
    BY ONLY <1>1, <1>3, <1>4, <2>1, a < n * Span, a \in Nat
<1> QED
  BY <1>5, <1>6

(* An address that one of the n tables of the window maps.                 *)
LEMMA MappedAddress ==
  ASSUME NEW dir, NEW n \in 0..DirEntries,
         \A i \in 0..(n - 1) : KernelTable + i < DirEntries => dir[KernelTable + i] = table(i),
         NEW a \in 0..(n * Span - 1), KernelTable + n <= DirEntries \/ KERNEL_VADDR_OFFSET + a < Space
  PROVE  walk(dir, KERNEL_VADDR_OFFSET + a) = a
<1>1. /\ DirEntries \in Nat \ {0} /\ KernelTable \in Nat \ {0} /\ Span \in Nat \ {0}
      /\ Space \in Nat \ {0} /\ Space = Span * DirEntries
      /\ KERNEL_VADDR_OFFSET = KernelTable * Span
      /\ PageSize \in Nat \ {0} /\ TableEntries \in Nat \ {0}
  BY PageSizes
<1>2. n \in Nat /\ n <= DirEntries /\ n * Span \in Nat
  BY <1>1
<1>3. a \in Nat /\ a < n * Span
  BY <1>2
<1>4. PICK i \in Nat, j \in 0..(TableEntries - 1), b \in 0..(PageSize - 1) : IsAt(a, i, j, b)
  BY <1>3, AddressParts
<1>5. i < n
  BY <1>2, <1>3, <1>4, TableOfAddress
<1> DEFINE e == KernelTable + i  x == KERNEL_VADDR_OFFSET + a
<1>6. IsAt(x, e, j, b)
  <2>1. j \in Nat /\ b \in Nat /\ i \in Nat
    BY <1>1
  <2>2. i * Span \in Nat /\ KernelTable * Span \in Nat /\ j * PageSize \in Nat
        /\ (KernelTable + i) * Span = KernelTable * Span + i * Span
    BY <1>1, <2>1
  <2> QED
    BY <1>1, <1>4, <2>1, <2>2 DEF IsAt
<1>7. e < DirEntries
  <2>1. CASE KernelTable + n <= DirEntries
    BY <1>1, <1>2, <1>5, <2>1
  <2>2. CASE KERNEL_VADDR_OFFSET + a < Space
    <3>1. x \in Nat /\ e \in Nat /\ KernelTable * Span \in Nat
      BY <1>1, <1>3
    <3>2. x < DirEntries * Span
      BY <1>1, <2>2
    <3> HIDE DEF x, e
    <3> QED
      BY <1>1, <1>4, <1>6, <3>1, <3>2, TableOfAddress
  <2> QED
    BY <2>1, <2>2
<1>8. e \in 0..(DirEntries - 1) /\ i \in 0..(DirEntries - 1) /\ i \in 0..(n - 1)
  BY <1>1, <1>2, <1>5, <1>7
<1>9. dir[e] = table(i)
  BY <1>7, <1>8
<1> HIDE DEF e, x
<1> QED
  BY <1>4, <1>6, <1>8, <1>9, WalkThrough DEF x

(* The number of tables is the size over a table's bytes, rounded up.      *)
LEMMA TablesFor ==
  ASSUME NEW size \in Nat, size + Span <= Space
  PROVE  /\ (size + Span - 1) \div Span \in 0..DirEntries
         /\ size <= ((size + Span - 1) \div Span) * Span
<1>1. DirEntries \in Nat \ {0} /\ Span \in Nat \ {0} /\ Space = Span * DirEntries
  BY PageSizes
<1> DEFINE x == size + Span - 1  n == x \div Span  m == x % Span
<1>2. x \in Nat /\ x < Space
  BY <1>1
<1>3. x = Span * n + m /\ n \in Nat /\ m \in 0..(Span - 1)
  <2> HIDE DEF x
  <2> QED
    BY <1>1, <1>2
<1> HIDE DEF n, m
<1>4. Span * n = n * Span /\ n * Span \in Nat
  BY <1>1, <1>3
<1>5. size <= n * Span
  BY <1>1, <1>3, <1>4
<1>6. ~(DirEntries < n)
  <2> SUFFICES ASSUME DirEntries < n PROVE FALSE
    OBVIOUS
  <2>1. DirEntries * Span + Span <= n * Span
    BY <1>1, <1>3, TimesGrows
  <2>2. DirEntries * Span = Space /\ Space \in Int
    BY <1>1
  <2> QED
    BY <1>1, <1>2, <1>3, <1>4, <2>1, <2>2
<1>7. n \in 0..DirEntries
  BY <1>1, <1>3, <1>6
<1> QED
  BY <1>5, <1>7 DEF n

(* The first loop's tables, and the first one of them again at entry 0.    *)
LEMMA InitDirectory ==
  /\ \A a \in 0 .. InitTables * Span - 1 : walk(init_pg_dir, KERNEL_VADDR_OFFSET + a) = a
  /\ \A a \in 0 .. Span - 1 : walk(init_pg_dir, a) = a
<1>1. /\ DirEntries \in Nat \ {0} /\ KernelTable \in Nat \ {0} /\ InitTables \in Nat \ {0}
      /\ KernelTable + InitTables <= DirEntries /\ Span \in Nat \ {0}
  BY PageSizes
<1> DEFINE first == [unwritten EXCEPT ![0] = table(0)]
<1>2. init_pg_dir = with_kernel_tables(first, InitTables) /\ first[0] = table(0)
  <2>1. 0 \in 0..(DirEntries - 1)
    BY <1>1
  <2> QED
    BY <2>1 DEF init_pg_dir, unwritten
<1> HIDE DEF first
<1>3. InitTables \in 0..DirEntries
  BY ONLY <1>1
<1>4. /\ \A i \in 0..(InitTables - 1) : KernelTable + i < DirEntries =>
              init_pg_dir[KernelTable + i] = table(i)
      /\ init_pg_dir[0] = table(0)
  BY <1>1, <1>2, <1>3, KernelWindow
<1>5. ASSUME NEW a \in 0..(InitTables * Span - 1) PROVE walk(init_pg_dir, KERNEL_VADDR_OFFSET + a) = a
  BY <1>1, <1>3, <1>4, MappedAddress
<1>6. ASSUME NEW a \in 0..(Span - 1) PROVE walk(init_pg_dir, a) = a
  <2>1. a \in Nat
    BY <1>1
  <2>2. PICK i \in Nat, j \in 0..(TableEntries - 1), b \in 0..(PageSize - 1) : IsAt(a, i, j, b)
    BY <2>1, AddressParts
  <2>3. i = 0
    <3>1. i < 1
      BY <1>1, <2>2, TableOfAddress
    <3> QED
      BY ONLY <3>1, i \in Nat
  <2>4. 0 \in 0..(DirEntries - 1)
    BY <1>1
  <2> QED
    BY <1>4, <2>2, <2>3, <2>4, WalkThrough
<1> QED
  BY <1>5, <1>6

(* The size of memory is the end of the last usable region: no usable byte *)
(* is behind it.                                                           *)
LEMMA SizeCovers ==
  ASSUME NEW top \in Nat, top < Space, NEW map \in MemoryMaps(top), IsOrdered(map)
  PROVE  /\ mem_size(map) \in 0..top
         /\ \A r \in {map[i] : i \in DOMAIN map} : r.usable =>
              r.base \in Nat /\ r.length \in Int /\ r.base + r.length <= mem_size(map)
<1>1. PICK c \in 1 .. top, d \in 1 .. top, e \in 1 .. top, p \in BOOLEAN, q \in BOOLEAN, s \in BOOLEAN :
        map = <<[base |-> 0, length |-> c, usable |-> p],
                [base |-> c, length |-> d - c, usable |-> q],
                [base |-> d, length |-> e - d, usable |-> s]>>
  BY DEF MemoryMaps
<1>2. DOMAIN map = 1..3 /\ 1..3 = {1, 2, 3}
  BY <1>1
<1>3. /\ map[1].base = 0 /\ map[1].length = c /\ map[1].usable = p
      /\ map[2].base = c /\ map[2].length = d - c /\ map[2].usable = q
      /\ map[3].base = d /\ map[3].length = e - d /\ map[3].usable = s
  BY <1>1
<1>4. c \in Nat /\ d \in Nat /\ e \in Nat /\ c <= d /\ d <= e /\ e <= top
  <2>1. map[2].length >= 0 /\ map[3].length >= 0
    BY <1>2 DEF IsOrdered
  <2> QED
    BY <1>3, <2>1
<1> DEFINE usable == {i \in DOMAIN map : map[i].usable}
           k == CHOOSE i \in usable : \A j \in usable : j <= i
<1>5. mem_size(map) = IF usable = {} THEN 0 ELSE Word(map[k].base + map[k].length)
  BY DEF mem_size
<1>6. ASSUME usable # {} PROVE k \in usable /\ \A j \in usable : j <= k
  <2>1. \E i \in usable : \A j \in usable : j <= i
    BY <1>2, <1>6
  <2> QED
    BY <2>1
<1>7. \A i \in 1..3 : /\ map[i].base \in Nat /\ map[i].length \in Int
                      /\ map[i].base + map[i].length \in 0..top
                      /\ \A j \in 1..3 : j <= i => map[j].base + map[j].length <= map[i].base + map[i].length
  BY <1>2, <1>3, <1>4
<1>8. \A x \in 0..top : Word(x) = x
  <2>1. Space \in Nat \ {0}
    BY PageSizes
  <2> QED
    BY <2>1 DEF Word
<1> HIDE DEF k
<1>9. CASE usable = {}
  BY <1>5, <1>9
<1>10. CASE usable # {}
  <2>1. k \in 1..3 /\ \A j \in usable : j <= k
    BY <1>2, <1>6, <1>10
  <2>2. mem_size(map) = map[k].base + map[k].length /\ mem_size(map) \in 0..top
    BY <1>5, <1>7, <1>8, <1>10, <2>1
  <2> QED
    BY <1>2, <1>7, <2>1, <2>2
<1> QED
  BY <1>9, <1>10

(* MemoryManager's directory has a table for every usable byte.            *)
LEMMA KernelDirectory ==
  ASSUME NEW top \in Nat, top + Span <= Space, NEW map \in MemoryMaps(top), IsOrdered(map),
         NEW r \in {map[i] : i \in DOMAIN map}, r.usable,
         NEW a \in r.base .. r.base + r.length - 1, a < Space - KERNEL_VADDR_OFFSET
  PROVE  walk(kernel_dir(map), KERNEL_VADDR_OFFSET + a) = a
<1> DEFINE size == mem_size(map)  V == KERNEL_VADDR_OFFSET  last == Space - 1
           high == Word(V + size)  end == IF high < last THEN high ELSE last
           n == tables_for(Word(end - V))
<1>1. /\ DirEntries \in Nat \ {0} /\ KernelTable \in Nat \ {0} /\ KernelTable < DirEntries
      /\ Span \in Nat \ {0} /\ Space \in Nat \ {0} /\ Space = Span * DirEntries
      /\ V = KernelTable * Span /\ V \in Nat
  BY PageSizes
<1>2. size \in Nat /\ size + Span <= Space /\ a \in Nat /\ a < size
  <2>1. top < Space
    BY ONLY <1>1, top \in Nat, top + Span <= Space
  <2>2. size \in 0..top /\ r.base \in Nat /\ r.length \in Int /\ r.base + r.length <= size
    BY <2>1, SizeCovers
  <2> HIDE DEF size
  <2>3. a \in Nat /\ a < size
    BY <2>2
  <2> QED
    BY <1>1, <2>2, <2>3
<1>3. kernel_dir(map) = with_kernel_tables(unwritten, n)
  BY DEF kernel_dir
<1>4. V + Span <= Space
  <2>1. KernelTable * Span + Span <= DirEntries * Span
    BY <1>1, TimesGrows
  <2>2. DirEntries * Span = Space
    BY <1>1
  <2> QED
    BY <1>1, <2>1, <2>2
<1> HIDE DEF size, V
<1>5. \A x \in 0..(Space - 1) : Word(x) = x /\ Word(x + Space) = x /\ Word(x - Space) = x
  BY <1>1 DEF Word
<1>6. Word(end - V) = size
  <2>1. CASE V + size < Space
    <3>1. high = V + size
      BY <1>1, <1>2, <1>5, <2>1
    <3>2. end = V + size
      BY <1>1, <1>2, <2>1, <3>1
    <3>3. end - V = size
      BY <1>1, <1>2, <3>2
    <3> QED
      BY <1>1, <1>2, <1>5, <3>3
  <2>2. CASE ~(V + size < Space)
    <3> DEFINE x == V + size - Space
    <3>1. x \in 0..(Space - 1) /\ V + size = x + Space /\ x < last /\ x - V = size - Space
      BY <1>1, <1>2, <1>4, <2>2
    <3> HIDE DEF x
    <3>2. high = x /\ end = x
      BY <1>5, <3>1
    <3> QED
      BY <1>1, <1>2, <1>5, <3>1, <3>2
  <2> QED
    BY <2>1, <2>2
<1>7. n = (size + Span - 1) \div Span
  <2>1. size + Span - 1 \in 0..(Space - 1)
    BY <1>1, <1>2
  <2> QED
    BY <1>5, <1>6, <2>1 DEF tables_for
<1> HIDE DEF n
<1>8. n \in 0..DirEntries /\ a < n * Span
  BY <1>1, <1>2, <1>7, TablesFor
<1>9. /\ \A i \in 0..(n - 1) : KernelTable + i < DirEntries => kernel_dir(map)[KernelTable + i] = table(i)
  BY <1>3, <1>8, KernelWindow
<1>10. a \in 0..(n * Span - 1) /\ V + a < Space
  <2>1. n * Span \in Int
    BY <1>1, <1>8
  <2> QED
    BY <1>1, <1>2, <1>8, <2>1 DEF V
<1> QED
  BY <1>8, <1>9, <1>10, MappedAddress DEF V

(* All of the kernel's memory is mapped, whatever the memory map, as long  *)
(* as memory ends a table before the words do.                             *)
LEMMA KernelIsMappedLemma ==
  ASSUME NEW top \in Nat, top + Span <= Space
  PROVE  KernelIsMapped(top)
BY InitDirectory, KernelDirectory DEF KernelIsMapped

(* The memory maps that are considered end a table before the words do: a  *)
(* memory of 4 GB would have no size in 32 bits.                           *)
MemoryFits == MaxMemory \in Nat /\ MaxMemory + Span <= Space

(* Both page directories give every usable byte its address in the         *)
(* kernel's window, so that nothing moves when init_kernel_paging switches *)
(* from init_paging's directory to its own.                                *)
THEOREM AllMemoryIsMapped == MemoryFits => (Spec => []MemoryIsMapped)
<1> SUFFICES ASSUME MemoryFits PROVE Spec => []MemoryIsMapped
  OBVIOUS
<1>1. EveryMapIsMapped
  BY KernelIsMappedLemma DEF MemoryFits, EveryMapIsMapped
<1>2. MemoryIsMapped
  BY <1>1 DEF MemoryIsMapped
<1> QED
  BY <1>2, PTL
=============================================================================
