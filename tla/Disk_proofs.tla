----------------------------- MODULE Disk_proofs -----------------------------
(***************************************************************************)
(* The disk: init finds the drives there are, and a read gives the sectors *)
(* it was asked for, in all three ways to address them.  For buses, drives *)
(* and requests of every kind and number, bytes and geometries of every    *)
(* size, and whatever a file system or another caller reads in which       *)
(* order.                                                                  *)
(***************************************************************************)
EXTENDS Ext2FS, FiniteSetTheorems, SequenceTheorems, WellFoundedInduction, TLAPS

LEMMA LeastOf ==
  ASSUME NEW T \in SUBSET Nat, T # {}
  PROVE  \E n \in T : \A m \in T : n <= m
<1>1. PICK n \in T : \A m \in T : <<m, n>> \notin OpToRel(<, Nat)
  BY NatLessThanWellFounded, WFMin
<1>2. \A m \in T : ~(m < n)
  BY <1>1 DEF OpToRel
<1> QED
  BY <1>2

-----------------------------------------------------------------------------
(* The search of the bus                                                   *)

(* A function that counts as found is in a slot that is looked at, and the *)
(* first of its class there is another than 0:0.0.                         *)
LEMMA SlotHasFirst ==
  ASSUME NEW config, NEW class, NEW bus \in Buses, NEW slot \in Slots, NEW f \in Functions,
         <<bus, slot, f>> # NotFound,
         Reachable(config, <<bus, slot, f>>),
         config[<<bus, slot, f>>].class = class, ~config[<<bus, slot, f>>].multiple
  PROVE  enumerate_functions_in_slot(config, bus, slot, class) # {}
<1> DEFINE T == {g \in functions_of_slot(config, bus, slot) : match(config[<<bus, slot, g>>], class)}
<1>1. T \in SUBSET Nat
  BY PCIAssumption DEF functions_of_slot
<1>2. f \in T
  BY DEF Reachable, functions_of_slot, match, PCI_HEADER_TYPE_BRIDGE, PCI_MULTIPLE_FUNCTION
<1>3. PICK g \in T : \A h \in T : g <= h
  <2> HIDE DEF T
  <2> QED
    BY <1>1, <1>2, LeastOf
<1>4. \A h \in 0..g - 1 : ~match(config[<<bus, slot, h>>], class)
  <2> SUFFICES ASSUME NEW h \in 0..g - 1, match(config[<<bus, slot, h>>], class) PROVE FALSE
    OBVIOUS
  <2>1. PICK n \in Nat : Functions = 0..n
    BY PCIAssumption
  <2>2. g \in 0..n /\ g \in Nat /\ g # 0 /\ h \in Functions /\ h \in Nat /\ h < g
    BY <1>3, <2>1 DEF functions_of_slot
  <2>3. PCI_MULTIPLE_FUNCTION(config[<<bus, slot, 0>>]) /\ config[<<bus, slot, 0>>] # Absent
    BY <1>3, <2>2 DEF functions_of_slot
  <2>4. h \in T
    BY <2>2, <2>3 DEF functions_of_slot
  <2> HIDE DEF T
  <2> QED
    BY <1>3, <2>2, <2>4
<1>5. <<bus, slot, g>> # NotFound
  <2> SUFFICES ASSUME <<bus, slot, g>> = NotFound PROVE FALSE
    OBVIOUS
  <2>1. bus = 0 /\ slot = 0 /\ g = 0
    BY DEF NotFound
  <2>2. f # 0
    BY <2>1 DEF NotFound
  <2>3. config[<<bus, slot, 0>>].multiple
    BY <2>2 DEF Reachable
  <2> QED
    BY <1>3, <2>1, <2>3 DEF match, PCI_HEADER_TYPE_BRIDGE, PCI_MULTIPLE_FUNCTION
<1> QED
  BY <1>3, <1>4, <1>5 DEF enumerate_functions_in_slot

(* A function of the class that can be reached is found.                   *)
LEMMA SearchFinds ==
  ASSUME NEW config, NEW class, Findable(config, class)
  PROVE  target_found(find_device(config, class))
<1> DEFINE found == enumerate_devices(config, class)
           before(a, b) == a[1] < b[1] \/ (a[1] = b[1] /\ a[2] <= b[2])
<1>1. found # {}
  <2>1. PICK bus \in Buses, slot \in Slots, f \in Functions :
          /\ <<bus, slot, f>> # NotFound
          /\ Reachable(config, <<bus, slot, f>>)
          /\ config[<<bus, slot, f>>].class = class /\ ~config[<<bus, slot, f>>].multiple
    BY DEF Findable, PCIGeoAddresses
  <2>2. enumerate_functions_in_slot(config, bus, slot, class) # {}
    BY <2>1, SlotHasFirst
  <2>3. bus \in hosts(config)
    BY <2>1 DEF Reachable, hosts, PCI_MULTIPLE_FUNCTION
  <2> QED
    BY <2>2, <2>3 DEF enumerate_devices, enumerate_slots_in_bus
<1>2. \A a \in found : a # NotFound /\ a[1] \in Nat /\ a[2] \in Nat
  <2>1. Buses \subseteq Nat /\ Slots \subseteq Nat
    BY PCIAssumption
  <2>2. \A a \in found : \E i \in Buses, slot \in Slots :
          a \in enumerate_functions_in_slot(config, i, slot, class)
    <3> SUFFICES ASSUME NEW a \in found
                 PROVE  \E i \in Buses, slot \in Slots :
                          a \in enumerate_functions_in_slot(config, i, slot, class)
      OBVIOUS
    <3>1. PICK i \in hosts(config) : a \in enumerate_slots_in_bus(config, i, class)
      BY DEF enumerate_devices
    <3>2. PICK slot \in Slots : a \in enumerate_functions_in_slot(config, i, slot, class)
      BY <3>1 DEF enumerate_slots_in_bus
    <3>3. i \in Buses
      BY DEF hosts
    <3> QED
      BY <3>2, <3>3
  <2>3. \A i \in Buses, slot \in Slots : \A a \in enumerate_functions_in_slot(config, i, slot, class) :
          a # NotFound /\ a[1] = i /\ a[2] = slot
    <3> SUFFICES ASSUME NEW i \in Buses, NEW slot \in Slots,
                        NEW a \in enumerate_functions_in_slot(config, i, slot, class)
                 PROVE  a # NotFound /\ a[1] = i /\ a[2] = slot
      OBVIOUS
    <3>1. a # NotFound /\ \E g \in functions_of_slot(config, i, slot) : a = <<i, slot, g>>
      BY DEF enumerate_functions_in_slot
    <3> QED
      BY <3>1
  <2> QED
    BY <2>1, <2>2, <2>3
<1>3. \E a \in found : \A b \in found : before(a, b)
  <2> HIDE DEF found
  <2> DEFINE First == {a[1] : a \in found}
  <2>1. First \in SUBSET Nat /\ First # {}
    BY <1>1, <1>2
  <2>2. PICK i \in First : \A j \in First : i <= j
    <3> HIDE DEF First
    <3> QED
      BY <2>1, LeastOf
  <2> DEFINE Second == {a[2] : a \in {b \in found : b[1] = i}}
  <2>3. Second \in SUBSET Nat /\ Second # {}
    BY <1>2, <2>2
  <2>4. PICK k \in Second : \A j \in Second : k <= j
    <3> HIDE DEF Second
    <3> QED
      BY <2>3, LeastOf
  <2>5. PICK a \in found : a[1] = i /\ a[2] = k
    BY <2>4
  <2>6. ASSUME NEW b \in found PROVE before(a, b)
    <3>1. i <= b[1] /\ i \in Nat /\ b[1] \in Nat
      BY <1>2, <2>1, <2>2
    <3>2. b[1] = i => k <= b[2]
      BY <2>4
    <3> QED
      BY <2>5, <3>1, <3>2
  <2> QED
    BY <2>6
<1>4. find_device(config, class) = CHOOSE a \in found : \A b \in found : before(a, b)
  BY <1>1 DEF find_device
<1>5. find_device(config, class) \in found
  <2> HIDE DEF found, before
  <2> QED
    BY <1>3, <1>4
<1> QED
  BY <1>2, <1>5 DEF target_found

-----------------------------------------------------------------------------
(* A list of writes to registers is a fold: the ports go along a sequence  *)
(* c of what they hold.                                                    *)

LEMMA GreatestOf ==
  ASSUME NEW k \in Nat, NEW s \in SUBSET (0..k), s # {}
  PROVE  Max(s) \in s /\ \A x \in s : x <= Max(s)
<1> DEFINE T == {n \in Nat : \E x \in s : n = k - x}
<1>1. T \in SUBSET Nat /\ T # {}
  <2>1. PICK x \in s : TRUE
    OBVIOUS
  <2>2. k - x \in T
    BY <2>1
  <2> QED
    BY <2>2
<1>2. PICK n \in T : \A i \in T : n <= i
  <2> HIDE DEF T
  <2> QED
    BY <1>1, LeastOf
<1>3. PICK x \in s : n = k - x
  BY <1>2
<1>4. \A y \in s : y <= x
  BY <1>2, <1>3
<1> QED
  BY <1>4 DEF Max

LEMMA FirstNumbers ==
  ASSUME NEW k \in Nat
  PROVE  /\ 1..0 = {}
         /\ \A i \in 1..k : /\ (1..i) \in SUBSET (1..k) /\ (1..i) # {}
                            /\ Max(1..i) = i /\ (1..i) \ {i} = 1..(i - 1)
<1>1. ASSUME NEW i \in 1..k
      PROVE  (1..i) \in SUBSET (1..k) /\ (1..i) # {} /\ Max(1..i) = i /\ (1..i) \ {i} = 1..(i - 1)
  <2>1. i \in Nat /\ i \in 1..i /\ (1..i) \in SUBSET (0..i) /\ (1..i) # {}
    OBVIOUS
  <2>2. Max(1..i) \in 1..i /\ \A x \in 1..i : x <= Max(1..i)
    BY <2>1, GreatestOf
  <2>3. Max(1..i) = i
    BY <2>1, <2>2
  <2> QED
    BY <2>1, <2>3
<1> QED
  BY <1>1

Writes(p, w, k, c) == c[0] = p /\ \A i \in 1..k : c[i] = write_reg(c[i - 1], w[i][1], w[i][2])

(* The function behind the fold, over sets of positions in the list.       *)
Folded(p, w, k, f) ==
  [s \in SUBSET (1..k) |->
     IF s = {} THEN p ELSE write_reg(f[s \ {Max(s)}], w[Max(s)][1], w[Max(s)][2])]

LEMMA FoldExists ==
  ASSUME NEW p, NEW w
  PROVE  \A k \in Nat : \E f : f = Folded(p, w, k, f)
<1> DEFINE T == {k \in Nat : ~\E f : f = Folded(p, w, k, f)}
<1> SUFFICES ASSUME T # {} PROVE FALSE
  OBVIOUS
<1>1. PICK n \in T : \A l \in T : n <= l
  <2>1. T \in SUBSET Nat
    OBVIOUS
  <2> HIDE DEF T
  <2> QED
    BY <2>1, LeastOf
<1>2. 0 \notin T
  <2> DEFINE e == [s \in SUBSET (1..0) |-> p]
  <2>1. \A s \in SUBSET (1..0) : s = {}
    OBVIOUS
  <2>2. e = Folded(p, w, 0, e)
    BY <2>1 DEF Folded
  <2> QED
    BY <2>2
<1>3. n # 0 /\ n \in Nat /\ n - 1 \in Nat
  BY <1>1, <1>2
<1>4. PICK f : f = Folded(p, w, n - 1, f)
  <2>1. n - 1 \in Nat /\ n - 1 \notin T
    BY <1>1, <1>3
  <2> QED
    BY <2>1
<1> DEFINE g == [s \in SUBSET (1..n) |->
                   IF n \in s THEN write_reg(f[s \ {n}], w[n][1], w[n][2]) ELSE f[s]]
<1>5. ASSUME NEW s \in SUBSET (1..n)
      PROVE  g[s] = IF s = {} THEN p ELSE write_reg(g[s \ {Max(s)}], w[Max(s)][1], w[Max(s)][2])
  <2>1. \A t \in SUBSET (1..n - 1) : t \in SUBSET (1..n) /\ n \notin t /\ g[t] = f[t]
    BY <1>3
  <2>2. \A t \in SUBSET (1..n - 1) :
          f[t] = IF t = {} THEN p ELSE write_reg(f[t \ {Max(t)}], w[Max(t)][1], w[Max(t)][2])
    BY <1>4 DEF Folded
  <2>3. CASE n \in s
    <3>1. s \in SUBSET (0..n) /\ s # {}
      BY <2>3
    <3>2. Max(s) \in s /\ \A x \in s : x <= Max(s)
      BY <1>3, <3>1, GreatestOf
    <3>3. Max(s) = n
      <4>1. Max(s) \in 1..n /\ n <= Max(s)
        BY <2>3, <3>2
      <4> HIDE DEF g
      <4> QED
        BY <1>3, <4>1
    <3>4. s \ {n} \in SUBSET (1..n - 1)
      BY <1>3
    <3>5. g[s] = write_reg(f[s \ {n}], w[n][1], w[n][2])
      BY <2>3
    <3> HIDE DEF g
    <3> QED
      BY <2>1, <3>1, <3>3, <3>4, <3>5
  <2>4. CASE n \notin s /\ s # {}
    <3>1. s \in SUBSET (1..n - 1)
      BY <1>3, <2>4
    <3>2. s \ {Max(s)} \in SUBSET (1..n - 1)
      BY <3>1
    <3> HIDE DEF g
    <3> QED
      BY <2>1, <2>2, <2>4, <3>1, <3>2
  <2>5. CASE s = {}
    <3>1. s \in SUBSET (1..n - 1)
      BY <2>5
    <3> HIDE DEF g
    <3> QED
      BY <2>1, <2>2, <2>5, <3>1
  <2> QED
    BY <2>3, <2>4, <2>5
<1>6. g = Folded(p, w, n, g)
  <2>1. g = [s \in SUBSET (1..n) |-> g[s]]
    OBVIOUS
  <2> HIDE DEF g
  <2> QED
    BY <1>5, <2>1 DEF Folded
<1> QED
  BY <1>1, <1>6

LEMMA WritesGoAlong ==
  ASSUME NEW p, NEW w, NEW k \in Nat, DOMAIN w = 1..k
  PROVE  \E c : Writes(p, w, k, c) /\ write_regs(p, w) = c[k]
<1> DEFINE fold == CHOOSE f : f = Folded(p, w, k, f)
           r == [i \in 0..k |-> fold[1..i]]
<1>1. write_regs(p, w) = fold[1..k]
  BY DEF write_regs, FoldLeft, MapThenFoldSet, Folded
<1>2. fold = Folded(p, w, k, fold)
  BY FoldExists
<1>3. \A s \in SUBSET (1..k) :
        fold[s] = IF s = {} THEN p ELSE write_reg(fold[s \ {Max(s)}], w[Max(s)][1], w[Max(s)][2])
  <2> HIDE DEF fold
  <2> QED
    BY <1>2 DEF Folded
<1>4. {} \in SUBSET (1..k) /\ \A i \in 0..k : r[i] = fold[1..i]
  <2> HIDE DEF fold
  <2> QED
    OBVIOUS
<1>first. /\ 1..0 = {}
          /\ \A i \in 1..k : /\ (1..i) \in SUBSET (1..k) /\ (1..i) # {}
                             /\ Max(1..i) = i /\ (1..i) \ {i} = 1..(i - 1)
  BY FirstNumbers
<1>5. Writes(p, w, k, r)
  <2>1. r[0] = p
    <3>1. r[0] = fold[1..0]
      BY <1>4
    <3> HIDE DEF fold, r
    <3> QED
      BY <1>3, <1>4, <1>first, <3>1
  <2>2. ASSUME NEW i \in 1..k PROVE r[i] = write_reg(r[i - 1], w[i][1], w[i][2])
    <3>1. i \in 0..k /\ i - 1 \in 0..k
      OBVIOUS
    <3> HIDE DEF fold, r
    <3>2. r[i] = fold[1..i] /\ r[i - 1] = fold[1..(i - 1)]
      BY <1>4, <3>1
    <3>3. fold[1..i] = write_reg(fold[(1..i) \ {Max(1..i)}], w[Max(1..i)][1], w[Max(1..i)][2])
      BY <1>3, <1>first
    <3> QED
      BY <1>first, <3>2, <3>3
  <2> HIDE DEF r
  <2> QED
    BY <2>1, <2>2 DEF Writes
<1> QED
  <2>1. k \in 0..k
    OBVIOUS
  <2> HIDE DEF fold, r
  <2> QED
    BY <1>1, <1>4, <1>5, <2>1

-----------------------------------------------------------------------------
(* What the ports hold once a read is set up                               *)

PortNames == {"count", "low", "mid", "high", "HDDEVSEL"}

IsPorts(p) == p = [r \in PortNames |-> p[r]]

LEMMA OneWrite ==
  ASSUME NEW p, NEW reg, NEW data, IsPorts(p), port(reg) \in PortNames
  PROVE  /\ IsPorts(write_reg(p, reg, data))
         /\ write_reg(p, reg, data)[port(reg)].now = data
         /\ write_reg(p, reg, data)[port(reg)].before = p[port(reg)].now
         /\ \A r \in PortNames \ {port(reg)} : write_reg(p, reg, data)[r] = p[r]
<1> DEFINE o == port(reg)
<1>1. write_reg(p, reg, data) =
        [r \in PortNames |-> IF r = o THEN [now |-> data, before |-> p[o].now] ELSE p[r]]
  BY DEF IsPorts, write_reg
<1> HIDE DEF o
<1> QED
  BY <1>1 DEF IsPorts, o

LEMMA PortOf ==
  /\ port("HDDEVSEL") = "HDDEVSEL"
  /\ port("SECCOUNT0") = "count" /\ port("SECCOUNT1") = "count"
  /\ port("LBA0") = "low" /\ port("LBA3") = "low"
  /\ port("LBA1") = "mid" /\ port("LBA4") = "mid"
  /\ port("LBA2") = "high" /\ port("LBA5") = "high"
  BY DEF port

(* CHS and LBA28 write five bytes.                                         *)
ShortList(h, n, x, y, z) ==
  <<<<"HDDEVSEL", h>>, <<"SECCOUNT0", n>>, <<"LBA0", x>>, <<"LBA1", y>>, <<"LBA2", z>>>>

LEMMA ShortWrites ==
  ASSUME NEW p, IsPorts(p), NEW h, NEW n, NEW x, NEW y, NEW z
  PROVE  LET q == write_regs(p, ShortList(h, n, x, y, z))
         IN  /\ IsPorts(q)
             /\ q["HDDEVSEL"].now = h /\ q["count"].now = n
             /\ q["low"].now = x /\ q["mid"].now = y /\ q["high"].now = z
<1> DEFINE w == ShortList(h, n, x, y, z)
<1>1. DOMAIN w = 1..5
  BY DEF ShortList
<1>2. PICK c : Writes(p, w, 5, c) /\ write_regs(p, w) = c[5]
  <2> DEFINE last == 5
  <2>1. last \in Nat /\ DOMAIN w = 1..last
    BY <1>1
  <2> HIDE DEF w, last
  <2>2. \E c : Writes(p, w, last, c) /\ write_regs(p, w) = c[last]
    BY ONLY <2>1, WritesGoAlong
  <2> QED
    BY ONLY <2>2 DEF last
<1>3. /\ c[0] = p
      /\ c[1] = write_reg(c[0], "HDDEVSEL", h) /\ c[2] = write_reg(c[1], "SECCOUNT0", n)
      /\ c[3] = write_reg(c[2], "LBA0", x) /\ c[4] = write_reg(c[3], "LBA1", y)
      /\ c[5] = write_reg(c[4], "LBA2", z)
  BY <1>2 DEF Writes, ShortList
<1> HIDE DEF w
<1>4. IsPorts(c[1]) /\ c[1]["HDDEVSEL"].now = h
  BY <1>3, OneWrite, PortOf DEF PortNames
<1>5. IsPorts(c[2]) /\ c[2]["HDDEVSEL"].now = h /\ c[2]["count"].now = n
  BY <1>3, <1>4, OneWrite, PortOf DEF PortNames
<1>6. IsPorts(c[3]) /\ c[3]["HDDEVSEL"].now = h /\ c[3]["count"].now = n /\ c[3]["low"].now = x
  BY <1>3, <1>5, OneWrite, PortOf DEF PortNames
<1>7. /\ IsPorts(c[4]) /\ c[4]["HDDEVSEL"].now = h /\ c[4]["count"].now = n
      /\ c[4]["low"].now = x /\ c[4]["mid"].now = y
  BY <1>3, <1>6, OneWrite, PortOf DEF PortNames
<1>8. /\ IsPorts(c[5]) /\ c[5]["HDDEVSEL"].now = h /\ c[5]["count"].now = n
      /\ c[5]["low"].now = x /\ c[5]["mid"].now = y /\ c[5]["high"].now = z
  BY <1>3, <1>7, OneWrite, PortOf DEF PortNames
<1> QED
  BY <1>2, <1>8 DEF w

(* LBA48 writes two bytes to most ports, the old ones first.               *)
LongList(h, n, top, x, y, z) ==
  <<<<"HDDEVSEL", h>>, <<"SECCOUNT1", 0>>, <<"LBA3", top>>, <<"LBA4", 0>>, <<"LBA5", 0>>,
    <<"SECCOUNT0", n>>, <<"LBA0", x>>, <<"LBA1", y>>, <<"LBA2", z>>>>

LEMMA LongWrites ==
  ASSUME NEW p, IsPorts(p), NEW h, NEW n, NEW top, NEW x, NEW y, NEW z
  PROVE  LET q == write_regs(p, LongList(h, n, top, x, y, z))
         IN  /\ IsPorts(q)
             /\ q["HDDEVSEL"].now = h
             /\ q["count"].now = n /\ q["count"].before = 0
             /\ q["low"].now = x /\ q["low"].before = top
             /\ q["mid"].now = y /\ q["high"].now = z
<1> DEFINE w == LongList(h, n, top, x, y, z)
<1>1. DOMAIN w = 1..9
  BY DEF LongList
<1>2. PICK c : Writes(p, w, 9, c) /\ write_regs(p, w) = c[9]
  <2> DEFINE last == 9
  <2>1. last \in Nat /\ DOMAIN w = 1..last
    BY <1>1
  <2> HIDE DEF w, last
  <2>2. \E c : Writes(p, w, last, c) /\ write_regs(p, w) = c[last]
    BY ONLY <2>1, WritesGoAlong
  <2> QED
    BY ONLY <2>2 DEF last
<1>3. /\ c[0] = p
      /\ c[1] = write_reg(c[0], "HDDEVSEL", h) /\ c[2] = write_reg(c[1], "SECCOUNT1", 0)
      /\ c[3] = write_reg(c[2], "LBA3", top) /\ c[4] = write_reg(c[3], "LBA4", 0)
      /\ c[5] = write_reg(c[4], "LBA5", 0) /\ c[6] = write_reg(c[5], "SECCOUNT0", n)
      /\ c[7] = write_reg(c[6], "LBA0", x) /\ c[8] = write_reg(c[7], "LBA1", y)
      /\ c[9] = write_reg(c[8], "LBA2", z)
  BY <1>2 DEF Writes, LongList
<1> HIDE DEF w
<1>4. IsPorts(c[1]) /\ c[1]["HDDEVSEL"].now = h
  BY <1>3, OneWrite, PortOf DEF PortNames
<1>5. IsPorts(c[2]) /\ c[2]["HDDEVSEL"].now = h /\ c[2]["count"].now = 0
  BY <1>3, <1>4, OneWrite, PortOf DEF PortNames
<1>6. IsPorts(c[3]) /\ c[3]["HDDEVSEL"].now = h /\ c[3]["count"].now = 0 /\ c[3]["low"].now = top
  BY <1>3, <1>5, OneWrite, PortOf DEF PortNames
<1>7. IsPorts(c[4]) /\ c[4]["HDDEVSEL"].now = h /\ c[4]["count"].now = 0 /\ c[4]["low"].now = top
  BY <1>3, <1>6, OneWrite, PortOf DEF PortNames
<1>8. IsPorts(c[5]) /\ c[5]["HDDEVSEL"].now = h /\ c[5]["count"].now = 0 /\ c[5]["low"].now = top
  BY <1>3, <1>7, OneWrite, PortOf DEF PortNames
<1>9. /\ IsPorts(c[6]) /\ c[6]["HDDEVSEL"].now = h
      /\ c[6]["count"].now = n /\ c[6]["count"].before = 0 /\ c[6]["low"].now = top
  BY <1>3, <1>8, OneWrite, PortOf DEF PortNames
<1>10. /\ IsPorts(c[7]) /\ c[7]["HDDEVSEL"].now = h
       /\ c[7]["count"].now = n /\ c[7]["count"].before = 0
       /\ c[7]["low"].now = x /\ c[7]["low"].before = top
  BY <1>3, <1>9, OneWrite, PortOf DEF PortNames
<1>11. /\ IsPorts(c[8]) /\ c[8]["HDDEVSEL"].now = h
       /\ c[8]["count"].now = n /\ c[8]["count"].before = 0
       /\ c[8]["low"].now = x /\ c[8]["low"].before = top /\ c[8]["mid"].now = y
  BY <1>3, <1>10, OneWrite, PortOf DEF PortNames
<1>12. /\ IsPorts(c[9]) /\ c[9]["HDDEVSEL"].now = h
       /\ c[9]["count"].now = n /\ c[9]["count"].before = 0
       /\ c[9]["low"].now = x /\ c[9]["low"].before = top
       /\ c[9]["mid"].now = y /\ c[9]["high"].now = z
  BY <1>3, <1>11, OneWrite, PortOf DEF PortNames
<1> QED
  BY <1>2, <1>12 DEF w

-----------------------------------------------------------------------------
(* Arithmetic of addresses                                                 *)

LEMMA DivisionIs ==
  ASSUME NEW D \in Nat \ {0}, NEW q \in Nat, NEW r \in 0..(D - 1)
  PROVE  (q * D + r) \div D = q /\ (q * D + r) % D = r
  OBVIOUS

LEMMA Divided ==
  ASSUME NEW x \in Nat, NEW D \in Nat \ {0}
  PROVE  /\ x \div D \in Nat /\ x % D \in 0..(D - 1)
         /\ x = D * (x \div D) + (x % D)
  OBVIOUS

LEMMA ProductsAgree ==
  ASSUME NEW a \in Nat, NEW b \in Nat, NEW c \in Nat
  PROVE  /\ a * b \in Nat /\ a * b = b * a
         /\ a * (b + c) = a * b + a * c /\ (a * b) * c = a * (b * c)
  OBVIOUS

LEMMA DivideTwice ==
  ASSUME NEW x \in Nat, NEW B \in Nat \ {0}, NEW C \in Nat \ {0}
  PROVE  x \div (C * B) = (x \div B) \div C
<1> DEFINE a == x \div B  r == x % B  b == a \div C  s == a % C
<1>1. a \in Nat /\ r \in 0..(B - 1) /\ x = B * a + r
  BY Divided
<1>2. b \in Nat /\ s \in 0..(C - 1) /\ a = C * b + s
  <2> HIDE DEF a
  <2> QED
    BY <1>1, Divided
<1> HIDE DEF a, r, b, s
<1>3. x = b * (C * B) + (s * B + r)
  <2>1. B * a = B * (C * b) + B * s
    BY <1>1, <1>2, ProductsAgree
  <2>2. B * (C * b) = b * (C * B) /\ B * s = s * B
    BY <1>2, ProductsAgree
  <2>3. s * B \in Nat /\ b * (C * B) \in Nat
    BY <1>2, ProductsAgree
  <2> QED
    BY <1>1, <2>1, <2>2, <2>3
<1>4. s * B + r \in 0..(C * B - 1)
  <2>1. (s + 1) * B = s * B + B /\ s * B \in Nat /\ C * B \in Nat
    BY <1>2
  <2>2. (s + 1) * B <= C * B
    <3>1. C = (s + 1) + (C - s - 1) /\ C - s - 1 \in Nat
      BY <1>2
    <3>2. C * B = (s + 1) * B + (C - s - 1) * B /\ (C - s - 1) * B \in Nat
      BY <1>2, <3>1
    <3> QED
      BY <1>2, <2>1, <3>2
  <2> QED
    BY <1>1, <2>1, <2>2
<1>5. C * B \in Nat \ {0}
  OBVIOUS
<1>6. (b * (C * B) + (s * B + r)) \div (C * B) = b
  <2> DEFINE D == C * B  t == s * B + r
  <2>1. D \in Nat \ {0} /\ b \in Nat /\ t \in 0..(D - 1)
    BY <1>2, <1>4, <1>5
  <2>2. (b * D + t) \div D = b
    <3> HIDE DEF D, t
    <3> QED
      BY <2>1, DivisionIs
  <2> QED
    BY <2>2
<1> QED
  BY <1>3, <1>6 DEF a, b

(* A number is its bytes.                                                  *)
LEMMA BytesOf ==
  ASSUME NEW x \in Nat, NEW B \in Nat \ {0}
  PROVE  /\ x \div (B * B) \in Nat /\ x \div (B * B * B) \in Nat
         /\ (x % B) + B * ((x \div B) % B) + B * B * ((x \div (B * B)) % B)
              + B * B * B * (x \div (B * B * B)) = x
<1> DEFINE y == x \div B  z == y \div B  v == z \div B
<1>1. y \in Nat /\ x % B \in Nat /\ x = B * y + (x % B)
  BY Divided
<1>2. z \in Nat /\ y % B \in Nat /\ y = B * z + (y % B)
  <2>1. y \in Nat
    BY <1>1
  <2> HIDE DEF y
  <2>2. /\ y \div B \in Nat /\ y % B \in 0..(B - 1)
        /\ y = B * (y \div B) + (y % B)
    BY ONLY <2>1, Divided, B \in Nat \ {0}
  <2> QED
    BY <2>2
<1>3. v \in Nat /\ z % B \in Nat /\ z = B * v + (z % B)
  <2>1. z \in Nat
    BY <1>2
  <2> HIDE DEF z
  <2>2. /\ z \div B \in Nat /\ z % B \in 0..(B - 1)
        /\ z = B * (z \div B) + (z % B)
    BY ONLY <2>1, Divided, B \in Nat \ {0}
  <2> QED
    BY <2>2
<1>4. x \div (B * B) = z
  BY DivideTwice
<1>5. x \div (B * B * B) = v
  <2>1. x \div ((B * B) * B) = (x \div B) \div (B * B)
    <3>1. B * B \in Nat \ {0}
      OBVIOUS
    <3> QED
      BY <3>1, DivideTwice
  <2>2. (x \div B) \div (B * B) = ((x \div B) \div B) \div B
    BY <1>1, DivideTwice
  <2> QED
    BY <2>1, <2>2
<1> DEFINE p == x % B  q == y % B  r == z % B
<1>6. x = p + B * q + B * B * r + B * B * B * v
  <2> HIDE DEF y, z, v, p, q, r
  <2>0. p \in Nat /\ q \in Nat /\ r \in Nat /\ v \in Nat
    BY <1>1, <1>2, <1>3 DEF p, q, r
  <2>1. x = B * y + p /\ y = B * z + q /\ z = B * v + r
    BY <1>1, <1>2, <1>3 DEF p, q, r
  <2>2. B * y = B * (B * z) + B * q /\ B * (B * z) = B * B * z
    BY <1>2, <2>0, <2>1, ProductsAgree
  <2>3. B * B * z = B * B * (B * v) + B * B * r /\ B * B * (B * v) = B * B * B * v
    BY <1>3, <2>0, <2>1, ProductsAgree
  <2>4. {B * q, B * B * r, B * B * B * v} \subseteq Nat
    BY <2>0
  <2> QED
    BY ONLY <2>0, <2>1, <2>2, <2>3, <2>4
<1> QED
  BY <1>2, <1>3, <1>4, <1>5, <1>6

(* A number is its cylinder, head and sector.                              *)
LEMMA CylinderHeadSector ==
  ASSUME NEW x \in Nat, NEW S \in Nat \ {0}, NEW H \in Nat \ {0}, NEW B \in Nat \ {0}
  PROVE  LET track == ((x + 1) - ((x % S) + 1)) \div S
             cyl == (track \div H) % (B * B)
         IN  /\ track \in Nat /\ track % H \in Nat /\ cyl \in Nat
             /\ cyl % B \in Nat /\ cyl \div B \in Nat
             /\ x < H * S * B * B =>
                  (H * ((cyl % B) + B * (cyl \div B)) + (track % H)) * S + ((x % S) + 1) - 1 = x
<1> DEFINE track == ((x + 1) - ((x % S) + 1)) \div S  t == x \div S  s == x % S
           c == t \div H  cyl == c % (B * B)
<1>1. t \in Nat /\ s \in 0..(S - 1) /\ x = S * t + s
  BY Divided
<1>2. track = t
  <2> HIDE DEF t, s
  <2>1. (x + 1) - (s + 1) = t * S + 0
    BY <1>1, ProductsAgree
  <2>2. 0 \in 0..(S - 1)
    OBVIOUS
  <2>3. (t * S + 0) \div S = t
    BY <1>1, <2>2, DivisionIs
  <2> QED
    BY <2>1, <2>3 DEF s
<1>3. c \in Nat /\ t % H \in 0..(H - 1) /\ t = H * c + (t % H)
  <2> HIDE DEF t
  <2> QED
    BY ONLY <1>1, Divided, H \in Nat \ {0}
<1>4. B * B \in Nat \ {0}
  OBVIOUS
<1>5. cyl \in 0..(B * B - 1)
  <2> HIDE DEF c
  <2> QED
    BY ONLY <1>3, <1>4, Divided
<1>6. cyl \div B \in Nat /\ cyl % B \in 0..(B - 1) /\ cyl = B * (cyl \div B) + (cyl % B)
  <2>1. cyl \in Nat
    BY <1>5
  <2> HIDE DEF cyl
  <2> QED
    BY ONLY <2>1, Divided, B \in Nat \ {0}
<1>7. ASSUME x < H * S * B * B PROVE cyl = c
  <2>1. c < B * B
    <3> SUFFICES ASSUME B * B <= c PROVE FALSE
      BY <1>3, <1>4
    <3> HIDE DEF c, t, s
    <3>1. PICK e \in Nat : c = B * B + e
      <4>1. c - B * B \in Nat /\ c = B * B + (c - B * B)
        BY <1>3, <1>4
      <4> QED
        BY <4>1
    <3>2. H * c = H * (B * B) + H * e /\ H * e \in Nat /\ H * (B * B) \in Nat
      BY <1>4, <3>1
    <3>3. t = H * (B * B) + (H * e + (t % H)) /\ H * e + (t % H) \in Nat
      <4> DEFINE r == t % H
      <4>1. r \in Nat /\ t = H * c + r
        BY <1>3
      <4> HIDE DEF r
      <4>2. t = H * (B * B) + (H * e + r) /\ H * e + r \in Nat
        BY ONLY <3>2, <4>1
      <4> QED
        BY <4>2 DEF r
    <3>4. PICK g \in Nat : t = H * (B * B) + g
      BY <3>3
    <3>5. S * t = S * (H * (B * B)) + S * g /\ S * g \in Nat /\ S * (H * (B * B)) \in Nat
      BY <3>2, <3>4
    <3>6. S * (H * (B * B)) = H * S * B * B
      BY <1>4
    <3> QED
      BY <1>1, <1>7, <3>5, <3>6
  <2>2. c \in 0..(B * B - 1) /\ c = 0 * (B * B) + c
    BY <1>3, <1>4, <2>1
  <2>3. (0 * (B * B) + c) % (B * B) = c
    <3> DEFINE D == B * B
    <3> HIDE DEF c, D
    <3>1. (0 * D + c) % D = c
      BY <1>4, <2>2, DivisionIs DEF D
    <3> QED
      BY <3>1 DEF D
  <2> QED
    BY <2>2, <2>3
<1>8. ASSUME x < H * S * B * B
      PROVE  (H * ((cyl % B) + B * (cyl \div B)) + (t % H)) * S + (s + 1) - 1 = x
  <2> HIDE DEF cyl, t, s, c
  <2>1. (cyl % B) + B * (cyl \div B) = c
    BY <1>3, <1>6, <1>7, <1>8
  <2>2. H * c + (t % H) = t /\ t * S = S * t
    BY <1>1, <1>3, ProductsAgree
  <2> QED
    BY <1>1, <2>1, <2>2
<1> DEFINE cyl2 == (track \div H) % (B * B)
<1>9. cyl2 = cyl
  <2> HIDE DEF track, t
  <2> QED
    BY <1>2
<1> HIDE DEF track, cyl, t
<1>10. /\ track \in Nat /\ track % H \in Nat /\ cyl \in Nat
       /\ cyl % B \in Nat /\ cyl \div B \in Nat
       /\ x < H * S * B * B =>
            (H * ((cyl % B) + B * (cyl \div B)) + (track % H)) * S + (s + 1) - 1 = x
  BY <1>1, <1>2, <1>3, <1>4, <1>5, <1>6, <1>8
<1> HIDE DEF cyl2
<1>11. /\ track \in Nat /\ track % H \in Nat /\ cyl2 \in Nat
       /\ cyl2 % B \in Nat /\ cyl2 \div B \in Nat
       /\ x < H * S * B * B =>
            (H * ((cyl2 % B) + B * (cyl2 \div B)) + (track % H)) * S + (s + 1) - 1 = x
  BY <1>9, <1>10
<1> QED
  BY <1>11 DEF track, cyl2

-----------------------------------------------------------------------------
(* A read is set up right                                                  *)

Jobs ==
  [cmd : {"none", "IDENTIFY", "IDENTIFY_PACKET", "READ_PIO", "READ_PIO_EXT"}, lba : Int, left : Int]

Extended(d, lba) == lba_mode(d, lba) = "LBA48"
SetUp(p, d, lba, n) == write_regs(p, parameters(d, lba, n))
Asked(p, d, lba, n) == Addressed(SetUp(p, d, lba, n), Extended(d, lba))

(* The drive has no sectors that its way of addressing cannot name.        *)
InReach(d, lba) == lba_mode(d, lba) = "CHS" => lba < Heads * SectorsPerTrack * Byte * Byte

LEMMA Sizes ==
  /\ Byte \in Nat \ {0} /\ Nibble \in Nat \ {0} /\ Heads \in Nat \ {0}
  /\ SectorsPerTrack \in Nat \ {0} /\ Word \in Nat /\ LBA28Limit \in Nat
  /\ LBA28Limit + Byte <= Word
<1>1. /\ Byte \in Nat \ {0} /\ Nibble \in 1..Byte - 1 /\ Heads \in 1..Nibble
      /\ SectorsPerTrack \in 1..Byte - 1
  BY PATAAssumption
<1>2. Nibble \in Nat \ {0} /\ Heads \in Nat \ {0} /\ SectorsPerTrack \in Nat \ {0}
  BY <1>1
<1> DEFINE C == Byte * Byte * Byte
<1>3. C \in Nat \ {0} /\ Word = C * Byte /\ LBA28Limit = C * Nibble
  BY <1>1, <1>2 DEF Word, LBA28Limit
<1>4. Byte <= C
  BY <1>1
<1>5. PICK k \in Nat : Byte = Nibble + 1 + k
  <2>1. Byte - Nibble - 1 \in Nat /\ Byte = Nibble + 1 + (Byte - Nibble - 1)
    BY <1>1
  <2> QED
    BY <2>1
<1> HIDE DEF C
<1>6. C * Byte = C * Nibble + C + C * k /\ C * k \in Nat /\ C * Nibble \in Nat /\ C * Byte \in Nat
  BY <1>1, <1>2, <1>3, <1>5
<1> QED
  BY <1>1, <1>2, <1>3, <1>4, <1>6

TopByte(lba) == lba \div (Byte * Byte * Byte)
LowByte(lba) == lba % Byte
MidByte(lba) == (lba \div Byte) % Byte
HighByte(lba) == (lba \div (Byte * Byte)) % Byte

LEMMA JoinedTwo ==
  ASSUME NEW a, NEW b, NEW c, NEW d, NEW e
  PROVE  <<a>> \o <<>> \o <<b, c, d, e>> = <<a, b, c, d, e>>
<1> DEFINE S == {a, b, c, d, e}  t == <<b, c, d, e>>  z == <<a, b, c, d, e>>  r == <<a>> \o t
<1>1. <<a>> \in Seq(S) /\ t \in Seq(S) /\ z \in Seq(S) /\ Len(t) = 4 /\ Len(z) = 5 /\ Len(<<a>>) = 1
  OBVIOUS
<1>2. <<a>> \o <<>> = <<a>>
  BY <1>1, ConcatEmptySeq
<1>3. /\ r \in Seq(S) /\ Len(r) = 5
      /\ \A i \in 1..5 : r[i] = IF i <= 1 THEN a ELSE t[i - 1]
  <2> HIDE DEF S, t
  <2>1. /\ r \in Seq(S) /\ Len(r) = Len(<<a>>) + Len(t)
        /\ \A i \in 1..Len(<<a>>) + Len(t) : r[i] = IF i <= Len(<<a>>) THEN <<a>>[i] ELSE t[i - Len(<<a>>)]
    BY <1>1, ConcatProperties
  <2> HIDE DEF r
  <2> QED
    BY <1>1, <2>1
<1>4. r[1] = a /\ r[2] = b /\ r[3] = c /\ r[4] = d /\ r[5] = e
  <2> HIDE DEF r
  <2>1. r[1] = a /\ r[2] = t[1] /\ r[3] = t[2] /\ r[4] = t[3] /\ r[5] = t[4]
    BY <1>3
  <2> QED
    BY <2>1
<1>5. \A i \in 1..5 : r[i] = z[i]
  <2> HIDE DEF r
  <2>1. z[1] = a /\ z[2] = b /\ z[3] = c /\ z[4] = d /\ z[5] = e
    OBVIOUS
  <2> HIDE DEF z
  <2> QED
    BY <1>4, <2>1
<1>6. r = z
  <2> HIDE DEF r, z, S
  <2> QED
    BY <1>1, <1>3, <1>5, SeqEqual
<1> QED
  BY <1>2, <1>6

LEMMA JoinedThree ==
  ASSUME NEW a, NEW b, NEW c, NEW d, NEW e, NEW f, NEW g, NEW h, NEW i
  PROVE  <<a>> \o <<b, c, d, e>> \o <<f, g, h, i>> = <<a, b, c, d, e, f, g, h, i>>
<1> DEFINE S == {a, b, c, d, e, f, g, h, i}  s == <<a, b, c, d, e>>  t == <<f, g, h, i>>
           z == <<a, b, c, d, e, f, g, h, i>>  r == s \o t
<1>1. /\ <<a>> \in Seq(S) /\ <<b, c, d, e>> \in Seq(S) /\ s \in Seq(S)
      /\ t \in Seq(S) /\ Len(s) = 5 /\ Len(t) = 4
  OBVIOUS
<1>2. z \in Seq(S) /\ Len(z) = 9
  OBVIOUS
<1>3. <<a>> \o <<b, c, d, e>> = s
  <2>1. <<a>> \o <<>> = <<a>>
    BY <1>1, ConcatEmptySeq
  <2> QED
    BY <2>1, JoinedTwo
<1>4. /\ r \in Seq(S) /\ Len(r) = 9
      /\ \A k \in 1..9 : r[k] = IF k <= 5 THEN s[k] ELSE t[k - 5]
  <2> HIDE DEF S, s, t
  <2>1. /\ r \in Seq(S) /\ Len(r) = Len(s) + Len(t)
        /\ \A k \in 1..Len(s) + Len(t) : r[k] = IF k <= Len(s) THEN s[k] ELSE t[k - Len(s)]
    BY <1>1, ConcatProperties
  <2> HIDE DEF r
  <2> QED
    BY <1>1, <2>1
<1>5. /\ r[1] = a /\ r[2] = b /\ r[3] = c /\ r[4] = d /\ r[5] = e
      /\ r[6] = f /\ r[7] = g /\ r[8] = h /\ r[9] = i
  <2> HIDE DEF r
  <2>1. /\ r[1] = s[1] /\ r[2] = s[2] /\ r[3] = s[3] /\ r[4] = s[4] /\ r[5] = s[5]
        /\ r[6] = t[1] /\ r[7] = t[2] /\ r[8] = t[3] /\ r[9] = t[4]
    BY <1>4
  <2> QED
    BY <2>1
<1>6. \A k \in 1..9 : r[k] = z[k]
  <2> HIDE DEF r
  <2>1. /\ z[1] = a /\ z[2] = b /\ z[3] = c /\ z[4] = d /\ z[5] = e
        /\ z[6] = f /\ z[7] = g /\ z[8] = h /\ z[9] = i
    OBVIOUS
  <2> HIDE DEF z
  <2> QED
    BY <1>5, <2>1
<1>7. r = z
  <2> HIDE DEF r, z, S
  <2> QED
    BY <1>2, <1>4, <1>6, SeqEqual
<1> QED
  BY <1>3, <1>7

Track(lba) == ((lba + 1) - ((lba % SectorsPerTrack) + 1)) \div SectorsPerTrack
Cylinder(lba) == (Track(lba) \div Heads) % (Byte * Byte)

(* The parts of the list of writes.                                        *)
HeadOf(d, lba) ==
  CASE lba_mode(d, lba) = "CHS" -> Track(lba) % Heads
    [] lba_mode(d, lba) = "LBA28" -> TopByte(lba)
    [] lba_mode(d, lba) = "LBA48" -> 0

BytesFor(d, lba) ==
  IF lba_mode(d, lba) = "CHS"
  THEN <<(lba % SectorsPerTrack) + 1, Cylinder(lba) % Byte, Cylinder(lba) \div Byte>>
  ELSE <<LowByte(lba), MidByte(lba), HighByte(lba)>>

OldBytes(d, lba) ==
  IF lba_mode(d, lba) = "LBA48"
  THEN <<<<"SECCOUNT1", 0>>, <<"LBA3", TopByte(lba)>>, <<"LBA4", 0>>, <<"LBA5", 0>>>>
  ELSE <<>>

LEMMA PartsOfParameters ==
  ASSUME NEW d, NEW lba, NEW n
  PROVE  parameters(d, lba, n) =
           <<<<"HDDEVSEL", [slave |-> d[2], lba |-> lba_mode(d, lba) # "CHS", head |-> HeadOf(d, lba)]>>>>
           \o OldBytes(d, lba)
           \o <<<<"SECCOUNT0", n>>, <<"LBA0", BytesFor(d, lba)[1]>>,
                <<"LBA1", BytesFor(d, lba)[2]>>, <<"LBA2", BytesFor(d, lba)[3]>>>>
  BY DEF parameters, HeadOf, BytesFor, OldBytes, Track, Cylinder, TopByte, LowByte, MidByte, HighByte

LEMMA LongParameters ==
  ASSUME NEW d, NEW lba, NEW n, lba_mode(d, lba) = "LBA48"
  PROVE  parameters(d, lba, n) =
           LongList([slave |-> d[2], lba |-> TRUE, head |-> 0], n,
                    TopByte(lba), LowByte(lba), MidByte(lba), HighByte(lba))
<1>1. /\ (lba_mode(d, lba) # "CHS") = TRUE /\ HeadOf(d, lba) = 0
      /\ OldBytes(d, lba) = <<<<"SECCOUNT1", 0>>, <<"LBA3", TopByte(lba)>>, <<"LBA4", 0>>, <<"LBA5", 0>>>>
  BY DEF HeadOf, OldBytes
<1>2. /\ BytesFor(d, lba)[1] = LowByte(lba) /\ BytesFor(d, lba)[2] = MidByte(lba)
      /\ BytesFor(d, lba)[3] = HighByte(lba)
  BY DEF BytesFor
<1>3. parameters(d, lba, n) =
        <<<<"HDDEVSEL", [slave |-> d[2], lba |-> TRUE, head |-> 0]>>>>
        \o <<<<"SECCOUNT1", 0>>, <<"LBA3", TopByte(lba)>>, <<"LBA4", 0>>, <<"LBA5", 0>>>>
        \o <<<<"SECCOUNT0", n>>, <<"LBA0", LowByte(lba)>>, <<"LBA1", MidByte(lba)>>,
             <<"LBA2", HighByte(lba)>>>>
  BY <1>1, <1>2, PartsOfParameters
<1> DEFINE a == <<"HDDEVSEL", [slave |-> d[2], lba |-> TRUE, head |-> 0]>>
           b == <<"SECCOUNT1", 0>>  top == <<"LBA3", TopByte(lba)>>  y == <<"LBA4", 0>>
           z == <<"LBA5", 0>>  count == <<"SECCOUNT0", n>>  low == <<"LBA0", LowByte(lba)>>
           mid == <<"LBA1", MidByte(lba)>>  high == <<"LBA2", HighByte(lba)>>
<1>4. parameters(d, lba, n) = <<a>> \o <<b, top, y, z>> \o <<count, low, mid, high>>
  BY <1>3
<1>5. LongList([slave |-> d[2], lba |-> TRUE, head |-> 0], n,
               TopByte(lba), LowByte(lba), MidByte(lba), HighByte(lba))
        = <<a, b, top, y, z, count, low, mid, high>>
  BY DEF LongList
<1> HIDE DEF a, b, top, y, z, count, low, mid, high
<1>6. <<a>> \o <<b, top, y, z>> \o <<count, low, mid, high>>
        = <<a, b, top, y, z, count, low, mid, high>>
  BY JoinedThree
<1> QED
  BY <1>4, <1>5, <1>6

LEMMA LinearParameters ==
  ASSUME NEW d, NEW lba, NEW n, lba_mode(d, lba) = "LBA28"
  PROVE  parameters(d, lba, n) =
           ShortList([slave |-> d[2], lba |-> TRUE, head |-> TopByte(lba)], n,
                     LowByte(lba), MidByte(lba), HighByte(lba))
<1>1. /\ (lba_mode(d, lba) # "CHS") = TRUE /\ HeadOf(d, lba) = TopByte(lba)
      /\ OldBytes(d, lba) = <<>>
  BY DEF HeadOf, OldBytes
<1>2. /\ BytesFor(d, lba)[1] = LowByte(lba) /\ BytesFor(d, lba)[2] = MidByte(lba)
      /\ BytesFor(d, lba)[3] = HighByte(lba)
  BY DEF BytesFor
<1> DEFINE a == <<"HDDEVSEL", [slave |-> d[2], lba |-> TRUE, head |-> TopByte(lba)]>>
           b == <<"SECCOUNT0", n>>  low == <<"LBA0", LowByte(lba)>>
           mid == <<"LBA1", MidByte(lba)>>  high == <<"LBA2", HighByte(lba)>>
<1>3. parameters(d, lba, n) = <<a>> \o <<>> \o <<b, low, mid, high>>
  BY <1>1, <1>2, PartsOfParameters
<1>4. ShortList([slave |-> d[2], lba |-> TRUE, head |-> TopByte(lba)], n,
                LowByte(lba), MidByte(lba), HighByte(lba))
        = <<a, b, low, mid, high>>
  BY DEF ShortList
<1> HIDE DEF a, b, low, mid, high
<1>5. <<a>> \o <<>> \o <<b, low, mid, high>> = <<a, b, low, mid, high>>
  BY JoinedTwo
<1> QED
  BY <1>3, <1>4, <1>5

LEMMA GeometryParameters ==
  ASSUME NEW d, NEW lba, NEW n, lba_mode(d, lba) = "CHS"
  PROVE  parameters(d, lba, n) =
           ShortList([slave |-> d[2], lba |-> FALSE, head |-> Track(lba) % Heads], n,
                     (lba % SectorsPerTrack) + 1, Cylinder(lba) % Byte, Cylinder(lba) \div Byte)
<1>1. /\ (lba_mode(d, lba) # "CHS") = FALSE /\ HeadOf(d, lba) = Track(lba) % Heads
      /\ OldBytes(d, lba) = <<>>
  BY DEF HeadOf, OldBytes
<1>2. /\ BytesFor(d, lba)[1] = (lba % SectorsPerTrack) + 1
      /\ BytesFor(d, lba)[2] = Cylinder(lba) % Byte /\ BytesFor(d, lba)[3] = Cylinder(lba) \div Byte
  BY DEF BytesFor
<1> DEFINE a == <<"HDDEVSEL", [slave |-> d[2], lba |-> FALSE, head |-> Track(lba) % Heads]>>
           b == <<"SECCOUNT0", n>>  low == <<"LBA0", (lba % SectorsPerTrack) + 1>>
           mid == <<"LBA1", Cylinder(lba) % Byte>>  high == <<"LBA2", Cylinder(lba) \div Byte>>
<1>3. parameters(d, lba, n) = <<a>> \o <<>> \o <<b, low, mid, high>>
  BY <1>1, <1>2, PartsOfParameters
<1>4. ShortList([slave |-> d[2], lba |-> FALSE, head |-> Track(lba) % Heads], n,
                (lba % SectorsPerTrack) + 1, Cylinder(lba) % Byte, Cylinder(lba) \div Byte)
        = <<a, b, low, mid, high>>
  BY DEF ShortList
<1> HIDE DEF a, b, low, mid, high
<1>5. <<a>> \o <<>> \o <<b, low, mid, high>> = <<a, b, low, mid, high>>
  BY JoinedTwo
<1> QED
  BY <1>3, <1>4, <1>5

LEMMA ThreeModes ==
  ASSUME NEW d, NEW lba
  PROVE  lba_mode(d, lba) \in {"CHS", "LBA28", "LBA48"}
  BY DEF lba_mode

(* The bytes written name the very sector that was asked for, and all of   *)
(* the sectors asked for, in each of the three ways to address one.        *)
LEMMA AddressIsExact ==
  ASSUME NEW p, IsPorts(p), NEW d, NEW lba \in Nat, NEW n \in 0..Byte - 1
  PROVE  /\ IsPorts(SetUp(p, d, lba, n))
         /\ Asked(p, d, lba, n) \in Jobs
         /\ Asked(p, d, lba, n).cmd \in {"READ_PIO", "READ_PIO_EXT"}
         /\ n # 0 => Asked(p, d, lba, n).left = n
         /\ InReach(d, lba) => Asked(p, d, lba, n).lba = lba
<1> DEFINE q == SetUp(p, d, lba, n)  j == Asked(p, d, lba, n)
<1>1. /\ Byte \in Nat \ {0} /\ Heads \in Nat \ {0} /\ SectorsPerTrack \in Nat \ {0} /\ n \in Nat
  BY Sizes
<1>2. /\ TopByte(lba) \in Nat /\ LowByte(lba) \in Nat /\ MidByte(lba) \in Nat /\ HighByte(lba) \in Nat
      /\ LowByte(lba) + Byte * MidByte(lba) + Byte * Byte * HighByte(lba) + Byte * Byte * Byte * TopByte(lba) = lba
  <2>1. lba \div Byte \in Nat /\ lba % Byte \in Nat
    BY <1>1, Divided
  <2>2. lba \div (Byte * Byte) \in Nat
    BY <1>1, BytesOf
  <2>3. (lba \div Byte) % Byte \in Nat /\ (lba \div (Byte * Byte)) % Byte \in Nat
    BY <1>1, <2>1, <2>2, Divided
  <2> QED
    BY <1>1, <2>1, <2>3, BytesOf DEF TopByte, LowByte, MidByte, HighByte
<1>3. CASE lba_mode(d, lba) = "LBA48"
  <2>1. /\ IsPorts(q) /\ q["count"].now = n /\ q["count"].before = 0
        /\ q["low"].now = LowByte(lba) /\ q["low"].before = TopByte(lba)
        /\ q["mid"].now = MidByte(lba) /\ q["high"].now = HighByte(lba)
    <3> DEFINE h == [slave |-> d[2], lba |-> TRUE, head |-> 0]
    <3>1. q = write_regs(p, LongList(h, n, TopByte(lba), LowByte(lba), MidByte(lba), HighByte(lba)))
      BY <1>3, LongParameters DEF SetUp
    <3> HIDE DEF h, q
    <3> QED
      BY <3>1, LongWrites
  <2> HIDE DEF q
  <2>2. j = [cmd |-> "READ_PIO_EXT",
             lba |-> LowByte(lba) + Byte * MidByte(lba) + Byte * Byte * HighByte(lba)
                       + Byte * Byte * Byte * TopByte(lba),
             left |-> IF n + Byte * 0 # 0 THEN n + Byte * 0 ELSE Byte * Byte]
    BY <1>3, <2>1 DEF Asked, Addressed, Extended, q
  <2>3. n + Byte * 0 = n /\ Byte * Byte \in Nat
    BY <1>1
  <2> QED
    BY <1>1, <1>2, <2>1, <2>2, <2>3 DEF Jobs, q
<1>4. CASE lba_mode(d, lba) = "LBA28"
  <2>1. /\ IsPorts(q) /\ q["count"].now = n
        /\ q["HDDEVSEL"].now = [slave |-> d[2], lba |-> TRUE, head |-> TopByte(lba)]
        /\ q["low"].now = LowByte(lba) /\ q["mid"].now = MidByte(lba) /\ q["high"].now = HighByte(lba)
    BY <1>4, LinearParameters, ShortWrites DEF SetUp
  <2> HIDE DEF q
  <2>2. j = [cmd |-> "READ_PIO",
             lba |-> LowByte(lba) + Byte * MidByte(lba) + Byte * Byte * HighByte(lba)
                       + Byte * Byte * Byte * TopByte(lba),
             left |-> IF n + 0 # 0 THEN n + 0 ELSE Byte]
    BY <1>4, <2>1 DEF Asked, Addressed, Extended, q
  <2>3. n + 0 = n
    BY <1>1
  <2> QED
    BY <1>1, <1>2, <2>1, <2>2, <2>3 DEF Jobs, q
<1>5. CASE lba_mode(d, lba) = "CHS"
  <2> DEFINE c == Cylinder(lba)  t == Track(lba)  s == lba % SectorsPerTrack
             exact == (Heads * ((c % Byte) + Byte * (c \div Byte)) + (t % Heads)) * SectorsPerTrack
                        + (s + 1) - 1
  <2>1. /\ IsPorts(q) /\ q["count"].now = n
        /\ q["HDDEVSEL"].now = [slave |-> d[2], lba |-> FALSE, head |-> t % Heads]
        /\ q["low"].now = s + 1
        /\ q["mid"].now = c % Byte /\ q["high"].now = c \div Byte
    BY <1>5, GeometryParameters, ShortWrites DEF SetUp
  <2> HIDE DEF q
  <2>2. j = [cmd |-> "READ_PIO", lba |-> exact, left |-> IF n + 0 # 0 THEN n + 0 ELSE Byte]
    BY <1>5, <2>1 DEF Asked, Addressed, Extended, q
  <2>3. n + 0 = n
    BY <1>1
  <2>4. /\ c % Byte \in Nat /\ c \div Byte \in Nat /\ t % Heads \in Nat /\ s \in Nat
        /\ lba < Heads * SectorsPerTrack * Byte * Byte => exact = lba
    <3>1. lba % SectorsPerTrack \in Nat
      BY <1>1, Divided
    <3> QED
      BY <1>1, <3>1, CylinderHeadSector DEF Track, Cylinder
  <2>5. exact \in Int
    BY <1>1, <2>4
  <2> HIDE DEF exact
  <2> QED
    BY <1>1, <1>5, <2>1, <2>2, <2>3, <2>4, <2>5 DEF Jobs, InReach, q
<1> QED
  BY <1>3, <1>4, <1>5, ThreeModes

-----------------------------------------------------------------------------
(* The inductive invariant                                                 *)

Places == {"find", "probe", "identify", "idle", "busy", "poll", "panic", "undefined"}
Flags == {"BSY", "DRQ", "DRDY", "ERR", "DF"}
Calls == [drive : Drives, lba : 0..Word - 1, sector_num : 0..Byte - 1, wanted : Nat]

AllPorts(p) == p = [ch \in Channels |-> p[ch]] /\ \A ch \in Channels : IsPorts(p[ch])

Quiet(d) == status[d] \cap {"BSY", "DRQ"} = {}

(* A drive that is busy, or has data, is at a command.                     *)
Employed == \A d \in Drives : ~Quiet(d) => job[d].cmd # "none"

ChannelTypes ==
  /\ machine \in Machines
  /\ devices \in [Drives -> Devices \cup {Null}]
  /\ AllPorts(ports)
  /\ status \in [Drives -> SUBSET Flags]
  /\ job \in [Drives -> Jobs] /\ Employed
  /\ pc \in Places
  /\ probed \in Drives
  /\ call \in Calls
  /\ buffer \in Seq(Int) /\ result \in Int /\ oversized \in BOOLEAN

Position(d) == IF d[1] = "PRIMARY" THEN d[2] ELSE 2 + d[2]

IsATA(d) == Drive(d).kind = "ata"

(* A drive that init has not come to yet, and one that it has left behind. *)
Fresh(d) ==
  /\ devices[d] = Null
  /\ Drive(d).kind = "none" => status[d] = {}
  /\ Drive(d).kind \in {"ata", "other"} => status[d] = {"DRDY"}
  /\ Drive(d).kind = "atapi" => status[d] \in {{}, {"DRDY"}}

Known(d) ==
  /\ IsATA(d) => devices[d] = Device(d, "IDE_ATA")
  /\ Drive(d).kind = "atapi" => devices[d] \in {Null, Device(d, "IDE_ATAPI")}
  /\ Drive(d).kind \in {"none", "other"} => devices[d] = Null

(* What the drive that init waits for shows until it is done.              *)
Identifying(d) ==
  /\ devices[d] = Null
  /\ Drive(d).kind # "none"
  /\ job[d].cmd = "IDENTIFY" /\ job[d].left = 1
  /\ status[d] \in {{"BSY"}, IF IsATA(d) THEN {"DRDY", "DRQ"} ELSE {"DRDY", "ERR"}}

InInit == pc \in {"find", "probe", "identify"}

Discovery ==
  /\ pc = "find" => probed = <<"PRIMARY", 0>>
  /\ pc = "panic" => ~target_found(find_device(machine.config, "ide"))
  /\ InInit => /\ \A d \in Drives : Position(d) < Position(probed) => Known(d) /\ (IsATA(d) => Quiet(d))
               /\ \A d \in Drives : Position(d) > Position(probed) => Fresh(d)
               /\ IF pc = "identify" THEN Identifying(probed) ELSE Fresh(probed)
               /\ buffer = <<>> /\ call.wanted = 0 /\ ~oversized
  /\ ~InInit /\ pc # "panic" => \A d \in Drives : Known(d)

(* As long as no count was asked for that a byte cannot hold, no ATA drive *)
(* has anything left to hand over but the one that is read from.           *)
Settled ==
  ~InInit /\ pc # "panic" /\ ~oversized =>
    \A d \in Drives : IsATA(d) /\ ~(pc = "poll" /\ d = call.drive) => Quiet(d)

(* The sectors read so far, in order.                                      *)
InOrder == buffer = [k \in 1..Len(buffer) |-> call.lba + k - 1]

Reading ==
  pc \in {"busy", "poll"} =>
    /\ IsATA(call.drive)
    /\ ~oversized => /\ call.sector_num = call.wanted /\ call.sector_num # 0
                     /\ (call.lba + call.sector_num) % Word <= Drive(call.drive).size

Polling ==
  pc = "poll" /\ ~oversized =>
    LET j == job[call.drive]  n == Len(buffer) IN
    /\ n < call.sector_num /\ InOrder
    /\ j.lba = call.lba + n /\ j.left = call.sector_num - n
    /\ j.cmd \in {"READ_PIO", "READ_PIO_EXT"}
    /\ status[call.drive] \in {{"BSY"}, {"DRDY", "DRQ"}, {"DRDY", "ERR"}, {"DRDY", "DF"}}

ChannelInv ==
  /\ ChannelTypes /\ Discovery /\ Settled /\ Reading /\ Polling
  /\ pc = "busy" => buffer = <<>>
  /\ ReadsAreFaithful

Frames == [inode : DOMAIN Image.inodes, i : Nat, count : Nat, entry : Nat \ {0}]

Sites ==
  {"mount", "super", "bgdt", "get_inode", "inode", "block", "read", "entry", "listed", "panic",
   "undefined"}

FSRecords ==
  [at : Sites, load : Nat, known : 0..Image.groups, stack : Seq(Frames),
   names : Seq(STRING), reads : Nat]

FSTypes ==
  /\ fs \in FSRecords
  /\ fs.at \in {"block", "read", "entry"} => fs.stack # <<>>

IInv == ChannelInv /\ FSTypes

-----------------------------------------------------------------------------
(* Drives in the order in which init looks at them                         *)

FirstDrive == <<"PRIMARY", 0>>
LastDrive == <<"SECONDARY", 1>>

LEMMA FourDrives ==
  /\ Drives = {<<"PRIMARY", 0>>, <<"PRIMARY", 1>>, <<"SECONDARY", 0>>, <<"SECONDARY", 1>>}
  /\ Position(<<"PRIMARY", 0>>) = 0 /\ Position(<<"PRIMARY", 1>>) = 1
  /\ Position(<<"SECONDARY", 0>>) = 2 /\ Position(<<"SECONDARY", 1>>) = 3
<1>1. ASSUME NEW d \in Drives
      PROVE  d \in {<<"PRIMARY", 0>>, <<"PRIMARY", 1>>, <<"SECONDARY", 0>>, <<"SECONDARY", 1>>}
  <2>1. PICK ch \in Channels, j \in DriveTypes : d = <<ch, j>>
    BY DEF Drives
  <2>2. ch \in {"PRIMARY", "SECONDARY"} /\ j \in {0, 1}
    BY DEF Channels, DriveTypes
  <2> QED
    BY <2>1, <2>2
<1>2. {<<"PRIMARY", 0>>, <<"PRIMARY", 1>>, <<"SECONDARY", 0>>, <<"SECONDARY", 1>>} \subseteq Drives
  BY DEF Drives, Channels, DriveTypes
<1> QED
  BY <1>1, <1>2 DEF Position

LEMMA NextInOrder ==
  ASSUME NEW d \in Drives
  PROVE  /\ after(d) \in Drives
         /\ d # LastDrive => \A e \in Drives :
              /\ Position(e) < Position(after(d)) => Position(e) < Position(d) \/ e = d
              /\ Position(e) > Position(after(d)) => Position(e) > Position(d)
              /\ e = after(d) => Position(e) > Position(d)
         /\ d = LastDrive => \A e \in Drives : Position(e) < Position(d) \/ e = d
         /\ \A e \in Drives : Position(e) < Position(d) \/ Position(e) > Position(d) => e # d
         /\ \A e \in Drives : Position(e) < Position(d) => ~(Position(e) > Position(d))
  BY FourDrives DEF after, LastDrive

-----------------------------------------------------------------------------
(* Init                                                                    *)

LEMMA InitTypes ==
  ASSUME PataInit
  PROVE  ChannelTypes
<1>1. /\ machine \in Machines /\ devices = [d \in Drives |-> Null]
      /\ ports = [ch \in Channels |-> Blank] /\ job = [d \in Drives |-> Idle]
      /\ status \in [Drives -> {{}, {"DRDY"}}]
      /\ pc = "find" /\ probed = <<"PRIMARY", 0>> /\ buffer = <<>> /\ result = 0 /\ oversized = FALSE
      /\ call = [drive |-> <<"PRIMARY", 0>>, lba |-> 0, sector_num |-> 0, wanted |-> 0]
  BY DEF PataInit
<1>2. devices \in [Drives -> Devices \cup {Null}]
  BY <1>1
<1>3. IsPorts(Blank)
  BY DEF IsPorts, Blank, PortNames
<1>4. AllPorts(ports)
  BY <1>1, <1>3 DEF AllPorts
<1>5. status \in [Drives -> SUBSET Flags]
  <2>1. {{}, {"DRDY"}} \subseteq SUBSET Flags
    BY DEF Flags
  <2> QED
    BY <1>1, <2>1
<1>6. job \in [Drives -> Jobs]
  <2>1. Idle \in Jobs
    BY DEF Idle, Jobs
  <2> QED
    BY <1>1, <2>1
<1>7. call \in Calls
  <2>1. 0 \in 0..Word - 1 /\ 0 \in 0..Byte - 1
    BY Sizes
  <2> QED
    BY <1>1, <2>1, FourDrives DEF Calls
<1>8. pc \in Places /\ probed \in Drives /\ result \in Int
  BY <1>1, FourDrives DEF Places
<1>9. buffer \in Seq(Int)
  BY <1>1
<1>10. oversized \in BOOLEAN
  BY <1>1
<1>11. Employed
  BY <1>1 DEF Employed, Quiet
<1> QED
  BY <1>1, <1>2, <1>4, <1>5, <1>6, <1>7, <1>8, <1>9, <1>10, <1>11 DEF ChannelTypes

LEMMA ChannelInit ==
  ASSUME PataInit
  PROVE  ChannelInv
<1>1. ChannelTypes
  BY InitTypes
<1>2. /\ machine \in Machines /\ devices = [d \in Drives |-> Null]
      /\ pc = "find" /\ probed = <<"PRIMARY", 0>> /\ buffer = <<>> /\ oversized = FALSE
      /\ call = [drive |-> <<"PRIMARY", 0>>, lba |-> 0, sector_num |-> 0, wanted |-> 0]
  BY DEF PataInit
<1>3. ASSUME NEW d \in Drives PROVE Fresh(d)
  <2>1. status[d] \in {{}, {"DRDY"}}
        /\ (CASE Drive(d).kind = "none" -> status[d] = {}
              [] Drive(d).kind = "atapi" -> TRUE
              [] OTHER -> status[d] = {"DRDY"})
    BY DEF PataInit
  <2> QED
    BY <1>2, <2>1 DEF Fresh
<1>4. \A d \in Drives : ~(Position(d) < Position(probed))
  BY <1>2, FourDrives
<1>5. Discovery
  BY <1>2, <1>3, <1>4, FourDrives DEF Discovery, InInit
<1> QED
  BY <1>1, <1>2, <1>5 DEF ChannelInv, Settled, InInit, Reading, Polling, ReadsAreFaithful

-----------------------------------------------------------------------------
(* What the parts of the actions do                                        *)

LEMMA DriveFacts ==
  ASSUME machine \in Machines, NEW d \in Drives
  PROVE  /\ Drive(d).kind \in {"none", "ata", "atapi", "other"}
         /\ Drive(d).size \in 0..Word - 1
         /\ Drive(d).lba \in BOOLEAN
         /\ ~Drive(d).lba => Drive(d).size <= Heads * SectorsPerTrack * Byte * Byte
         /\ \A type \in {"IDE_ATA", "IDE_ATAPI"} :
              Device(d, type) \in Devices /\ Device(d, type) # Null
<1>1. /\ Drive(d).kind \in {"none", "ata", "atapi", "other"}
      /\ Drive(d).size \in 0..Word - 1
  BY PATAAssumption DEF Drive
<1>2. Drive(d).lba \in BOOLEAN
  BY PATAAssumption DEF Drive
<1>3. ~Drive(d).lba => Drive(d).size <= Heads * SectorsPerTrack * Byte * Byte
  BY PATAAssumption DEF Drive
<1>4. \A type \in {"IDE_ATA", "IDE_ATAPI"} : Device(d, type) \in Devices
  BY <1>1, <1>2 DEF Device, Devices
<1>5. Null \notin Devices
  BY PATAAssumption
<1> QED
  BY <1>1, <1>2, <1>3, <1>4, <1>5

LEMMA PortsKept ==
  ASSUME NEW p, AllPorts(p), NEW ch \in Channels, NEW q, IsPorts(q)
  PROVE  AllPorts([p EXCEPT ![ch] = q]) /\ [p EXCEPT ![ch] = q][ch] = q
  BY DEF AllPorts

LEMMA Told ==
  ASSUME ChannelTypes, NEW p, NEW d \in Drives, NEW command \in Jobs, Command(p, d, command),
         command.cmd # "none"
  PROVE  /\ job' \in [Drives -> Jobs] /\ status' \in [Drives -> SUBSET Flags] /\ Employed'
         /\ \A e \in Drives \ {d} : status'[e] = status[e] /\ job'[e] = job[e]
         /\ Quiet(d) => status'[d] = {"BSY"} /\ job'[d] = command
<1>1. job \in [Drives -> Jobs] /\ status \in [Drives -> SUBSET Flags] /\ Employed
  BY DEF ChannelTypes
<1>2. {"BSY"} \in SUBSET Flags /\ {"DRDY", "ERR"} \in SUBSET Flags
  BY DEF Flags
<1>3. CASE status[d] \cap {"BSY", "DRQ"} = {}
  <2>1. job' = [job EXCEPT ![d] = command] /\ status' = [status EXCEPT ![d] = {"BSY"}]
    BY <1>3 DEF Command
  <2> QED
    BY <1>1, <1>2, <2>1 DEF Employed, Quiet
<1>4. CASE status[d] \cap {"BSY", "DRQ"} # {} /\ UNCHANGED <<job, status>>
  BY <1>1, <1>4 DEF Quiet, Employed
<1>5. CASE /\ status[d] \cap {"BSY", "DRQ"} # {}
           /\ job' = [job EXCEPT ![d].left = 0] /\ status' = [status EXCEPT ![d] = {"DRDY", "ERR"}]
  <2>1. [job[d] EXCEPT !.left = 0] \in Jobs
    BY <1>1 DEF Jobs
  <2>2. job' = [job EXCEPT ![d] = [job[d] EXCEPT !.left = 0]]
    BY <1>5
  <2>3. /\ job' \in [Drives -> Jobs] /\ status' \in [Drives -> SUBSET Flags]
        /\ \A e \in Drives \ {d} : status'[e] = status[e] /\ job'[e] = job[e]
        /\ status'[d] = {"DRDY", "ERR"}
    BY <1>1, <1>2, <1>5, <2>1, <2>2
  <2> QED
    BY <1>1, <1>5, <2>3 DEF Quiet, Employed
<1> QED
  BY <1>3, <1>4, <1>5 DEF Command

LEMMA HandedOver ==
  ASSUME ChannelTypes, NEW d \in Drives, Handed(d), ~Quiet(d)
  PROVE  /\ job' \in [Drives -> Jobs] /\ status' \in [Drives -> SUBSET Flags] /\ Employed'
         /\ \A e \in Drives \ {d} : status'[e] = status[e] /\ job'[e] = job[e]
         /\ status'[d] = IF job[d].left > 1 THEN {"BSY"} ELSE {"DRDY"}
         /\ job'[d].cmd = job[d].cmd
         /\ job'[d].lba = job[d].lba + 1 /\ job'[d].left = job[d].left - 1
         /\ job[d].lba \in Int /\ job[d].left \in Int
<1>1. job \in [Drives -> Jobs] /\ status \in [Drives -> SUBSET Flags]
  BY DEF ChannelTypes
<1>2. {"BSY"} \in SUBSET Flags /\ {"DRDY"} \in SUBSET Flags
  BY DEF Flags
<1>3. job[d] = [cmd |-> job[d].cmd, lba |-> job[d].lba, left |-> job[d].left]
      /\ job[d].lba \in Int /\ job[d].left \in Int
      /\ job[d].cmd \in {"none", "IDENTIFY", "IDENTIFY_PACKET", "READ_PIO", "READ_PIO_EXT"}
  BY <1>1 DEF Jobs
<1> DEFINE j == [cmd |-> job[d].cmd, lba |-> job[d].lba + 1, left |-> job[d].left - 1]
<1>4. j \in Jobs
  BY <1>3 DEF Jobs
<1>5. job' = [job EXCEPT ![d] = j]
  <2>1. job' = [job EXCEPT ![d].lba = job[d].lba + 1, ![d].left = job[d].left - 1]
    BY <1>1 DEF Handed
  <2> QED
    BY <1>1, <1>3, <2>1
<1>6. job' \in [Drives -> Jobs] /\ job'[d] = j /\ \A e \in Drives \ {d} : job'[e] = job[e]
  <2> HIDE DEF j
  <2> QED
    BY <1>1, <1>4, <1>5
<1>7. /\ status' \in [Drives -> SUBSET Flags]
      /\ \A e \in Drives \ {d} : status'[e] = status[e]
      /\ status'[d] = IF job[d].left > 1 THEN {"BSY"} ELSE {"DRDY"}
  BY <1>1, <1>2 DEF Handed
<1>8. Employed'
  <2>1. Employed
    BY DEF ChannelTypes
  <2> QED
    BY <1>6, <1>7, <2>1 DEF Employed, Quiet
<1> QED
  BY <1>3, <1>6, <1>7, <1>8

-----------------------------------------------------------------------------
(* The steps of the channel                                                *)

(* init's search of the bus: it gives up only where nothing can be found.  *)
LEMMA KeptByFindController ==
  ASSUME ChannelInv, find_controller
  PROVE  ChannelInv'
<1>1. /\ pc = "find"
      /\ UNCHANGED <<machine, devices, ports, status, job, probed, call, buffer, result, oversized>>
      /\ pc' = IF target_found(find_device(machine.config, "ide")) THEN "probe" ELSE "panic"
  BY DEF find_controller, hardware, request
<1>2. ChannelTypes /\ Discovery
  BY DEF ChannelInv
<1>3. pc' \in {"probe", "panic"}
  BY <1>1
<1>4. ChannelTypes'
  <2>1. pc' \in Places
    BY <1>3 DEF Places
  <2> QED
    BY <1>1, <1>2, <2>1 DEF ChannelTypes, AllPorts, IsPorts, Employed, Quiet
<1>5. pc' = "panic" => ~target_found(find_device(machine'.config, "ide"))
  BY <1>1
<1>6. Discovery'
  <2>1. /\ \A d \in Drives : Position(d) < Position(probed) => Known(d) /\ (IsATA(d) => Quiet(d))
        /\ \A d \in Drives : Position(d) > Position(probed) => Fresh(d)
        /\ Fresh(probed)
        /\ buffer = <<>> /\ call.wanted = 0 /\ ~oversized
    BY <1>1, <1>2 DEF Discovery, InInit
  <2>2. pc' # "find" /\ pc' # "identify"
    BY <1>3
  <2> QED
    BY <1>1, <1>3, <1>5, <2>1, <2>2
       DEF Discovery, InInit, Known, Quiet, Fresh, IsATA, Drive, Device
<1> QED
  BY <1>3, <1>4, <1>6 DEF ChannelInv, Settled, InInit, Reading, Polling, ReadsAreFaithful

(* What next_drive does to what is known: all before the next are known.   *)
LEMMA StepToNext ==
  ASSUME ChannelTypes, Discovery, InInit, pc # "find", next_drive(probed), ChannelTypes',
         UNCHANGED <<machine, call, buffer, oversized>>,
         \A d \in Drives : d = probed => Known(d)' /\ (IsATA(d)' => Quiet(d)'),
         \A e \in Drives \ {probed} : devices'[e] = devices[e] /\ status'[e] = status[e]
  PROVE  ChannelInv'
<1>1. probed \in Drives
  BY DEF ChannelTypes
<1>2. /\ \A d \in Drives : Position(d) < Position(probed) => Known(d) /\ (IsATA(d) => Quiet(d))
      /\ \A d \in Drives : Position(d) > Position(probed) => Fresh(d)
      /\ buffer = <<>> /\ call.wanted = 0 /\ ~oversized
  BY DEF Discovery
<1>3. \A d \in Drives : Position(d) < Position(probed) \/ d = probed =>
        Known(d)' /\ (IsATA(d)' => Quiet(d)')
  <2> SUFFICES ASSUME NEW d \in Drives, Position(d) < Position(probed) \/ d = probed
               PROVE  Known(d)' /\ (IsATA(d)' => Quiet(d)')
    OBVIOUS
  <2>1. CASE d = probed
    BY <2>1
  <2>2. CASE d # probed
    <3>1. Known(d) /\ (IsATA(d) => Quiet(d)) /\ devices'[d] = devices[d] /\ status'[d] = status[d]
      BY <1>2, <2>2
    <3> QED
      BY <3>1 DEF Known, Quiet, IsATA, Drive, Device
  <2> QED
    BY <2>1, <2>2
<1>4. \A d \in Drives : Position(d) > Position(probed) => Fresh(d)'
  <2> SUFFICES ASSUME NEW d \in Drives, Position(d) > Position(probed) PROVE Fresh(d)'
    OBVIOUS
  <2>1. d # probed
    BY <1>1, NextInOrder
  <2>2. Fresh(d) /\ devices'[d] = devices[d] /\ status'[d] = status[d]
    BY <1>2, <2>1
  <2> QED
    BY <2>2 DEF Fresh, Drive
<1>5. buffer' = <<>> /\ call'.wanted = 0 /\ ~oversized'
  BY <1>2
<1>6. CASE probed # LastDrive
  <2>1. probed' = after(probed) /\ pc' = "probe"
    BY <1>6 DEF next_drive, LastDrive
  <2>2. /\ probed' \in Drives
        /\ \A e \in Drives :
             /\ Position(e) < Position(probed') => Position(e) < Position(probed) \/ e = probed
             /\ Position(e) > Position(probed') => Position(e) > Position(probed)
             /\ e = probed' => Position(e) > Position(probed)
    BY <1>1, <1>6, <2>1, NextInOrder
  <2>3. /\ \A d \in Drives : Position(d) < Position(probed') => Known(d)' /\ (IsATA(d)' => Quiet(d)')
        /\ \A d \in Drives : Position(d) > Position(probed') => Fresh(d)'
        /\ \A d \in Drives : d = probed' => Fresh(d)'
    BY <1>3, <1>4, <2>2
  <2>4. Fresh(probed)'
    BY <2>2, <2>3 DEF Fresh, Drive
  <2>5. Discovery'
    BY <1>5, <2>1, <2>3, <2>4 DEF Discovery, InInit
  <2> QED
    BY <2>1, <2>5 DEF ChannelInv, Settled, InInit, Reading, Polling, ReadsAreFaithful
<1>7. CASE probed = LastDrive
  <2>1. pc' = "idle"
    BY <1>7 DEF next_drive, LastDrive
  <2>2. \A d \in Drives : Known(d)' /\ (IsATA(d)' => Quiet(d)')
    BY <1>1, <1>3, <1>7, NextInOrder
  <2>3. Discovery' /\ Settled'
    BY <2>1, <2>2 DEF Discovery, Settled, InInit
  <2>4. buffer' = [k \in 1..call'.wanted |-> call'.lba + k - 1]
    BY <1>5
  <2> QED
    BY <2>1, <2>3, <2>4 DEF ChannelInv, InInit, Reading, Polling, ReadsAreFaithful
<1> QED
  BY <1>6, <1>7

LEMMA KeptByIdentify ==
  ASSUME ChannelInv, identify
  PROVE  ChannelInv'
<1> DEFINE ch == probed[1]  command == [cmd |-> "IDENTIFY", lba |-> 0, left |-> 1]
           q == write_reg(ports[ch], "HDDEVSEL", [slave |-> probed[2], lba |-> FALSE, head |-> 0])
<1>1. /\ pc = "probe" /\ ports' = [ports EXCEPT ![ch] = q]
      /\ UNCHANGED <<machine, devices, call, buffer, result, oversized>>
      /\ IF Present(probed) THEN Command(ports'[ch], probed, command) ELSE UNCHANGED <<job, status>>
      /\ \E seen \in {status[probed], status'[probed]} :
           IF seen = {} THEN next_drive(probed) ELSE pc' = "identify" /\ UNCHANGED probed
  BY DEF identify, request
<1>2. ChannelTypes /\ Discovery /\ probed \in Drives /\ InInit /\ machine \in Machines
  BY <1>1 DEF ChannelInv, ChannelTypes, InInit
<1>3. /\ Fresh(probed)
      /\ \A d \in Drives : Position(d) < Position(probed) => Known(d) /\ (IsATA(d) => Quiet(d))
      /\ \A d \in Drives : Position(d) > Position(probed) => Fresh(d)
      /\ buffer = <<>> /\ call.wanted = 0 /\ ~oversized
  BY <1>1, <1>2 DEF Discovery
<1>4. Drive(probed).kind \in {"none", "ata", "atapi", "other"}
  BY <1>2, DriveFacts
<1>5. Quiet(probed)
  BY <1>3, <1>4 DEF Fresh, Quiet
<1>6. AllPorts(ports')
  <2>1. ch \in Channels
    BY <1>2, FourDrives DEF Channels
  <2>2. IsPorts(q)
    <3>1. IsPorts(ports[ch])
      BY <1>2, <2>1 DEF ChannelTypes, AllPorts
    <3> QED
      BY <3>1, OneWrite, PortOf DEF PortNames
  <2> HIDE DEF q, ch
  <2> QED
    BY <1>1, <1>2, <2>1, <2>2, PortsKept DEF ChannelTypes
<1>7. /\ job' \in [Drives -> Jobs] /\ status' \in [Drives -> SUBSET Flags] /\ Employed'
      /\ \A e \in Drives \ {probed} : status'[e] = status[e]
      /\ Present(probed) => status'[probed] = {"BSY"} /\ job'[probed] = command
      /\ ~Present(probed) => status'[probed] = status[probed]
  <2>1. CASE Present(probed)
    <3>1. command \in Jobs /\ command.cmd # "none"
      BY DEF Jobs
    <3>2. Command(ports'[ch], probed, command)
      BY <1>1, <2>1
    <3> DEFINE p == ports'[ch]
    <3> HIDE DEF command, ch
    <3>3. ChannelTypes /\ probed \in Drives
      BY <1>2
    <3>4. Command(p, probed, command)
      BY <3>2
    <3> HIDE DEF p
    <3>5. /\ job' \in [Drives -> Jobs] /\ status' \in [Drives -> SUBSET Flags] /\ Employed'
          /\ \A e \in Drives \ {probed} : status'[e] = status[e] /\ job'[e] = job[e]
          /\ Quiet(probed) => status'[probed] = {"BSY"} /\ job'[probed] = command
      BY ONLY <3>1, <3>3, <3>4, Told
    <3> QED
      BY <1>5, <2>1, <3>5
  <2>2. CASE ~Present(probed)
    BY <1>1, <1>2, <2>2 DEF ChannelTypes, Employed, Quiet
  <2> QED
    BY <2>1, <2>2
<1> HIDE DEF q, ch
<1>8. CASE pc' = "identify" /\ UNCHANGED probed /\ Present(probed)
  <2>1. ChannelTypes'
    <3>1. pc' \in Places
      BY <1>8 DEF Places
    <3> QED
      BY <1>1, <1>2, <1>6, <1>7, <1>8, <3>1 DEF ChannelTypes
  <2>2. Identifying(probed)'
    <3>1. status'[probed] = {"BSY"} /\ job'[probed].cmd = "IDENTIFY" /\ job'[probed].left = 1
      BY <1>7, <1>8
    <3>2. devices[probed] = Null /\ Drive(probed).kind # "none"
      BY <1>3, <1>8 DEF Fresh, Present
    <3> HIDE DEF command
    <3> QED
      BY <1>1, <1>8, <3>1, <3>2 DEF Identifying, Drive
  <2>3. \A d \in Drives : Position(d) < Position(probed) => Known(d)' /\ (IsATA(d)' => Quiet(d)')
    <3> SUFFICES ASSUME NEW d \in Drives, Position(d) < Position(probed)
                 PROVE  Known(d)' /\ (IsATA(d)' => Quiet(d)')
      OBVIOUS
    <3>1. status'[d] = status[d]
      BY <1>2, <1>7, NextInOrder
    <3> QED
      BY <1>1, <1>3, <3>1 DEF Known, Quiet, IsATA, Drive, Device
  <2>4. \A d \in Drives : Position(d) > Position(probed) => Fresh(d)'
    <3> SUFFICES ASSUME NEW d \in Drives, Position(d) > Position(probed) PROVE Fresh(d)'
      OBVIOUS
    <3>1. status'[d] = status[d]
      BY <1>2, <1>7, NextInOrder
    <3> QED
      BY <1>1, <1>3, <3>1 DEF Fresh, Drive
  <2>5. Discovery'
    BY <1>1, <1>3, <1>8, <2>2, <2>3, <2>4 DEF Discovery, InInit
  <2> QED
    BY <1>8, <2>1, <2>5 DEF ChannelInv, Settled, InInit, Reading, Polling, ReadsAreFaithful
<1>9. CASE next_drive(probed) /\ status[probed] = {}
  <2>1. ChannelTypes'
    <3>1. probed' \in Drives /\ pc' \in Places
      BY <1>2, <1>9, NextInOrder DEF next_drive, Places
    <3> QED
      BY <1>1, <1>2, <1>6, <1>7, <3>1 DEF ChannelTypes
  <2>2. Known(probed) /\ ~IsATA(probed)
    BY <1>3, <1>9 DEF Known, IsATA, Fresh
  <2>3. \A d \in Drives : d = probed => Known(d)' /\ ~IsATA(d)'
    BY <1>1, <2>2 DEF Known, IsATA, Drive, Device
  <2> QED
    BY <1>1, <1>2, <1>7, <1>9, <2>1, <2>2, <2>3, StepToNext
<1> QED
  <2>1. Present(probed) \/ status[probed] = {}
    BY <1>3 DEF Fresh, Present
  <2>2. Present(probed) => status'[probed] # {}
    BY <1>7
  <2>3. ~Present(probed) => status[probed] = {} /\ status'[probed] = {}
    BY <1>7, <2>1
  <2> QED
    BY <1>1, <1>8, <1>9, <2>1, <2>2, <2>3

LEMMA KeptByIdentified ==
  ASSUME ChannelInv, identified
  PROVE  ChannelInv'
<1>1. /\ pc = "identify" /\ next_drive(probed)
      /\ UNCHANGED <<machine, ports, call, buffer, result, oversized>>
  BY DEF identified, request
<1>2. ChannelTypes /\ Discovery /\ probed \in Drives /\ InInit /\ machine \in Machines
  BY <1>1 DEF ChannelInv, ChannelTypes, InInit
<1>3. Identifying(probed)
  BY <1>1, <1>2 DEF Discovery
<1>4. probed' \in Drives /\ pc' \in Places
  BY <1>1, <1>2, NextInOrder DEF next_drive, Places
<1>5. /\ Drive(probed).kind \in {"none", "ata", "atapi", "other"}
      /\ \A type \in {"IDE_ATA", "IDE_ATAPI"} : Device(probed, type) \in Devices
  BY <1>2, DriveFacts
<1>6. /\ devices \in [Drives -> Devices \cup {Null}] /\ job \in [Drives -> Jobs]
      /\ status \in [Drives -> SUBSET Flags] /\ Employed
  BY <1>2 DEF ChannelTypes
<1>7. SUFFICES /\ devices' \in [Drives -> Devices \cup {Null}] /\ job' \in [Drives -> Jobs]
               /\ status' \in [Drives -> SUBSET Flags] /\ Employed'
               /\ \A e \in Drives \ {probed} : devices'[e] = devices[e] /\ status'[e] = status[e]
               /\ \A d \in Drives : d = probed => Known(d)' /\ (IsATA(d)' => Quiet(d)')
  <2>1. ChannelTypes'
    BY <1>1, <1>2, <1>4, <1>7 DEF ChannelTypes
  <2> QED
    BY <1>1, <1>2, <1>7, <2>1, StepToNext
<1>8. CASE /\ "ERR" \notin status[probed] /\ "BSY" \notin status[probed] /\ "DRQ" \in status[probed]
           /\ devices' = [devices EXCEPT ![probed] = Device(probed, "IDE_ATA")]
           /\ Handed(probed)
  <2>1. IsATA(probed) /\ job[probed].left = 1 /\ ~Quiet(probed)
    BY <1>3, <1>8 DEF Identifying, Quiet
  <2>2. /\ job' \in [Drives -> Jobs] /\ status' \in [Drives -> SUBSET Flags] /\ Employed'
        /\ \A e \in Drives \ {probed} : status'[e] = status[e] /\ job'[e] = job[e]
        /\ status'[probed] = IF job[probed].left > 1 THEN {"BSY"} ELSE {"DRDY"}
    BY <1>2, <1>8, <2>1, HandedOver
  <2>3. status'[probed] = {"DRDY"}
    BY <2>1, <2>2
  <2>4. /\ devices' \in [Drives -> Devices \cup {Null}]
        /\ devices'[probed] = Device(probed, "IDE_ATA")
        /\ \A e \in Drives \ {probed} : devices'[e] = devices[e]
    BY <1>2, <1>5, <1>6, <1>8
  <2>5. ASSUME NEW d \in Drives, d = probed PROVE Known(d)' /\ Quiet(d)'
    BY <1>1, <2>1, <2>3, <2>4, <2>5 DEF Known, IsATA, Drive, Device, Quiet
  <2> QED
    BY <2>2, <2>4, <2>5
<1>9. CASE /\ "ERR" \in status[probed] /\ Drive(probed).kind = "atapi"
           /\ devices' = [devices EXCEPT ![probed] = Device(probed, "IDE_ATAPI")]
           /\ job' = [job EXCEPT ![probed] = [cmd |-> "IDENTIFY_PACKET", lba |-> 0, left |-> 1]]
           /\ status' \in {[status EXCEPT ![probed] = s] : s \in {{"BSY"}, {"DRDY"}}}
  <2>1. [cmd |-> "IDENTIFY_PACKET", lba |-> 0, left |-> 1] \in Jobs
    BY DEF Jobs
  <2>2. PICK s \in {{"BSY"}, {"DRDY"}} : status' = [status EXCEPT ![probed] = s]
    BY <1>9
  <2>3. s \in SUBSET Flags
    BY DEF Flags
  <2>4. /\ job' \in [Drives -> Jobs] /\ status' \in [Drives -> SUBSET Flags]
        /\ \A e \in Drives \ {probed} : status'[e] = status[e] /\ job'[e] = job[e]
        /\ job'[probed].cmd = "IDENTIFY_PACKET"
    BY <1>2, <1>6, <1>9, <2>1, <2>2, <2>3
  <2>5. Employed'
    BY <1>6, <2>4 DEF Employed, Quiet
  <2>6. /\ devices' \in [Drives -> Devices \cup {Null}]
        /\ devices'[probed] = Device(probed, "IDE_ATAPI")
        /\ \A e \in Drives \ {probed} : devices'[e] = devices[e]
    BY <1>2, <1>5, <1>6, <1>9
  <2>7. ASSUME NEW d \in Drives, d = probed PROVE Known(d)' /\ ~IsATA(d)'
    BY <1>1, <1>9, <2>6, <2>7 DEF Known, IsATA, Drive, Device
  <2> QED
    BY <2>4, <2>5, <2>6, <2>7
<1>10. CASE /\ "ERR" \in status[probed] /\ Drive(probed).kind # "atapi"
            /\ UNCHANGED <<devices, job, status>>
  <2>1. ~IsATA(probed) /\ Drive(probed).kind \in {"other"} /\ devices[probed] = Null
    BY <1>3, <1>5, <1>10 DEF Identifying, IsATA
  <2>2. ASSUME NEW d \in Drives, d = probed PROVE Known(d)' /\ ~IsATA(d)'
    BY <1>1, <1>10, <2>1, <2>2 DEF Known, IsATA, Drive, Device
  <2>3. Employed'
    BY <1>6, <1>10 DEF Employed, Quiet
  <2> QED
    BY <1>6, <1>10, <2>2, <2>3
<1> QED
  BY <1>8, <1>9, <1>10 DEF identified

LEMMA WordIsPositive ==
  Word \in Nat \ {0} /\ Byte \in Nat \ {0}
  BY Sizes

(* Where a read fails, or goes off, it does so before any drive is told.   *)
LEMMA KeptByBlockRead ==
  ASSUME ChannelInv, NEW d \in Drives, NEW from \in Nat, NEW count \in Nat,
         block_read(d, from, count)
  PROVE  ChannelInv'
<1> DEFINE lba == from % Word  sector_num == count % Byte
<1>1. /\ pc = "idle"
      /\ call' = [drive |-> d, lba |-> lba, sector_num |-> sector_num, wanted |-> count]
      /\ buffer' = <<>>
      /\ oversized' = (oversized \/ count \notin 1..Byte - 1)
      /\ UNCHANGED <<machine, devices, ports, status, job, probed>>
  BY DEF block_read, hardware
<1>2. /\ ChannelTypes /\ Discovery /\ Settled /\ ~InInit /\ pc # "panic" /\ machine \in Machines
      /\ \A e \in Drives : Known(e)
  BY <1>1 DEF ChannelInv, ChannelTypes, Discovery, InInit
<1>3. lba \in 0..Word - 1 /\ sector_num \in 0..Byte - 1
  BY WordIsPositive, Divided
<1>4. call' \in Calls
  <2> HIDE DEF lba, sector_num
  <2> QED
    BY <1>1, <1>3 DEF Calls
<1>5. oversized' \in BOOLEAN /\ (~oversized' => ~oversized /\ sector_num = count /\ count # 0)
  <2>1. oversized \in BOOLEAN
    BY <1>2 DEF ChannelTypes
  <2>2. count \in 1..Byte - 1 => sector_num = count /\ count # 0
    <3> SUFFICES ASSUME count \in 1..Byte - 1 PROVE (0 * Byte + count) % Byte = count
      BY WordIsPositive
    <3>1. count \in 0..(Byte - 1) /\ 0 \in Nat
      BY WordIsPositive
    <3> QED
      BY ONLY <3>1, WordIsPositive, DivisionIs
  <2> QED
    BY <1>1, <2>1, <2>2
<1> HIDE DEF lba, sector_num
<1>6. buffer' \in Seq(Int)
  BY <1>1
<1>7. Drive(d).kind \in {"none", "ata", "atapi", "other"} /\ Known(d)
  BY <1>2, DriveFacts
<1>8. /\ pc' \in {"idle", "busy", "undefined"} /\ result' \in Int
      /\ pc' = "idle" => result' # 0 \/ ~IsATA(d)
      /\ pc' = "busy" => IsATA(d) /\ (lba + sector_num) % Word <= Drive(d).size
  <2>1. result \in Int
    BY <1>2 DEF ChannelTypes
  <2>2. CASE devices[d] = Null
    <3>1. pc' = "undefined" /\ UNCHANGED result
      BY <2>2 DEF block_read
    <3> QED
      BY <2>1, <3>1
  <2>3. CASE IsATA(d)
    <3>1. /\ devices[d].type = "IDE_ATA" /\ devices[d].size = Drive(d).size /\ devices[d] # Null
      <4>1. devices[d] = Device(d, "IDE_ATA")
        BY <1>7, <2>3 DEF Known
      <4>2. Device(d, "IDE_ATA") # Null
        BY <1>2, DriveFacts
      <4> QED
        BY <4>1, <4>2 DEF Device
    <3>2. IF (lba + sector_num) % Word > devices[d].size THEN Return(-2)
          ELSE pc' = "busy" /\ UNCHANGED result
      BY <3>1 DEF block_read, lba, sector_num
    <3>3. CASE (lba + sector_num) % Word > devices[d].size
      BY <3>2, <3>3 DEF Return
    <3>4. CASE ~((lba + sector_num) % Word > devices[d].size)
      <4>1. (lba + sector_num) % Word \in Nat /\ Drive(d).size \in Nat
        <5>1. lba + sector_num \in Nat
          BY <1>3, WordIsPositive
        <5> QED
          BY <1>2, <5>1, WordIsPositive, Divided, DriveFacts
      <4> QED
        BY <2>1, <2>3, <3>1, <3>2, <3>4, <4>1
    <3> QED
      BY <3>3, <3>4
  <2>4. CASE devices[d] # Null /\ ~IsATA(d)
    <3>1. devices[d].type = "IDE_ATAPI"
      BY <1>7, <2>4 DEF Known, IsATA, Device
    <3>2. Return(0)
      BY <2>4, <3>1 DEF block_read
    <3> QED
      BY <2>4, <3>2 DEF Return
  <2> QED
    BY <2>2, <2>3, <2>4
<1>9. ChannelTypes'
  <2>1. pc' \in Places
    BY <1>8 DEF Places
  <2> QED
    BY <1>1, <1>2, <1>4, <1>5, <1>6, <1>8, <2>1 DEF ChannelTypes, AllPorts, IsPorts, Employed, Quiet
<1>10. Discovery' /\ Settled'
  <2>1. \A e \in Drives : Known(e)'
    BY <1>1, <1>2 DEF Known, IsATA, Drive, Device
  <2>2. ~oversized' => \A e \in Drives : IsATA(e)' => Quiet(e)'
    BY <1>1, <1>2, <1>5 DEF Settled, IsATA, Drive, Quiet
  <2> QED
    BY <1>8, <2>1, <2>2 DEF Discovery, Settled, InInit
<1>11. Reading'
  BY <1>1, <1>5, <1>8 DEF Reading, IsATA, Drive
<1>12. ReadsAreFaithful'
  BY <1>1, <1>8 DEF ReadsAreFaithful, IsATA, Drive
<1> QED
  BY <1>1, <1>8, <1>9, <1>10, <1>11, <1>12 DEF ChannelInv, Polling

(* A read is told to a drive with nothing left to hand over, for the very  *)
(* sectors asked for.                                                      *)
LEMMA KeptByAtaAccess ==
  ASSUME ChannelInv, ata_access
  PROVE  ChannelInv'
<1> DEFINE d == call.drive  ch == d[1]  n == call.sector_num
           q == SetUp(ports[ch], d, call.lba, n)
           asked == Asked(ports[ch], d, call.lba, n)
<1>1. /\ pc = "busy" /\ ports' = [ports EXCEPT ![ch] = q]
      /\ Command(ports'[ch], d, Addressed(ports'[ch], Extended(d, call.lba)))
      /\ IF n = 0 THEN Return(0) ELSE pc' = "poll" /\ UNCHANGED result
      /\ UNCHANGED <<machine, devices, probed, call, buffer, oversized>>
  BY DEF ata_access, SetUp, Extended
<1>2. /\ ChannelTypes /\ Discovery /\ Settled /\ Reading /\ ~InInit /\ machine \in Machines
      /\ buffer = <<>>
  BY <1>1 DEF ChannelInv, ChannelTypes, InInit
<1>3. call.drive \in Drives /\ call.lba \in 0..Word - 1 /\ n \in 0..Byte - 1 /\ call.lba \in Nat
  <2>1. call \in Calls
    BY <1>2 DEF ChannelTypes
  <2> QED
    BY <2>1, WordIsPositive DEF Calls
<1>4. ch \in Channels
  BY <1>3, FourDrives DEF Channels
<1>5. IsPorts(ports[ch])
  BY <1>2, <1>4 DEF ChannelTypes, AllPorts
<1>6. /\ IsPorts(q) /\ asked \in Jobs /\ asked.cmd \in {"READ_PIO", "READ_PIO_EXT"}
      /\ n # 0 => asked.left = n
      /\ InReach(d, call.lba) => asked.lba = call.lba
  <2> DEFINE p == ports[ch]  lba == call.lba
  <2>1. IsPorts(p) /\ lba \in Nat /\ n \in 0..Byte - 1
    BY <1>3, <1>5
  <2> HIDE DEF d, n, p, lba
  <2>2. /\ IsPorts(SetUp(p, d, lba, n))
        /\ Asked(p, d, lba, n) \in Jobs
        /\ Asked(p, d, lba, n).cmd \in {"READ_PIO", "READ_PIO_EXT"}
        /\ n # 0 => Asked(p, d, lba, n).left = n
        /\ InReach(d, lba) => Asked(p, d, lba, n).lba = lba
    BY ONLY <2>1, AddressIsExact
  <2> QED
    BY <2>2 DEF p, lba
<1>7. AllPorts(ports') /\ ports'[ch] = q
  <2>1. AllPorts(ports) /\ IsPorts(q)
    BY <1>2, <1>6 DEF ChannelTypes
  <2> HIDE DEF q, ch
  <2>2. AllPorts([ports EXCEPT ![ch] = q]) /\ [ports EXCEPT ![ch] = q][ch] = q
    BY ONLY <1>4, <2>1, PortsKept
  <2> QED
    BY <1>1, <2>2
<1>8. Command(ports'[ch], d, asked)
  BY <1>1, <1>7 DEF Asked
<1>9. /\ job' \in [Drives -> Jobs] /\ status' \in [Drives -> SUBSET Flags] /\ Employed'
      /\ \A e \in Drives \ {d} : status'[e] = status[e] /\ job'[e] = job[e]
      /\ Quiet(d) => status'[d] = {"BSY"} /\ job'[d] = asked
  <2>1. d \in Drives /\ asked.cmd # "none" /\ asked \in Jobs
    BY <1>3, <1>6
  <2>2. ChannelTypes
    BY <1>2
  <2> DEFINE p == ports'[ch]
  <2>3. Command(p, d, asked)
    BY <1>8
  <2> HIDE DEF d, asked, ch, p
  <2> QED
    BY ONLY <2>1, <2>2, <2>3, Told
<1> HIDE DEF q, asked
<1>10. pc' \in {"idle", "poll"} /\ (n = 0 => pc' = "idle") /\ (n # 0 => pc' = "poll") /\ result' \in Int
  <2>1. result \in Int
    BY <1>2 DEF ChannelTypes
  <2> QED
    BY <1>1, <2>1 DEF Return
<1>11. ChannelTypes'
  <2>1. pc' \in Places
    BY <1>10 DEF Places
  <2> QED
    BY <1>1, <1>2, <1>7, <1>9, <1>10, <2>1 DEF ChannelTypes
<1>12. Discovery'
  <2>1. \A e \in Drives : Known(e)'
    BY <1>1, <1>2 DEF Discovery, Known, IsATA, Drive, Device, InInit
  <2> QED
    BY <1>10, <2>1 DEF Discovery, InInit
<1>13. ASSUME ~oversized
       PROVE  /\ n # 0 /\ pc' = "poll" /\ IsATA(d) /\ call.wanted = n /\ status'[d] = {"BSY"}
              /\ job'[d] = asked /\ (call.lba + n) % Word <= Drive(d).size
  <2>1. IsATA(d) /\ call.wanted = n /\ n # 0 /\ (call.lba + n) % Word <= Drive(d).size
    BY <1>1, <1>2, <1>13 DEF Reading
  <2>2. Quiet(d)
    BY <1>1, <1>2, <1>3, <1>13, <2>1 DEF Settled
  <2> QED
    BY <1>9, <1>10, <2>1, <2>2
<1>14. Settled' /\ Reading'
  <2>1. ~oversized => \A e \in Drives : IsATA(e)' /\ e # d => Quiet(e)'
    BY <1>1, <1>2, <1>9 DEF Settled, IsATA, Drive, Quiet
  <2>2. IsATA(d)
    BY <1>1, <1>2 DEF Reading
  <2> QED
    BY <1>1, <1>13, <2>1, <2>2 DEF Settled, Reading, IsATA, Drive
<1>15. ASSUME ~oversized PROVE InReach(d, call.lba)
  <2> SUFFICES ASSUME lba_mode(d, call.lba) = "CHS"
               PROVE  call.lba < Heads * SectorsPerTrack * Byte * Byte
    BY DEF InReach
  <2>1. call.lba < LBA28Limit /\ ~devices[d].capabilities
    <3>1. LBA28Limit \in Nat
      BY Sizes
    <3> QED
      BY <1>3, <3>1 DEF lba_mode
  <2>2. devices[d] = Device(d, "IDE_ATA")
    BY <1>1, <1>2, <1>3, <1>13, <1>15 DEF Discovery, InInit, Known
  <2>3. ~Drive(d).lba
    BY <2>1, <2>2 DEF Device
  <2>4. Drive(d).size <= Heads * SectorsPerTrack * Byte * Byte /\ Drive(d).size \in Nat
    BY <1>2, <1>3, <2>3, DriveFacts, WordIsPositive
  <2>5. (call.lba + n) % Word = call.lba + n
    <3> DEFINE x == call.lba + n  W == Word
    <3>1. x \in 0..(W - 1)
      BY <1>3, <2>1, Sizes, WordIsPositive
    <3>2. W \in Nat \ {0} /\ 0 \in Nat
      BY WordIsPositive
    <3> HIDE DEF x, W
    <3>3. (0 * W + x) % W = x
      BY ONLY <3>1, <3>2, DivisionIs
    <3>4. 0 * W + x = x
      BY <3>1, <3>2
    <3>5. x % W = x
      BY <3>3, <3>4
    <3> QED
      BY <3>5 DEF x, W
  <2>6. call.lba + n <= Drive(d).size /\ n # 0
    BY <1>13, <1>15, <2>5
  <2>7. Heads * SectorsPerTrack * Byte * Byte \in Nat
    BY Sizes
  <2> DEFINE limit == Heads * SectorsPerTrack * Byte * Byte
  <2> HIDE DEF limit
  <2>8. limit \in Nat /\ Drive(d).size <= limit
    BY <2>4, <2>7 DEF limit
  <2>9. call.lba < limit
    BY <1>3, <2>4, <2>6, <2>8
  <2> QED
    BY <2>9 DEF limit
<1>16. Polling'
  <2>1. ~oversized => /\ job'[d].lba = call.lba /\ job'[d].left = n /\ n # 0
                      /\ job'[d].cmd \in {"READ_PIO", "READ_PIO_EXT"} /\ status'[d] = {"BSY"}
    BY <1>6, <1>13, <1>15
  <2>2. buffer' = <<>> /\ Len(buffer') = 0
    BY <1>1, <1>2
  <2>3. InOrder'
    BY <2>2 DEF InOrder
  <2>4. call' = call /\ oversized' = oversized
    BY <1>1
  <2>5. n # 0 => /\ Len(buffer') < n /\ call.lba + Len(buffer') = call.lba /\ n - Len(buffer') = n
    BY <1>3, <2>2
  <2> QED
    BY <2>1, <2>3, <2>4, <2>5 DEF Polling
<1>17. ReadsAreFaithful'
  BY <1>1, <1>13 DEF ReadsAreFaithful
<1> QED
  BY <1>10, <1>11, <1>12, <1>14, <1>16, <1>17 DEF ChannelInv

(* One more sector of those in order.                                      *)
LEMMA OneMore ==
  ASSUME NEW b \in Seq(Int), NEW from \in Int, b = [k \in 1..Len(b) |-> from + k - 1]
  PROVE  LET c == Append(b, from + Len(b)) IN
         c \in Seq(Int) /\ Len(c) = Len(b) + 1 /\ c = [k \in 1..Len(b) + 1 |-> from + k - 1]
<1> DEFINE n == Len(b)  x == from + n  c == Append(b, x)
<1>1. n \in Nat /\ x \in Int
  OBVIOUS
<1>2. c \in Seq(Int) /\ Len(c) = n + 1 /\ (\A i \in 1..n : c[i] = b[i]) /\ c[n + 1] = x
  <2> HIDE DEF x
  <2> QED
    BY <1>1, AppendProperties
<1>3. c = [k \in 1..n + 1 |-> c[k]]
  <2> HIDE DEF c
  <2> QED
    BY <1>1, <1>2
<1>4. ASSUME NEW k \in 1..n + 1 PROVE c[k] = from + k - 1
  <2>1. CASE k = n + 1
    <3>1. x = from + (n + 1) - 1
      BY <1>1
    <3> HIDE DEF c
    <3> QED
      BY <1>2, <2>1, <3>1
  <2>2. CASE k \in 1..n
    <3>1. b[k] = from + k - 1
      BY <2>2
    <3> HIDE DEF c
    <3> QED
      BY <1>2, <2>2, <3>1
  <2> QED
    BY <1>1, <2>1, <2>2
<1>5. c = [k \in 1..n + 1 |-> from + k - 1]
  <2> HIDE DEF c, n
  <2> QED
    BY <1>3, <1>4
<1> QED
  BY <1>2, <1>5

LEMMA PollingIs ==
  ASSUME NEW s
  PROVE  /\ polling(s) \in 0..3
         /\ polling(s) = 0 => "DRQ" \in s
         /\ s = {"DRDY", "DRQ"} => polling(s) = 0
  BY DEF polling

LEMMA KeptByReadSector ==
  ASSUME ChannelInv, read_sector
  PROVE  ChannelInv'
<1> DEFINE d == call.drive  err == polling(status[d])
<1>1. /\ pc = "poll" /\ "BSY" \notin status[d]
      /\ UNCHANGED <<machine, devices, ports, probed, call, oversized>>
  BY DEF read_sector
<1>2. /\ ChannelTypes /\ Discovery /\ Settled /\ Reading /\ Polling /\ ~InInit /\ machine \in Machines
      /\ \A e \in Drives : Known(e)
  BY <1>1 DEF ChannelInv, ChannelTypes, Discovery, InInit
<1>3. /\ d \in Drives /\ call.lba \in Nat /\ call.sector_num \in Nat /\ buffer \in Seq(Int)
      /\ result \in Int /\ job \in [Drives -> Jobs] /\ status \in [Drives -> SUBSET Flags]
  <2>1. call \in Calls
    BY <1>2 DEF ChannelTypes
  <2>2. d \in Drives /\ call.lba \in Nat /\ call.sector_num \in Nat
    BY <2>1, WordIsPositive DEF Calls
  <2> QED
    BY <1>2, <2>2 DEF ChannelTypes
<1>4. IsATA(d)
  BY <1>1, <1>2 DEF Reading
<1>5. \A e \in Drives : Known(e)'
  BY <1>1, <1>2 DEF Known, IsATA, Drive, Device
<1>6. ASSUME ~oversized
      PROVE  /\ call.sector_num = call.wanted /\ Len(buffer) < call.sector_num /\ InOrder
             /\ job[d].lba = call.lba + Len(buffer) /\ job[d].left = call.sector_num - Len(buffer)
             /\ job[d].cmd \in {"READ_PIO", "READ_PIO_EXT"}
             /\ status[d] \in {{"DRDY", "DRQ"}, {"DRDY", "ERR"}, {"DRDY", "DF"}}
             /\ \A e \in Drives : IsATA(e) /\ e # d => Quiet(e)
  BY <1>1, <1>2, <1>6 DEF Reading, Polling, Settled
<1>7. CASE err # 0 /\ Return(err) /\ UNCHANGED <<buffer, job, status>>
  <2>1. pc' = "idle" /\ result' \in Int /\ result' # 0
    BY <1>7, PollingIs DEF Return
  <2>2. ChannelTypes'
    BY <1>1, <1>2, <1>7, <2>1 DEF ChannelTypes, Employed, Quiet, Places, AllPorts, IsPorts
  <2>3. ~oversized => Quiet(d)
    <3> SUFFICES ASSUME ~oversized PROVE Quiet(d)
      OBVIOUS
    <3>1. status[d] # {"DRDY", "DRQ"}
      BY <1>7, PollingIs
    <3> QED
      BY <1>6, <3>1 DEF Quiet
  <2>4. ~oversized => \A e \in Drives : IsATA(e)' => Quiet(e)'
    BY <1>1, <1>6, <1>7, <2>3 DEF IsATA, Drive, Quiet
  <2>5. Discovery' /\ Settled'
    BY <1>1, <1>5, <2>1, <2>4 DEF Discovery, Settled, InInit
  <2> QED
    BY <2>1, <2>2, <2>5 DEF ChannelInv, Reading, Polling, ReadsAreFaithful
<1>8. CASE /\ err = 0 /\ buffer' = Append(buffer, job[d].lba) /\ Handed(d)
           /\ IF Len(buffer') = call.sector_num THEN Return(0) ELSE UNCHANGED <<pc, result>>
  <2>1. ~Quiet(d)
    BY <1>8, PollingIs DEF Quiet
  <2>2. /\ job' \in [Drives -> Jobs] /\ status' \in [Drives -> SUBSET Flags] /\ Employed'
        /\ \A e \in Drives \ {d} : status'[e] = status[e] /\ job'[e] = job[e]
        /\ status'[d] = IF job[d].left > 1 THEN {"BSY"} ELSE {"DRDY"}
        /\ job'[d].cmd = job[d].cmd
        /\ job'[d].lba = job[d].lba + 1 /\ job'[d].left = job[d].left - 1
        /\ job[d].lba \in Int /\ job[d].left \in Int
    <3> HIDE DEF d
    <3> QED
      BY ONLY <1>2, <1>3, <1>8, <2>1, HandedOver
  <2>3. buffer' \in Seq(Int) /\ Len(buffer') = Len(buffer) + 1
    BY <1>3, <1>8, <2>2, AppendProperties
  <2>4. pc' \in {"idle", "poll"} /\ result' \in Int
        /\ (Len(buffer') = call.sector_num => pc' = "idle")
        /\ (Len(buffer') # call.sector_num => pc' = "poll")
    BY <1>1, <1>3, <1>8 DEF Return
  <2>5. ChannelTypes'
    <3>1. pc' \in Places
      BY <2>4 DEF Places
    <3>2. oversized' \in BOOLEAN
      BY <1>1, <1>2 DEF ChannelTypes
    <3> QED
      BY <1>1, <1>2, <2>2, <2>3, <2>4, <3>1, <3>2 DEF ChannelTypes, AllPorts, IsPorts
  <2>6. Discovery'
    BY <1>5, <2>4 DEF Discovery, InInit
  <2>7. ASSUME ~oversized
        PROVE  /\ buffer' = [k \in 1..Len(buffer') |-> call.lba + k - 1]
               /\ Len(buffer') <= call.sector_num
               /\ job'[d].lba = call.lba + Len(buffer')
               /\ job'[d].left = call.sector_num - Len(buffer')
               /\ job'[d].cmd \in {"READ_PIO", "READ_PIO_EXT"}
               /\ status'[d] = IF Len(buffer') = call.sector_num THEN {"DRDY"} ELSE {"BSY"}
    <3>1. buffer' = [k \in 1..Len(buffer) + 1 |-> call.lba + k - 1]
      <4>1. buffer = [k \in 1..Len(buffer) |-> call.lba + k - 1] /\ call.lba \in Int
        BY <1>3, <1>6, <2>7 DEF InOrder
      <4>2. buffer' = Append(buffer, call.lba + Len(buffer))
        BY <1>6, <1>8, <2>7
      <4> QED
        BY <1>3, <4>1, <4>2, OneMore
    <3>2. Len(buffer) \in Nat
      BY <1>3
    <3>3. /\ Len(buffer) < call.sector_num /\ job[d].lba = call.lba + Len(buffer)
          /\ job[d].left = call.sector_num - Len(buffer)
          /\ job[d].cmd \in {"READ_PIO", "READ_PIO_EXT"}
      BY <1>6, <2>7
    <3> DEFINE n == Len(buffer)  m == Len(buffer')  total == call.sector_num  first == call.lba
               j == job[d]
    <3>4. n \in Nat /\ total \in Nat /\ first \in Nat /\ m = n + 1
      BY <1>3, <2>3
    <3>5. n < total /\ j.lba = first + n /\ j.left = total - n
      BY <3>3
    <3> HIDE DEF n, m, total, first, j
    <3>6. /\ m <= total /\ j.lba + 1 = first + m /\ j.left - 1 = total - m
          /\ j.left > 1 <=> m # total
      BY ONLY <3>4, <3>5
    <3>7. /\ m <= total /\ job'[d].lba = first + m /\ job'[d].left = total - m
          /\ status'[d] = IF m = total THEN {"DRDY"} ELSE {"BSY"}
      BY <2>2, <3>6 DEF j
    <3>8. buffer' = [k \in 1..Len(buffer') |-> call.lba + k - 1]
      BY <2>3, <3>1
    <3> QED
      BY <2>2, <3>3, <3>7, <3>8 DEF m, total, first
  <2>8. ~oversized => \A e \in Drives : IsATA(e)' /\ ~(pc' = "poll" /\ e = d) => Quiet(e)'
    <3> SUFFICES ASSUME ~oversized, NEW e \in Drives, IsATA(e)', ~(pc' = "poll" /\ e = d)
                 PROVE  Quiet(e)'
      OBVIOUS
    <3>1. CASE e = d
      <4>1. Len(buffer') = call.sector_num
        BY <2>4, <3>1
      <4>2. status'[d] = {"DRDY"}
        BY <2>7, <4>1
      <4> QED
        BY <3>1, <4>2 DEF Quiet
    <3>2. CASE e # d
      <4>1. IsATA(e)
        BY <1>1 DEF IsATA, Drive
      <4> QED
        BY <1>6, <2>2, <3>2, <4>1 DEF Quiet
    <3> QED
      BY <3>1, <3>2
  <2>9. Settled'
    BY <1>1, <2>8 DEF Settled
  <2>10. Reading'
    BY <1>1, <1>2, <1>4 DEF Reading, IsATA, Drive
  <2>11. Polling'
    <3>1. ~oversized => InOrder'
      BY <1>1, <2>7 DEF InOrder
    <3>2. pc' = "poll" /\ ~oversized => Len(buffer') < call.sector_num /\ status'[d] = {"BSY"}
      BY <1>3, <2>3, <2>4, <2>7
    <3> QED
      BY <1>1, <2>7, <3>1, <3>2 DEF Polling
  <2>12. ReadsAreFaithful'
    <3>1. pc' = "idle" /\ ~oversized => Len(buffer') = call.wanted
      BY <1>6, <2>4
    <3> QED
      BY <1>1, <2>7, <3>1 DEF ReadsAreFaithful
  <2> QED
    BY <2>4, <2>5, <2>6, <2>9, <2>10, <2>11, <2>12 DEF ChannelInv
<1> QED
  BY <1>7, <1>8 DEF read_sector

LEMMA OutcomesAre ==
  ASSUME NEW d, NEW s \in Outcomes(d), job[d].cmd \in {"IDENTIFY", "IDENTIFY_PACKET", "READ_PIO", "READ_PIO_EXT"}
  PROVE  /\ s \in {{"DRDY", "DRQ"}, {"DRDY", "ERR"}, {"DRDY", "DF"}}
         /\ job[d].cmd = "IDENTIFY" => s = IF IsATA(d) THEN {"DRDY", "DRQ"} ELSE {"DRDY", "ERR"}
<1>1. CASE job[d].cmd = "IDENTIFY"
  BY <1>1 DEF Outcomes, IsATA
<1>2. CASE job[d].cmd = "IDENTIFY_PACKET"
  BY <1>2 DEF Outcomes
<1>3. CASE job[d].cmd \in {"READ_PIO", "READ_PIO_EXT"}
  BY <1>3 DEF Outcomes
<1> QED
  BY <1>1, <1>2, <1>3

LEMMA KeptByServe ==
  ASSUME ChannelInv, NEW d \in Drives, Serve(d)
  PROVE  ChannelInv'
<1>1. /\ "BSY" \in status[d]
      /\ UNCHANGED <<machine, devices, ports, job, pc, probed, call, buffer, result, oversized>>
  BY DEF Serve, request
<1>2. ChannelTypes /\ Discovery /\ Settled /\ Reading /\ Polling /\ probed \in Drives
  BY DEF ChannelInv, ChannelTypes
<1>3. job[d] \in Jobs /\ job[d].cmd # "none" /\ ~Quiet(d) /\ status \in [Drives -> SUBSET Flags]
  BY <1>1, <1>2 DEF ChannelTypes, Employed, Quiet
<1>4. job[d].cmd \in {"IDENTIFY", "IDENTIFY_PACKET", "READ_PIO", "READ_PIO_EXT"}
  BY <1>3 DEF Jobs
<1>5. PICK s \in Outcomes(d) : status' = [status EXCEPT ![d] = s]
  BY DEF Serve
<1>6. /\ s \in {{"DRDY", "DRQ"}, {"DRDY", "ERR"}, {"DRDY", "DF"}}
      /\ job[d].cmd = "IDENTIFY" => s = IF IsATA(d) THEN {"DRDY", "DRQ"} ELSE {"DRDY", "ERR"}
  BY <1>4, OutcomesAre
<1>7. /\ status' \in [Drives -> SUBSET Flags] /\ status'[d] = s
      /\ \A e \in Drives \ {d} : status'[e] = status[e]
  <2>1. s \in SUBSET Flags
    BY <1>6 DEF Flags
  <2> HIDE DEF Flags
  <2> QED
    BY <1>3, <1>5, <2>1
<1>8. ChannelTypes'
  <2>1. Employed'
    BY <1>1, <1>2, <1>3, <1>7 DEF ChannelTypes, Employed, Quiet
  <2> QED
    BY <1>1, <1>2, <1>7, <2>1 DEF ChannelTypes, AllPorts, IsPorts
<1>9. \A e \in Drives : /\ Known(e) => Known(e)'
                        /\ Fresh(e) => Fresh(e)'
                        /\ Quiet(e) => Quiet(e)'
                        /\ IsATA(e)' <=> IsATA(e)
  <2> SUFFICES ASSUME NEW e \in Drives
               PROVE  /\ Known(e) => Known(e)'
                      /\ Fresh(e) => Fresh(e)'
                      /\ Quiet(e) => Quiet(e)'
                      /\ IsATA(e)' <=> IsATA(e)
    OBVIOUS
  <2>1. (Known(e) => Known(e)') /\ (IsATA(e)' <=> IsATA(e))
    BY <1>1 DEF Known, IsATA, Drive, Device
  <2>2. CASE e # d
    BY <1>1, <1>7, <2>1, <2>2 DEF Fresh, Quiet, Drive
  <2>3. CASE e = d
    <3>1. Drive(d).kind \in {"none", "ata", "atapi", "other"}
      BY <1>2, DriveFacts DEF ChannelTypes
    <3>2. ~Fresh(d)
      BY <1>1, <3>1 DEF Fresh
    <3> QED
      BY <1>3, <2>1, <2>3, <3>2
  <2> QED
    BY <2>2, <2>3
<1>10. pc = "identify" /\ Identifying(probed) => Identifying(probed)'
  <2> SUFFICES ASSUME Identifying(probed) PROVE Identifying(probed)'
    OBVIOUS
  <2>1. CASE probed = d
    <3>1. status'[probed] = IF IsATA(d) THEN {"DRDY", "DRQ"} ELSE {"DRDY", "ERR"}
      BY <1>6, <1>7, <2>1 DEF Identifying
    <3> QED
      BY <1>1, <2>1, <3>1 DEF Identifying, IsATA, Drive
  <2>2. CASE probed # d
    BY <1>1, <1>2, <1>7, <2>2 DEF Identifying, IsATA, Drive
  <2> QED
    BY <2>1, <2>2
<1>11. Discovery'
  <2>1. InInit /\ pc # "identify" => Fresh(probed)
    BY <1>2 DEF Discovery
  <2>2. InInit /\ pc # "identify" => Fresh(probed)'
    BY <1>1, <1>2, <1>9, <2>1 DEF Fresh
  <2> QED
    BY <1>1, <1>2, <1>9, <1>10, <2>2 DEF Discovery, InInit
<1>12. Settled'
  BY <1>1, <1>2, <1>9 DEF Settled, InInit
<1>13. Reading' /\ ReadsAreFaithful' /\ (pc' = "busy" => buffer' = <<>>)
  BY <1>1 DEF ChannelInv, Reading, ReadsAreFaithful, IsATA, Drive
<1>14. Polling'
  <2>1. call.drive \in Drives
    <3>1. call \in Calls
      BY <1>2 DEF ChannelTypes
    <3> QED
      BY <3>1 DEF Calls
  <2>2. status'[call.drive] \in {status[call.drive], {"DRDY", "DRQ"}, {"DRDY", "ERR"}, {"DRDY", "DF"}}
    BY <1>6, <1>7, <2>1
  <2> QED
    BY <1>1, <1>2, <2>2 DEF Polling, InOrder
<1> QED
  BY <1>8, <1>11, <1>12, <1>13, <1>14 DEF ChannelInv

-----------------------------------------------------------------------------
(* The steps of the file system: it reads places and numbers of blocks     *)
(* that are numbers, and moves about in directories of its image.          *)

LEMMA KeptByStutter ==
  ASSUME ChannelInv, UNCHANGED pataVars
  PROVE  ChannelInv'
<1>1. UNCHANGED <<machine, devices, ports, status, job, pc, probed, call, buffer, result, oversized>>
  BY DEF pataVars, hardware, request
<1>2. ChannelTypes /\ Discovery /\ Settled /\ Reading /\ Polling /\ ReadsAreFaithful
      /\ (pc = "busy" => buffer = <<>>)
  BY DEF ChannelInv
<1>3. ChannelTypes'
  BY <1>1, <1>2 DEF ChannelTypes, Employed, Quiet, AllPorts, IsPorts
<1>4. Discovery'
  BY <1>1, <1>2 DEF Discovery, InInit, Known, Fresh, Quiet, Identifying, IsATA, Drive, Device
<1>5. Settled'
  BY <1>1, <1>2 DEF Settled, InInit, Quiet, IsATA, Drive
<1>6. Reading' /\ ReadsAreFaithful'
  BY <1>1, <1>2 DEF Reading, ReadsAreFaithful, IsATA, Drive
<1>7. Polling'
  BY <1>1, <1>2 DEF Polling, InOrder
<1> QED
  BY <1>1, <1>2, <1>3, <1>4, <1>5, <1>6, <1>7 DEF ChannelInv

LEMMA ImageFacts ==
  ASSUME machine \in Machines
  PROVE  /\ Image.block \in Nat \ {0} /\ Image.ipg \in Nat \ {0} /\ Image.ipb \in Nat \ {0}
         /\ Image.groups \in Nat
         /\ \A g \in 0..Image.groups - 1 : Image.table[g] \in Nat
         /\ \A n \in DOMAIN Image.inodes :
              Image.inodes[n].first \in Nat /\ Image.inodes[n].entries \in Seq(Entries)
<1>1. IsImage(Image)
  BY Ext2Assumption DEF Image
<1> QED
  BY <1>1 DEF IsImage

LEMMA KeptByFSRead ==
  ASSUME ChannelInv, NEW from \in Nat, NEW count \in Nat, fs_block_read(from, count)
  PROVE  ChannelInv'
<1>1. Image.block \in Nat \ {0} /\ AddressSpace \in Nat \ {0}
  BY ImageFacts, Ext2Assumption DEF ChannelInv, ChannelTypes
<1>2. from * Image.block \in Nat /\ count * Image.block \in Nat
  BY <1>1
<1>3. (from * Image.block) % AddressSpace \in Nat
  <2> DEFINE x == from * Image.block
  <2> HIDE DEF x
  <2>1. x % AddressSpace \in Nat
    BY <1>1, <1>2, Divided DEF x
  <2> QED
    BY <2>1 DEF x
<1>4. Disk \in Drives
  BY FourDrives DEF Disk
<1> QED
  BY <1>2, <1>3, <1>4, KeptByBlockRead DEF fs_block_read

LEMMA MachineStays ==
  ASSUME NEW from, NEW count, fs_block_read(from, count) \/ UNCHANGED pataVars
  PROVE  machine' = machine
  BY DEF fs_block_read, block_read, pataVars

LEMMA TopOfStack ==
  ASSUME FSTypes, fs.at \in {"block", "read", "entry"}
  PROVE  /\ Top \in Frames /\ Len(fs.stack) \in Nat \ {0}
         /\ Top.inode \in DOMAIN Image.inodes /\ Top.i \in Nat /\ Top.count \in Nat
         /\ Top.entry \in Nat \ {0}
         /\ Front(fs.stack) \in Seq(Frames)
         /\ \A frame \in Frames : WithTop(frame) \in Seq(Frames) /\ WithTop(frame) # <<>>
         /\ Len(fs.stack) # 1 => Front(fs.stack) # <<>>
<1> DEFINE stack == fs.stack
<1>1. stack \in Seq(Frames) /\ stack # <<>>
  BY DEF FSTypes, FSRecords
<1>2. Top = stack[Len(stack)]
  BY DEF Top, Last
<1>3. Front(stack) = SubSeq(stack, 1, Len(stack) - 1)
  BY DEF Front
<1>4. \A frame : WithTop(frame) = [stack EXCEPT ![Len(stack)] = frame]
  BY DEF WithTop
<1> HIDE DEF stack
<1>5. Len(stack) \in Nat \ {0} /\ stack[Len(stack)] \in Frames
  BY <1>1
<1>6. Top \in Frames
  BY <1>2, <1>5
<1>7. /\ SubSeq(stack, 1, Len(stack) - 1) \in Seq(Frames)
      /\ Len(SubSeq(stack, 1, Len(stack) - 1)) = Len(stack) - 1
  <2> DEFINE n == Len(stack) - 1
  <2>1. n \in Int /\ 1 \in Int /\ n >= 0
    BY <1>5
  <2>2. \A i \in 1..n : stack[i] \in Frames
    BY <1>1, <1>5
  <2> HIDE DEF n
  <2>3. /\ SubSeq(stack, 1, n) \in Seq(Frames)
        /\ Len(SubSeq(stack, 1, n)) = IF 1 <= n THEN n - 1 + 1 ELSE 0
    BY ONLY <2>1, <2>2, SubSeqProperties
  <2>4. (IF 1 <= n THEN n - 1 + 1 ELSE 0) = n
    BY <2>1
  <2> QED
    BY <2>3, <2>4 DEF n
<1>8. ASSUME NEW frame \in Frames
      PROVE  WithTop(frame) \in Seq(Frames) /\ WithTop(frame) # <<>>
  <2>1. /\ [stack EXCEPT ![Len(stack)] = frame] \in Seq(Frames)
        /\ Len([stack EXCEPT ![Len(stack)] = frame]) = Len(stack)
    BY <1>1, <1>5
  <2>2. Len(<<>>) = 0
    OBVIOUS
  <2>3. [stack EXCEPT ![Len(stack)] = frame] # <<>>
    BY <1>5, <2>1, <2>2
  <2> QED
    BY <1>4, <2>1, <2>3
<1>9. Len(stack) # 1 => Front(stack) # <<>>
  <2> DEFINE front == Front(stack)
  <2> SUFFICES ASSUME Len(stack) # 1, front = <<>> PROVE FALSE
    OBVIOUS
  <2>1. Len(front) = Len(stack) - 1
    BY <1>3, <1>7
  <2> HIDE DEF front
  <2>2. Len(front) = 0
    OBVIOUS
  <2> QED
    BY <1>5, <2>1, <2>2
<1>10. /\ Top.inode \in DOMAIN Image.inodes /\ Top.i \in Nat /\ Top.count \in Nat
       /\ Top.entry \in Nat \ {0}
  BY <1>6 DEF Frames
<1> QED
  BY <1>3, <1>5, <1>6, <1>7, <1>8, <1>9, <1>10 DEF stack

LEMMA LeastOfTwo ==
  ASSUME NEW a \in Nat, NEW b \in Nat
  PROVE  Min({a, b}) \in 0..b
<1>1. \E x \in {a, b} : \A y \in {a, b} : x <= y
  OBVIOUS
<1>2. Min({a, b}) \in {a, b} /\ \A y \in {a, b} : Min({a, b}) <= y
  BY <1>1 DEF Min
<1> QED
  BY <1>2

(* The records a step of the file system goes to.                          *)
Moves == fs' \in FSRecords /\ (fs'.at \in {"block", "read", "entry"} => fs'.stack # <<>>)

LEMMA FieldsOf ==
  ASSUME fs \in FSRecords
  PROVE  /\ fs = [at |-> fs.at, load |-> fs.load, known |-> fs.known, stack |-> fs.stack,
                  names |-> fs.names, reads |-> fs.reads]
         /\ fs.at \in Sites /\ fs.load \in Nat /\ fs.known \in 0..Image.groups
         /\ fs.stack \in Seq(Frames) /\ fs.names \in Seq(STRING) /\ fs.reads \in Nat
  BY DEF FSRecords

Goes(place) == fs' = [fs EXCEPT !.at = place]

LEMMA MovesTo ==
  ASSUME FSTypes, NEW place \in Sites, Goes(place),
         place \in {"block", "read", "entry"} => fs.stack # <<>>
  PROVE  Moves
  BY FieldsOf DEF FSTypes, FSRecords, Moves, Goes

LEMMA MovesUndefined ==
  ASSUME FSTypes, undefined
  PROVE  Moves /\ UNCHANGED pataVars
<1>1. Goes("undefined") /\ UNCHANGED pataVars /\ "undefined" \in Sites
  BY DEF undefined, Goes, Sites
<1> QED
  BY <1>1, MovesTo

(* What a step of the file system does, seen from the channel.             *)
Reads == \E from \in Nat, count \in Nat : fs_block_read(from, count)
Step == Moves /\ (Reads \/ UNCHANGED pataVars)

LEMMA ReadSuperIs ==
  ASSUME IInv, read_super
  PROVE  Moves /\ ChannelInv' /\ machine' = machine
<1>1. /\ block_read(Disk, 2, 2) /\ Goes("super") /\ "super" \in Sites
      /\ ChannelInv /\ FSTypes
  BY DEF read_super, IInv, Goes, Sites
<1>2. Disk \in Drives
  BY FourDrives DEF Disk
<1>3. ChannelInv'
  BY <1>1, <1>2, KeptByBlockRead
<1>4. Moves
  BY <1>1, MovesTo
<1>5. machine' = machine
  BY <1>1 DEF block_read
<1> QED
  BY <1>3, <1>4, <1>5

LEMMA ReadBgdtIs ==
  ASSUME IInv, read_bgdt
  PROVE  Step
<1> DEFINE count == ceil_divide(Image.groups, DescsPerSector * Image.block)
<1>1. FSTypes /\ machine \in Machines
  BY DEF IInv, ChannelInv, ChannelTypes
<1>2. count \in Nat
  <2> DEFINE D == DescsPerSector * Image.block  x == Image.groups + D - 1
  <2>1. D \in Nat \ {0}
    <3>1. Image.block \in Nat \ {0} /\ DescsPerSector \in Nat \ {0}
      BY <1>1, ImageFacts, Ext2Assumption
    <3> DEFINE b == Image.block
    <3> HIDE DEF b
    <3>2. b \in Nat \ {0} /\ DescsPerSector \in Nat \ {0}
      BY <3>1 DEF b
    <3>3. DescsPerSector * b \in Nat \ {0}
      BY ONLY <3>2
    <3> QED
      BY <3>3 DEF b
  <2> HIDE DEF D
  <2>2. x \in Nat
    BY <1>1, <2>1, ImageFacts
  <2> HIDE DEF x
  <2>3. x \div D \in Nat
    BY <2>1, <2>2, Divided
  <2> QED
    BY <2>3 DEF ceil_divide, x, D
<1> HIDE DEF count
<1> DEFINE from == IF Image.block = 2 THEN 2 ELSE 1
<1>3. CASE Goes("panic") /\ UNCHANGED pataVars
  <2>1. "panic" \in Sites
    BY DEF Sites
  <2>2. Moves
    BY <1>1, <1>3, <2>1, MovesTo
  <2> QED
    BY <1>3, <2>2 DEF Step
<1>4. CASE fs_block_read(from, count) /\ Goes("bgdt")
  <2>1. "bgdt" \in Sites
    BY DEF Sites
  <2>2. Moves
    BY <1>1, <1>4, <2>1, MovesTo
  <2>3. from \in Nat
    OBVIOUS
  <2> QED
    BY <1>2, <1>4, <2>2, <2>3 DEF Step, Reads
<1> QED
  BY <1>3, <1>4 DEF read_bgdt, count, Goes

LEMMA CopyBgdtIs ==
  ASSUME IInv, copy_bgdt
  PROVE  Step
<1> DEFINE known == Min({Len(buffer) * DescsPerSector, Image.groups})
<1>1. FSTypes /\ machine \in Machines /\ buffer \in Seq(Int)
  BY DEF IInv, ChannelInv, ChannelTypes
<1>2. known \in 0..Image.groups
  <2>1. Len(buffer) * DescsPerSector \in Nat /\ Image.groups \in Nat
    BY <1>1, ImageFacts, Ext2Assumption
  <2> QED
    BY <2>1, LeastOfTwo
<1>3. fs' = [fs EXCEPT !.at = "get_inode", !.known = known] /\ UNCHANGED pataVars
  BY DEF copy_bgdt
<1> HIDE DEF known
<1>4. Moves
  <2> DEFINE f == fs
  <2>1. /\ f = [at |-> f.at, load |-> f.load, known |-> f.known, stack |-> f.stack,
                names |-> f.names, reads |-> f.reads]
        /\ f.load \in Nat /\ f.stack \in Seq(Frames) /\ f.names \in Seq(STRING) /\ f.reads \in Nat
    BY <1>1, FieldsOf DEF FSTypes
  <2>2. fs' = [f EXCEPT !.at = "get_inode", !.known = known] /\ "get_inode" \in Sites
    BY <1>3 DEF Sites
  <2> HIDE DEF f
  <2>3. fs' = [at |-> "get_inode", load |-> f.load, known |-> known, stack |-> f.stack,
               names |-> f.names, reads |-> f.reads]
    BY <2>1, <2>2
  <2>4. fs' \in FSRecords
    BY <1>2, <2>1, <2>2, <2>3 DEF FSRecords
  <2> QED
    BY <2>3, <2>4 DEF Moves
<1> QED
  BY <1>3, <1>4 DEF Step

LEMMA GetInodeIs ==
  ASSUME IInv, get_inode
  PROVE  Step
<1> DEFINE group == (fs.load - 1) \div Image.ipg
<1>1. FSTypes /\ machine \in Machines
  BY DEF IInv, ChannelInv, ChannelTypes
<1>2. CASE fs.load = 0 \/ group >= fs.known
  BY <1>1, <1>2, MovesUndefined DEF get_inode, Step
<1>3. CASE ~(fs.load = 0 \/ group >= fs.known)
  <2>1. fs.load \in Nat \ {0} /\ fs.known \in 0..Image.groups /\ Image.groups \in Nat
    BY <1>1, <1>3, FieldsOf, ImageFacts DEF FSTypes
  <2>2. Image.ipg \in Nat \ {0} /\ Image.ipb \in Nat \ {0}
    BY <1>1, ImageFacts
  <2>3. group \in Nat
    <3> DEFINE x == fs.load - 1
    <3>1. x \in Nat
      BY <2>1
    <3> HIDE DEF x
    <3>2. x \div Image.ipg \in Nat
      BY <2>2, <3>1, Divided
    <3> QED
      BY <3>2 DEF x
  <2>4. fs.load \div Image.ipb \in Nat
    BY <2>1, <2>2, Divided
  <2> HIDE DEF group
  <2>5. group \in 0..Image.groups - 1
    BY <1>3, <2>1, <2>3
  <2>6. Image.table[group] \in Nat
    BY <1>1, <2>5, ImageFacts
  <2>7. containing_block(fs.load) \in Nat
    BY <2>4, <2>6 DEF containing_block, group
  <2>8. fs_block_read(containing_block(fs.load), 1) /\ Goes("inode") /\ "inode" \in Sites
    BY <1>3 DEF get_inode, group, Goes, Sites
  <2>9. Moves
    BY <1>1, <2>8, MovesTo
  <2> QED
    BY <2>7, <2>8, <2>9 DEF Step, Reads
<1> QED
  BY <1>2, <1>3

(* Every other record the steps go to, field by field.                     *)
LEMMA MovesBy ==
  ASSUME NEW at \in Sites, NEW load \in Nat, NEW known \in 0..Image.groups,
         NEW stack \in Seq(Frames), NEW names \in Seq(STRING), NEW reads \in Nat,
         fs' = [at |-> at, load |-> load, known |-> known, stack |-> stack, names |-> names,
                reads |-> reads],
         at \in {"block", "read", "entry"} => stack # <<>>
  PROVE  Moves
  BY DEF Moves, FSRecords

LEMMA TraverseDirIs ==
  ASSUME IInv, traverse_dir
  PROVE  Step
<1>1. FSTypes /\ machine \in Machines /\ fs \in FSRecords
  BY DEF IInv, ChannelInv, ChannelTypes, FSTypes
<1>2. CASE undefined
  BY <1>1, <1>2, MovesUndefined DEF Step
<1>3. CASE ~undefined
  <2> DEFINE inode == CHOOSE i \in Found : TRUE
             f == fs
  <2>1. /\ Found # {} /\ UNCHANGED pataVars
        /\ fs' = IF Image.inodes[inode].dir
                 THEN [f EXCEPT !.at = "block", !.stack = Append(@, Frame(inode))]
                 ELSE [f EXCEPT !.at = IF f.stack = <<>> THEN "listed" ELSE "entry"]
    BY <1>3 DEF traverse_dir
  <2>2. inode \in DOMAIN Image.inodes
    <3>1. Found \subseteq DOMAIN Image.inodes
      BY DEF Found, InodeAt
    <3> QED
      BY <2>1, <3>1
  <2>3. Frame(inode) \in Frames
    <3> HIDE DEF inode
    <3> QED
      BY <2>2 DEF Frame, Frames
  <2>4. /\ f = [at |-> f.at, load |-> f.load, known |-> f.known, stack |-> f.stack,
                names |-> f.names, reads |-> f.reads]
        /\ f.load \in Nat /\ f.known \in 0..Image.groups /\ f.stack \in Seq(Frames)
        /\ f.names \in Seq(STRING) /\ f.reads \in Nat
    BY <1>1, FieldsOf
  <2> DEFINE frame == Frame(inode)
  <2> HIDE DEF f, inode, frame
  <2>5. CASE fs' = [f EXCEPT !.at = "block", !.stack = Append(@, frame)]
    <3>1. fs' = [at |-> "block", load |-> f.load, known |-> f.known, stack |-> Append(f.stack, frame),
                 names |-> f.names, reads |-> f.reads]
      BY <2>4, <2>5
    <3>2. Append(f.stack, frame) \in Seq(Frames) /\ Append(f.stack, frame) # <<>>
      BY <2>3, <2>4, AppendProperties DEF frame
    <3>3. "block" \in Sites
      BY DEF Sites
    <3> QED
      BY <2>1, <2>4, <3>1, <3>2, <3>3, MovesBy DEF Step
  <2>6. CASE fs' = [f EXCEPT !.at = IF f.stack = <<>> THEN "listed" ELSE "entry"]
    <3> DEFINE at == IF f.stack = <<>> THEN "listed" ELSE "entry"
    <3>1. fs' = [at |-> at, load |-> f.load, known |-> f.known, stack |-> f.stack,
                 names |-> f.names, reads |-> f.reads]
      <4>1. fs' = [f EXCEPT !.at = at]
        BY <2>6
      <4> HIDE DEF at
      <4> QED
        BY <2>4, <4>1
    <3>2. at \in Sites /\ (at \in {"block", "read", "entry"} => f.stack # <<>>)
      BY DEF Sites
    <3> HIDE DEF at
    <3> QED
      BY <2>1, <2>4, <3>1, <3>2, MovesBy DEF Step
  <2> QED
    BY <2>1, <2>5, <2>6 DEF frame
<1> QED
  BY <1>2, <1>3

LEMMA ReadBlockIs ==
  ASSUME IInv, read_block
  PROVE  Step
<1>1. FSTypes /\ machine \in Machines /\ fs \in FSRecords /\ fs.at = "block"
  BY DEF IInv, ChannelInv, ChannelTypes, FSTypes, read_block, At
<1>2. /\ Top.inode \in DOMAIN Image.inodes /\ Front(fs.stack) \in Seq(Frames)
      /\ (Len(fs.stack) # 1 => Front(fs.stack) # <<>>) /\ fs.stack # <<>>
  BY <1>1, TopOfStack DEF FSTypes
<1>3. CASE fs_block_read(Image.inodes[Top.inode].first, 1) /\ Goes("read")
  <2>1. Image.inodes[Top.inode].first \in Nat
    BY <1>1, <1>2, ImageFacts
  <2>2. "read" \in Sites
    BY DEF Sites
  <2>3. Moves
    BY <1>1, <1>2, <1>3, <2>2, MovesTo
  <2> QED
    BY <1>3, <2>1, <2>3 DEF Step, Reads
<1> DEFINE f == fs  at == IF Len(f.stack) = 1 THEN "listed" ELSE "entry"  front == Front(f.stack)
<1>4. CASE fs' = [f EXCEPT !.stack = front, !.at = at] /\ UNCHANGED pataVars
  <2>1. /\ f = [at |-> f.at, load |-> f.load, known |-> f.known, stack |-> f.stack,
                names |-> f.names, reads |-> f.reads]
        /\ f.load \in Nat /\ f.known \in 0..Image.groups /\ f.names \in Seq(STRING) /\ f.reads \in Nat
    BY <1>1, FieldsOf
  <2>2. at \in Sites /\ (at \in {"block", "read", "entry"} => front # <<>>) /\ front \in Seq(Frames)
    BY <1>2 DEF Sites
  <2> HIDE DEF f, at, front
  <2>3. fs' = [at |-> at, load |-> f.load, known |-> f.known, stack |-> front,
               names |-> f.names, reads |-> f.reads]
    BY <1>4, <2>1
  <2> QED
    BY <1>4, <2>1, <2>2, <2>3, MovesBy DEF Step
<1> QED
  BY <1>3, <1>4 DEF read_block, Goes

LEMMA UseBlockIs ==
  ASSUME IInv, use_block
  PROVE  Step
<1>1. FSTypes /\ fs.stack # <<>>
  BY DEF IInv, FSTypes, use_block, At
<1>2. CASE Goes("entry") /\ UNCHANGED pataVars
  <2>1. "entry" \in Sites
    BY DEF Sites
  <2> QED
    BY <1>1, <1>2, <2>1, MovesTo DEF Step
<1>3. CASE undefined
  BY <1>1, <1>3, MovesUndefined DEF Step
<1> QED
  BY <1>2, <1>3 DEF use_block, Goes

LEMMA PrintEntryIs ==
  ASSUME IInv, print_entry
  PROVE  Step
<1> DEFINE entries == Image.inodes[Top.inode].entries  entry == entries[Top.entry]  f == fs
           onwards == [Top EXCEPT !.i = @ + 1, !.entry = 1]
           next == [Top EXCEPT !.entry = @ + 1, !.count = @ + 1]
           at == IF descends(Top.count) THEN "get_inode" ELSE "entry"
<1>1. FSTypes /\ machine \in Machines /\ fs \in FSRecords /\ fs.at = "entry"
  BY DEF IInv, ChannelInv, ChannelTypes, FSTypes, print_entry, At
<1>2. /\ Top \in Frames /\ Top.inode \in DOMAIN Image.inodes /\ Top.entry \in Nat \ {0}
      /\ Top.i \in Nat /\ Top.count \in Nat
      /\ \A frame \in Frames : WithTop(frame) \in Seq(Frames) /\ WithTop(frame) # <<>>
  BY <1>1, TopOfStack
<1>3. onwards \in Frames /\ next \in Frames
  <2> DEFINE top == Top
  <2>1. /\ top = [inode |-> top.inode, i |-> top.i, count |-> top.count, entry |-> top.entry]
        /\ top.inode \in DOMAIN Image.inodes /\ top.i \in Nat /\ top.count \in Nat
        /\ top.entry \in Nat \ {0}
    BY <1>2 DEF Frames
  <2>2. /\ onwards = [top EXCEPT !.i = top.i + 1, !.entry = 1]
        /\ next = [top EXCEPT !.entry = top.entry + 1, !.count = top.count + 1]
    OBVIOUS
  <2> HIDE DEF top, onwards, next
  <2>3. /\ onwards = [inode |-> top.inode, i |-> top.i + 1, count |-> top.count, entry |-> 1]
        /\ next = [inode |-> top.inode, i |-> top.i, count |-> top.count + 1, entry |-> top.entry + 1]
    BY <2>1, <2>2
  <2> QED
    BY <2>1, <2>3 DEF Frames
<1>4. /\ f = [at |-> f.at, load |-> f.load, known |-> f.known, stack |-> f.stack,
              names |-> f.names, reads |-> f.reads]
      /\ f.load \in Nat /\ f.known \in 0..Image.groups /\ f.names \in Seq(STRING) /\ f.reads \in Nat
  BY <1>1, FieldsOf
<1>5. entries \in Seq(Entries)
  BY <1>1, <1>2, ImageFacts
<1>6. \/ fs' = [f EXCEPT !.at = "block", !.stack = WithTop(onwards)] /\ UNCHANGED pataVars
      \/ undefined
      \/ /\ ~(Top.entry > Len(entries)) /\ UNCHANGED pataVars
         /\ fs' = [f EXCEPT !.names = Append(@, entry.name), !.load = entry.inode, !.at = at,
                            !.stack = WithTop(next)]
  BY DEF print_entry
<1> HIDE DEF f, at, onwards, next
<1>7. CASE fs' = [f EXCEPT !.at = "block", !.stack = WithTop(onwards)] /\ UNCHANGED pataVars
  <2>1. "block" \in Sites
    BY DEF Sites
  <2>2. fs' = [at |-> "block", load |-> f.load, known |-> f.known, stack |-> WithTop(onwards),
               names |-> f.names, reads |-> f.reads]
    BY <1>4, <1>7
  <2>3. WithTop(onwards) \in Seq(Frames) /\ WithTop(onwards) # <<>>
    BY <1>2, <1>3
  <2> QED
    BY <1>4, <1>7, <2>1, <2>2, <2>3, MovesBy DEF Step
<1>8. CASE undefined
  BY <1>1, <1>8, MovesUndefined DEF Step
<1>9. CASE /\ ~(Top.entry > Len(entries)) /\ UNCHANGED pataVars
           /\ fs' = [f EXCEPT !.names = Append(@, entry.name), !.load = entry.inode, !.at = at,
                              !.stack = WithTop(next)]
  <2>1. entry.name \in STRING /\ entry.inode \in Nat
    <3> DEFINE e == Top.entry
    <3>1. e \in Nat \ {0} /\ ~(e > Len(entries)) /\ entries \in Seq(Entries)
      BY <1>2, <1>5, <1>9
    <3> HIDE DEF entries, e
    <3>2. Len(entries) \in Nat
      BY ONLY <3>1, LenProperties
    <3>3. e \in 1..Len(entries)
      BY ONLY <3>1, <3>2
    <3>4. entries[e] \in Entries
      BY ONLY <3>1, <3>3, ElementOfSeq
    <3> QED
      BY <3>4 DEF Entries, e
  <2> DEFINE name == entry.name  load == entry.inode  names == Append(f.names, name)
  <2> HIDE DEF name, load, entries
  <2>2. fs' = [at |-> at, load |-> load, known |-> f.known, stack |-> WithTop(next),
               names |-> Append(f.names, name), reads |-> f.reads]
    BY <1>4, <1>9 DEF name, load
  <2>3. names \in Seq(STRING)
    BY <1>4, <2>1, AppendProperties DEF name
  <2>4. at \in Sites
    BY DEF at, Sites
  <2>5. WithTop(next) \in Seq(Frames) /\ WithTop(next) # <<>>
    BY <1>2, <1>3
  <2>6. load \in Nat
    BY <2>1 DEF load
  <2> DEFINE stack == WithTop(next)  known == f.known  reads == f.reads
  <2>7. /\ fs' = [at |-> at, load |-> load, known |-> known, stack |-> stack, names |-> names,
                  reads |-> reads]
        /\ known \in 0..Image.groups /\ stack \in Seq(Frames) /\ stack # <<>> /\ reads \in Nat
    BY <1>4, <2>2, <2>5
  <2> HIDE DEF stack, known, reads, names
  <2>8. Moves
    BY <2>3, <2>4, <2>6, <2>7, MovesBy
  <2> QED
    BY <1>9, <2>8 DEF Step
<1> QED
  BY <1>6, <1>7, <1>8, <1>9

LEMMA ReadSectorsIs ==
  ASSUME IInv, read_sectors
  PROVE  Moves /\ ChannelInv' /\ machine' = machine
<1>1. ChannelInv /\ FSTypes /\ fs \in FSRecords /\ fs' = [fs EXCEPT !.reads = @ + 1]
  BY DEF IInv, FSTypes, read_sectors
<1>2. PICK r \in Requests : block_read(r[1], r[2], r[3])
  BY DEF read_sectors
<1>3. r[1] \in Drives /\ r[2] \in Nat /\ r[3] \in Nat
  <2>1. r \in Drives \X Nat \X Nat
    BY Ext2Assumption
  <2> QED
    BY <2>1
<1>4. ChannelInv'
  BY <1>1, <1>2, <1>3, KeptByBlockRead
<1>5. Moves
  <2> DEFINE f == fs
  <2>1. /\ f = [at |-> f.at, load |-> f.load, known |-> f.known, stack |-> f.stack,
                names |-> f.names, reads |-> f.reads]
        /\ f.at \in Sites /\ f.load \in Nat /\ f.known \in 0..Image.groups /\ f.stack \in Seq(Frames)
        /\ f.names \in Seq(STRING) /\ f.reads + 1 \in Nat
        /\ f.at \in {"block", "read", "entry"} => f.stack # <<>>
    BY <1>1, FieldsOf DEF FSTypes
  <2>2. fs' = [f EXCEPT !.reads = f.reads + 1]
    BY <1>1
  <2> HIDE DEF f
  <2>3. fs' = [at |-> f.at, load |-> f.load, known |-> f.known, stack |-> f.stack,
               names |-> f.names, reads |-> f.reads + 1]
    BY <2>1, <2>2
  <2> QED
    BY <2>1, <2>3, MovesBy
<1>6. machine' = machine
  BY <1>2 DEF block_read
<1> QED
  BY <1>4, <1>5, <1>6

-----------------------------------------------------------------------------
(* The theorems                                                            *)

LEMMA InvariantAtFirst ==
  ASSUME Init
  PROVE  IInv
<1>1. ChannelInv
  BY ChannelInit DEF Init
<1>2. fs = [at |-> "mount", load |-> 2, known |-> 0, stack |-> <<>>, names |-> <<>>, reads |-> 0]
  BY DEF Init, EXT2_ROOT_INO
<1>3. 0 \in 0..Image.groups
  <2>1. Image.groups \in Nat
    BY <1>1, ImageFacts DEF ChannelInv, ChannelTypes
  <2> QED
    BY <2>1
<1>4. <<>> \in Seq(Frames) /\ <<>> \in Seq(STRING)
  OBVIOUS
<1>5. fs \in FSRecords
  BY <1>2, <1>3, <1>4 DEF FSRecords, Sites
<1> QED
  BY <1>1, <1>2, <1>5 DEF IInv, FSTypes

LEMMA TypesAfter ==
  ASSUME Moves, machine' = machine
  PROVE  FSTypes'
  BY DEF Moves, FSTypes, FSRecords, Frames, Image

LEMMA InvariantIsKept ==
  ASSUME IInv, [Next]_vars
  PROVE  IInv'
<1>1. ChannelInv /\ FSTypes
  BY DEF IInv
<1>2. CASE ChannelStep /\ UNCHANGED fs
  <2>1. ChannelInv'
    BY <1>1, <1>2, KeptByFindController, KeptByIdentify, KeptByIdentified, KeptByAtaAccess,
       KeptByReadSector DEF ChannelStep
  <2>2. machine' = machine
    BY <1>2 DEF ChannelStep, find_controller, identify, identified, ata_access, read_sector
  <2>3. FSTypes'
    BY <1>1, <1>2, <2>2 DEF FSTypes, FSRecords, Frames, Image
  <2> QED
    BY <2>1, <2>3 DEF IInv
<1>3. CASE DriveStep /\ UNCHANGED fs
  <2>1. PICK d \in Drives : Serve(d)
    BY <1>3 DEF DriveStep
  <2>2. ChannelInv'
    BY <1>1, <2>1, KeptByServe
  <2>3. machine' = machine
    BY <2>1 DEF Serve
  <2>4. FSTypes'
    BY <1>1, <1>3, <2>3 DEF FSTypes, FSRecords, Frames, Image
  <2> QED
    BY <2>2, <2>4 DEF IInv
<1>4. CASE Step
  <2>1. ChannelInv'
    BY <1>1, <1>4, KeptByStutter, KeptByFSRead DEF Step, Reads
  <2>2. machine' = machine
    BY <1>4, MachineStays DEF Step, Reads
  <2>3. FSTypes'
    BY <1>4, <2>2, TypesAfter DEF Step
  <2> QED
    BY <2>1, <2>3 DEF IInv
<1>5. CASE Moves /\ ChannelInv' /\ machine' = machine
  BY <1>5, TypesAfter DEF IInv
<1>6. CASE FSStep
  BY <1>4, <1>5, <1>6, ReadSuperIs, ReadBgdtIs, CopyBgdtIs, GetInodeIs, TraverseDirIs, ReadBlockIs,
     UseBlockIs, PrintEntryIs, ReadSectorsIs DEF FSStep
<1>7. CASE UNCHANGED vars
  <2>1. UNCHANGED pataVars /\ UNCHANGED fs
    BY <1>7 DEF vars
  <2>2. machine' = machine
    BY <2>1 DEF pataVars
  <2>3. ChannelInv'
    BY <1>1, <2>1, KeptByStutter
  <2>4. FSTypes'
    BY <1>1, <2>1, <2>2 DEF FSTypes, FSRecords, Frames, Image
  <2> QED
    BY <2>3, <2>4 DEF IInv
<1> QED
  BY <1>2, <1>3, <1>6, <1>7 DEF Next, TaskStep

(* The drives, the ports, the call and the buffer stay in their types, a   *)
(* drive that init has not come to yet is as it was at power-on, and no    *)
(* ATA drive but the one that is read from has anything to hand over.      *)
THEOREM DiskInvariant == Spec => []IInv
<1>1. Init => IInv
  BY InvariantAtFirst
<1>2. IInv /\ [Next]_vars => IInv'
  BY InvariantIsKept
<1> QED
  BY <1>1, <1>2, PTL DEF Spec

(* InitFindsDrives: PATAChannel::init gives up only where the search of    *)
(* the bus cannot come upon a controller, and else finds every ATA drive   *)
(* and takes no other for one.                                             *)
THEOREM DrivesAreFound == Spec => []InitFindsDrives
<1>1. ASSUME IInv PROVE InitFindsDrives
  <2>1. ChannelTypes /\ Discovery
    BY <1>1 DEF IInv, ChannelInv
  <2>2. pc = "panic" => ~Findable(machine.config, "ide")
    BY <2>1, SearchFinds DEF Discovery
  <2>3. ASSUME pc \in {"idle", "busy", "poll"}, NEW d \in Drives
        PROVE  (devices[d] # Null /\ devices[d].type = "IDE_ATA") <=> Drive(d).kind = "ata"
    <3>1. Known(d)
      BY <2>1, <2>3 DEF Discovery, InInit
    <3>2. /\ Drive(d).kind \in {"none", "ata", "atapi", "other"}
          /\ Device(d, "IDE_ATA") # Null
      BY <2>1, DriveFacts DEF ChannelTypes
    <3>3. Device(d, "IDE_ATA").type = "IDE_ATA" /\ Device(d, "IDE_ATAPI").type = "IDE_ATAPI"
      BY DEF Device
    <3>4. "IDE_ATA" # "IDE_ATAPI"
      OBVIOUS
    <3> QED
      BY <3>1, <3>2, <3>3, <3>4 DEF Known, IsATA
  <2> QED
    BY <2>2, <2>3 DEF InitFindsDrives
<1> QED
  BY <1>1, DiskInvariant, PTL

(* ReadsAreFaithful: a read that reports success has filled its buffer     *)
(* with the sectors it was asked for, in order, though drives work on      *)
(* their own and reads before it may have failed half way.                 *)
THEOREM ReadsAreExact == Spec => []ReadsAreFaithful
<1>1. IInv => ReadsAreFaithful
  BY DEF IInv, ChannelInv
<1> QED
  BY <1>1, DiskInvariant, PTL

=============================================================================
