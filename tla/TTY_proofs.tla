----------------------------- MODULE TTY_proofs ------------------------------
(***************************************************************************)
(* The terminal's window, screen and cursor, for every size of the screen  *)
(* and of the ring and any number of laps.                                 *)
(***************************************************************************)
EXTENDS TTY, Integers, TLAPS

-----------------------------------------------------------------------------
(* Lines                                                                   *)

Aligned(p) == p % cols_ = 0

LEMMA AlignedMultiple ==
  ASSUME NEW k \in Int
  PROVE  Aligned(k * cols_) /\ Aligned(cols_ * k)
BY TTYAssumption DEF Aligned

LEMMA MultipleAligned ==
  ASSUME NEW p \in Int, Aligned(p)
  PROVE  \E k \in Int : p = k * cols_
<1>1. p = (p \div cols_) * cols_ /\ p \div cols_ \in Int
  BY TTYAssumption DEF Aligned
<1> QED
  BY <1>1

LEMMA AlignedSum ==
  ASSUME NEW a \in Int, NEW b \in Int, Aligned(a), Aligned(b)
  PROVE  Aligned(a + b) /\ Aligned(a - b)
<1>1. PICK k \in Int : a = k * cols_
  BY MultipleAligned
<1>2. PICK n \in Int : b = n * cols_
  BY MultipleAligned
<1>3. a + b = (k + n) * cols_ /\ a - b = (k - n) * cols_
  BY <1>1, <1>2, TTYAssumption
<1> QED
  BY <1>3, AlignedMultiple

(* Two lines do not overlap.                                               *)
LEMMA AlignedApart ==
  ASSUME NEW a \in Int, NEW b \in Int, Aligned(a), Aligned(b), a < b
  PROVE  a + cols_ <= b
<1>1. PICK k \in Int : a = k * cols_
  BY MultipleAligned
<1>2. PICK n \in Int : b = n * cols_
  BY MultipleAligned
<1>3. k + 1 <= n
  BY <1>1, <1>2, TTYAssumption
<1>4. (k + 1) * cols_ <= n * cols_
  BY <1>3, TTYAssumption
<1> QED
  BY <1>1, <1>2, <1>4, TTYAssumption

LEMMA LineStart ==
  ASSUME NEW p \in Nat
  PROVE  /\ line_start(p) \in Nat /\ Aligned(line_start(p))
         /\ line_start(p) <= p /\ p < line_start(p) + cols_
<1>1. p = (p \div cols_) * cols_ + (p % cols_) /\ p % cols_ \in 0..cols_ - 1 /\ p \div cols_ \in Nat
  BY TTYAssumption
<1>2. line_start(p) = (p \div cols_) * cols_
  BY <1>1, TTYAssumption DEF line_start
<1>3. Aligned(line_start(p))
  BY <1>1, <1>2, AlignedMultiple
<1> QED
  BY <1>1, <1>3, TTYAssumption DEF line_start

(* The line that begins at a is the line of all its positions.             *)
LEMMA LineOf ==
  ASSUME NEW a \in Nat, Aligned(a), NEW p \in Nat, a <= p, p < a + cols_
  PROVE  line_start(p) = a
<1>1. /\ line_start(p) \in Nat /\ Aligned(line_start(p))
      /\ line_start(p) <= p /\ p < line_start(p) + cols_
  BY LineStart
<1>2. ~(a < line_start(p)) /\ ~(line_start(p) < a)
  BY <1>1, AlignedApart, TTYAssumption
<1> QED
  BY <1>1, <1>2

LEMMA Sizes ==
  /\ cols_ \in Nat \ {0} /\ screen_size \in Nat /\ out_buf_size \in Nat
  /\ 2 * cols_ <= screen_size /\ 2 * screen_size <= out_buf_size
  /\ Aligned(cols_) /\ Aligned(screen_size) /\ Aligned(out_buf_size)
<1>1. cols_ \in Nat \ {0} /\ screen_size \in Nat /\ 2 * cols_ <= screen_size
  BY TTYAssumption DEF screen_size
<1>2. out_buf_size \in Nat /\ 2 * screen_size <= out_buf_size
  BY <1>1, TTYAssumption DEF out_buf_size
<1>3. Aligned(cols_) /\ Aligned(screen_size)
  BY AlignedMultiple, TTYAssumption DEF screen_size, Aligned
<1>4. out_buf_size = (rows_ * Screens) * cols_ /\ rows_ * Screens \in Int
  BY TTYAssumption DEF out_buf_size, screen_size
<1>5. Aligned(out_buf_size)
  BY <1>4, AlignedMultiple
<1> QED
  BY <1>1, <1>2, <1>3, <1>5

LEMMA RowsBelow == (rows_ - 1) * cols_ = screen_size - cols_
BY TTYAssumption DEF screen_size

-----------------------------------------------------------------------------
(* The ring                                                                *)

Cells == 0..out_buf_size - 1

CellOf(p) == p % out_buf_size

LEMMA CellOfRange ==
  ASSUME NEW p \in Nat
  PROVE  CellOf(p) \in Cells
BY Sizes DEF CellOf, Cells

(* Positions less than a lap apart have cells of their own.                *)
LEMMA CellOfInjective ==
  ASSUME NEW p \in Nat, NEW q \in Nat, CellOf(p) = CellOf(q), p < q + out_buf_size, q < p + out_buf_size
  PROVE  p = q
<1> DEFINE n == out_buf_size
<1>1. n \in Nat \ {0}
  BY Sizes
<1>2. p = (p \div n) * n + (p % n) /\ q = (q \div n) * n + (q % n)
      /\ p \div n \in Int /\ q \div n \in Int
  BY <1>1
<1>3. p - q = (p \div n - q \div n) * n
  BY <1>1, <1>2 DEF CellOf
<1>4. p \div n - q \div n < 1 /\ p \div n - q \div n > -1
  BY <1>1, <1>2, <1>3
<1> QED
  BY <1>1, <1>2, <1>3, <1>4

(* The first position that is still in the ring when p is the next one.    *)
First(p) ==
  IF line_start(p) + cols_ <= out_buf_size THEN 0 ELSE line_start(p) + cols_ - out_buf_size

LEMMA TopLimit ==
  ASSUME out_buf_pos_ \in Nat
  PROVE  top_limit = First(out_buf_pos_)
<1> DEFINE p == out_buf_pos_
           L == line_start(p)
           first == p + 1 - out_buf_size
<1>1. L \in Nat /\ Aligned(L) /\ L <= p /\ p < L + cols_
  BY LineStart
<1>2. CASE p < out_buf_size
  <2>1. L + cols_ <= out_buf_size
    BY <1>1, <1>2, Sizes, AlignedApart
  <2> QED
    BY <1>2, <2>1 DEF top_limit, First
<1>3. CASE ~(p < out_buf_size)
  <2>1. first \in Nat /\ Aligned(L - out_buf_size) /\ Aligned(L + cols_ - out_buf_size)
    <3>1. Aligned(L - out_buf_size) /\ L - out_buf_size \in Int
      <4> HIDE DEF L
      <4> QED
        BY <1>1, Sizes, AlignedSum
    <3>2. Aligned(L - out_buf_size + cols_)
      BY <3>1, Sizes, AlignedSum
    <3>3. L - out_buf_size + cols_ = L + cols_ - out_buf_size
      BY <1>1, Sizes
    <3> QED
      BY <1>1, <1>3, <3>1, <3>2, <3>3, Sizes
  <2>2. out_buf_size <= L
    <3>1. ~(L + cols_ <= out_buf_size)
      BY <1>1, <1>3, Sizes
    <3> QED
      BY <3>1, <1>1, Sizes, AlignedApart
  <2>3. First(p) = L + cols_ - out_buf_size
    BY <1>1, <2>2, Sizes DEF First
  <2>4. CASE first % cols_ = 0
    <3>1. first = L + cols_ - out_buf_size
      <4>1. Aligned(first)
        BY <2>4 DEF Aligned
      <4>2. ~(L - out_buf_size < first /\ first < L - out_buf_size + cols_)
        BY <4>1, <1>1, <2>1, Sizes, AlignedApart
      <4> QED
        BY <4>2, <1>1, <2>1, Sizes
    <3> QED
      BY <1>3, <2>3, <2>4, <3>1 DEF top_limit
  <2>5. CASE first % cols_ # 0
    <3>1. first # L - out_buf_size + cols_
      BY <2>1, <2>5, <1>1, Sizes DEF Aligned
    <3>2. L - out_buf_size \in Nat /\ L - out_buf_size <= first /\ first < L - out_buf_size + cols_
      BY <1>1, <2>2, <3>1, Sizes
    <3>3. line_start(first) = L - out_buf_size
      BY <2>1, <3>2, LineOf
    <3>4. (first \div cols_ + 1) * cols_ = line_start(first) + cols_
      <4>1. first = (first \div cols_) * cols_ + (first % cols_) /\ first \div cols_ \in Nat
            /\ first % cols_ \in 0..cols_ - 1
        BY <2>1, Sizes
      <4> QED
        BY <4>1, <2>1, Sizes DEF line_start
    <3> QED
      BY <1>1, <1>3, <2>3, <2>5, <3>3, <3>4, Sizes DEF top_limit
  <2> QED
    BY <2>4, <2>5
<1> QED
  BY <1>2, <1>3

(* What the ring holds: one lap of positions, whole lines.                 *)
LEMMA FirstInRing ==
  ASSUME NEW p \in Nat
  PROVE  /\ First(p) \in Nat /\ Aligned(First(p))
         /\ First(p) <= line_start(p) /\ line_start(p) + cols_ <= First(p) + out_buf_size
         /\ (First(p) = 0 \/ First(p) + out_buf_size = line_start(p) + cols_)
<1>1. line_start(p) \in Nat /\ Aligned(line_start(p))
  BY LineStart
<1>2. Aligned(0) /\ Aligned(line_start(p) + cols_ - out_buf_size)
  <2>1. Aligned(line_start(p) + cols_) /\ Aligned(cols_ - cols_) /\ cols_ - cols_ = 0
    BY <1>1, Sizes, AlignedSum
  <2> QED
    BY <1>1, <2>1, Sizes, AlignedSum
<1> QED
  BY <1>1, <1>2, Sizes DEF First

-----------------------------------------------------------------------------
(* What writing one character does                                         *)

LEMMA FoldOne ==
  ASSUME NEW w, NEW c
  PROVE  FoldLeft(write_char, w, <<c>>) = write_char(w, c)
<1> DEFINE Body(f) == [s \in SUBSET DOMAIN <<c>> |->
                         IF s = {} THEN w
                         ELSE write_char(f[s \ {Max(s)}], <<c>>[Max(s)])]
           fold == CHOOSE f : f = Body(f)
           g == [s \in SUBSET DOMAIN <<c>> |-> IF s = {} THEN w ELSE write_char(w, c)]
<1>1. FoldLeft(write_char, w, <<c>>) = fold[DOMAIN <<c>>]
  BY DEF FoldLeft, MapThenFoldSet
<1>2. DOMAIN <<c>> = {1} /\ <<c>>[1] = c
  OBVIOUS
<1>3. Max({1}) = 1
  BY DEF Max
<1>4. \A s \in SUBSET {1} : s = {} \/ s = {1}
  OBVIOUS
<1>5. {1} \ {Max({1})} = {}
  BY <1>3
<1>6. g = Body(g)
  <2>1. g[{}] = w /\ g[{1}] = write_char(w, c)
    BY <1>2
  <2>2. Body(g)[{}] = w
    BY <1>2
  <2>3. Body(g)[{1}] = write_char(g[{}], c)
    <3>1. Body(g)[{1}] = write_char(g[{1} \ {Max({1})}], <<c>>[Max({1})])
      BY <1>2
    <3> QED
      BY <1>2, <1>3, <1>5, <3>1
  <2>4. \A s \in SUBSET DOMAIN <<c>> : g[s] = Body(g)[s]
    <3> HIDE DEF g, Body
    <3> QED
      BY <2>1, <2>2, <2>3, <1>2, <1>4
  <2>5. /\ g = [s \in SUBSET DOMAIN <<c>> |-> g[s]]
        /\ Body(g) = [s \in SUBSET DOMAIN <<c>> |-> Body(g)[s]]
    OBVIOUS
  <2> HIDE DEF g, Body
  <2> QED
    BY <2>4, <2>5
<1>7. fold = Body(fold)
  <2> HIDE DEF g, Body
  <2> QED
    BY <1>6
<1>8. Body(fold)[{}] = w
  BY <1>2
<1>9. Body(fold)[{1}] = write_char(fold[{}], c)
  <2>1. Body(fold)[{1}] = write_char(fold[{1} \ {Max({1})}], <<c>>[Max({1})])
    BY <1>2
  <2> QED
    BY <1>2, <1>3, <1>5, <2>1
<1> HIDE DEF fold, Body
<1> QED
  BY <1>1, <1>2, <1>7, <1>8, <1>9

LEMMA MaxOf ==
  ASSUME NEW a \in Int, NEW b \in Int
  PROVE  Max({a, b}) = IF a >= b THEN a ELSE b
BY DEF Max

LEMMA MinOf ==
  ASSUME NEW a \in Int, NEW b \in Int
  PROVE  Min({a, b}) = IF a <= b THEN a ELSE b
BY DEF Min

Start(buffer, pos) == [buffer |-> buffer, pos |-> pos, min |-> pos, max |-> pos]

(* w is what writing a character at pos makes of the buffer: the line of   *)
(* pos or its end, with the cells from min up to max changed.              *)
Written(w, buffer, pos) ==
  /\ w.pos \in Nat /\ w.min \in Nat /\ w.max \in Nat /\ DOMAIN w.buffer = Cells
  /\ line_start(pos) <= w.min /\ w.min <= w.max /\ pos <= w.max
  /\ \/ line_start(pos) <= w.pos /\ w.pos <= w.max /\ w.max < line_start(pos) + cols_
     \/ w.pos = line_start(pos) + cols_ /\ w.max = line_start(pos) + cols_
  /\ \A i \in Cells :
       \/ w.buffer[i] = buffer[i]
       \/ \E p \in w.min..w.max - 1 : CellOf(p) = i /\ w.buffer[i].pos = p

LEMMA PutWritten ==
  ASSUME NEW buffer, DOMAIN buffer = Cells, NEW pos \in Nat, NEW c, NEW n \in Nat,
         pos + n <= line_start(pos) + cols_
  PROVE  Written(put(Start(buffer, pos), c, n), buffer, pos)
<1> DEFINE w == put(Start(buffer, pos), c, n)
<1>1. line_start(pos) \in Nat /\ line_start(pos) <= pos /\ pos < line_start(pos) + cols_ /\ cols_ \in Nat
  BY LineStart, Sizes
<1>2. Max({pos, pos + n}) = pos + n
  BY MaxOf
<1>3. /\ w.pos = pos + n /\ w.min = pos /\ w.max = pos + n
      /\ w.buffer = [i \in DOMAIN buffer |->
                       IF \E j \in 0..n - 1 : (pos + j) % out_buf_size = i
                       THEN LET j == CHOOSE k \in 0..n - 1 : (pos + k) % out_buf_size = i
                            IN  Cell(pos + j, c)
                       ELSE buffer[i]]
  BY <1>2 DEF put, Start
<1>4. ASSUME NEW i \in Cells
      PROVE  \/ w.buffer[i] = buffer[i]
             \/ \E p \in pos..pos + n - 1 : CellOf(p) = i /\ w.buffer[i].pos = p
  <2>1. CASE \E j \in 0..n - 1 : (pos + j) % out_buf_size = i
    <3> DEFINE j == CHOOSE k \in 0..n - 1 : (pos + k) % out_buf_size = i
    <3>1. j \in 0..n - 1 /\ (pos + j) % out_buf_size = i
      BY <2>1
    <3>2. w.buffer[i] = Cell(pos + j, c)
      BY <1>3, <1>4, <2>1
    <3> HIDE DEF j, w
    <3>3. w.buffer[i].pos = pos + j
      BY <3>2 DEF Cell
    <3>4. pos + j \in pos..pos + n - 1 /\ CellOf(pos + j) = i
      BY <3>1 DEF CellOf
    <3> QED
      BY <3>3, <3>4
  <2>2. CASE ~\E j \in 0..n - 1 : (pos + j) % out_buf_size = i
    <3>1. w.buffer[i] = buffer[i]
      BY <1>3, <1>4, <2>2
    <3> QED
      BY <3>1
  <2> QED
    BY <2>1, <2>2
<1>5. DOMAIN w.buffer = Cells
  BY <1>3
<1>6. w.pos = pos + n /\ w.min = pos /\ w.max = pos + n
  BY <1>3
<1>7. Written(w, buffer, pos)
  <2> HIDE DEF w
  <2> QED
    BY <1>1, <1>4, <1>5, <1>6 DEF Written
<1> QED
  BY <1>7

LEMMA CharWritten ==
  ASSUME NEW buffer, DOMAIN buffer = Cells, NEW pos \in Nat, NEW c
  PROVE  Written(write_char(Start(buffer, pos), c), buffer, pos)
<1> DEFINE w0 == Start(buffer, pos)
           L == line_start(pos)
<1>0. w0.pos = pos /\ w0.min = pos /\ w0.max = pos /\ w0.buffer = buffer
  BY DEF Start
<1>1. L \in Nat /\ L <= pos /\ pos < L + cols_ /\ cols_ \in Nat \ {0}
  BY LineStart, Sizes
<1>2. pos % cols_ = pos - L /\ pos % cols_ \in Nat
  BY <1>1, Sizes DEF line_start
<1>3. Min({pos, pos}) = pos
  BY MinOf
<1>4. CASE c = "BS"
  <2>1. write_char(w0, c) = backspace(w0)
    BY <1>4 DEF write_char
  <2>2. CASE pos % cols_ = 0
    BY <1>0, <1>1, <2>1, <2>2 DEF backspace, Written
  <2>3. CASE pos % cols_ # 0
    <3>1. backspace(w0) = [buffer |-> buffer, pos |-> pos - 1, min |-> pos, max |-> pos]
      BY <1>3, <2>3 DEF backspace, Start
    <3> QED
      BY <1>1, <1>2, <2>1, <2>3, <3>1 DEF Written
  <2> QED
    BY <2>2, <2>3
<1>5. CASE c = "TAB"
  <2> DEFINE column == pos % cols_
             stop == TabStop * ((column + TabStop) \div TabStop)
             new_column == Min({stop, cols_})
  <2>1. stop \in Nat /\ column < stop
    BY <1>2, TTYAssumption
  <2>2. new_column \in Nat /\ column <= new_column /\ new_column <= cols_
    <3> HIDE DEF stop
    <3> QED
      BY <1>1, <1>2, <2>1, MinOf
  <2>3. write_char(w0, c) = put(w0, "zero", new_column - column)
    BY <1>0, <1>5 DEF write_char, tab
  <2>4. new_column - column \in Nat /\ pos + (new_column - column) <= L + cols_
    <3> HIDE DEF new_column
    <3> QED
      BY <1>1, <1>2, <2>2
  <2> HIDE DEF new_column, column
  <2> QED
    BY <2>3, <2>4, PutWritten
<1>6. CASE c = "CR"
  <2>1. write_char(w0, c) = [buffer |-> buffer, pos |-> L, min |-> pos, max |-> pos]
    BY <1>3, <1>6 DEF write_char, carriage_return, Start
  <2> QED
    BY <1>1, <2>1 DEF Written
<1>7. CASE c = "LF"
  <2>1. Max({pos, L + cols_}) = L + cols_
    BY <1>1, MaxOf
  <2>2. write_char(w0, c) = [buffer |-> buffer, pos |-> L + cols_, min |-> pos, max |-> L + cols_]
    BY <1>7, <2>1 DEF write_char, line_feed, Start
  <2> QED
    BY <1>1, <2>2 DEF Written
<1>8. CASE c = "NUL"
  <2>1. write_char(w0, c) = w0
    BY <1>8 DEF write_char
  <2> QED
    BY <1>0, <1>1, <2>1 DEF Written
<1>9. CASE c \notin {"BS", "TAB", "CR", "LF", "NUL"}
  <2>1. write_char(w0, c) = put(w0, c, 1)
    BY <1>9 DEF write_char
  <2> QED
    BY <1>1, <2>1, PutWritten
<1> QED
  BY <1>4, <1>5, <1>6, <1>7, <1>8, <1>9

-----------------------------------------------------------------------------
(* The inductive invariant                                                 *)

TypeOK ==
  /\ out_buf_pos_ \in Nat /\ window_top_pos_ \in Nat
  /\ DOMAIN buffer_ = Cells /\ DOMAIN vga_memory_ = 0..screen_size - 1
  /\ input_mode_ \in BOOLEAN /\ cursor_enabled \in BOOLEAN

(* The window begins at a line, and lies in the ring.                      *)
WindowInRing ==
  /\ Aligned(window_top_pos_)
  /\ First(out_buf_pos_) <= window_top_pos_ /\ window_top_pos_ <= line_start(out_buf_pos_)
  /\ window_top_pos_ + screen_size <= First(out_buf_pos_) + out_buf_size

(* No position in the ring holds the text of another.                      *)
RingIsFresh ==
  \A p \in First(out_buf_pos_)..First(out_buf_pos_) + out_buf_size - 1 :
    buffer_[CellOf(p)] = Blank \/ buffer_[CellOf(p)].pos = p

ScreenShowsRing ==
  \A i \in 0..screen_size - 1 : vga_memory_[i] = buffer_[CellOf(window_top_pos_ + i)]

CursorIsOn == input_mode_ /\ Visible => cursor_enabled

IInv == TypeOK /\ WindowInRing /\ RingIsFresh /\ ScreenShowsRing /\ CursorIsOn

LEMMA InitIInv == Init => IInv
<1> SUFFICES ASSUME Init PROVE IInv
  OBVIOUS
<1>1. /\ out_buf_pos_ = 0 /\ window_top_pos_ = 0 /\ cursor_enabled = TRUE /\ input_mode_ = TRUE
      /\ buffer_ = [i \in 0..out_buf_size - 1 |-> Blank]
      /\ vga_memory_ = [i \in 0..screen_size - 1 |-> Blank]
  BY DEF Init
<1>2. Aligned(0) /\ line_start(0) = 0
  <2>1. line_start(0) \in Nat /\ Aligned(line_start(0)) /\ line_start(0) <= 0
    BY LineStart
  <2> QED
    BY <2>1
<1>3. First(0) = 0
  BY <1>2, Sizes DEF First
<1>4. TypeOK
  BY <1>1 DEF TypeOK, Cells
<1>5. WindowInRing
  BY <1>1, <1>2, <1>3, Sizes DEF WindowInRing
<1>6. \A p \in Nat : buffer_[CellOf(p)] = Blank
  BY <1>1, CellOfRange DEF Cells
<1>7. RingIsFresh
  BY <1>1, <1>3, <1>6, Sizes DEF RingIsFresh
<1>8. ScreenShowsRing
  BY <1>1, <1>6, Sizes DEF ScreenShowsRing
<1>9. CursorIsOn
  BY <1>1 DEF CursorIsOn
<1> QED
  BY <1>4, <1>5, <1>7, <1>8, <1>9 DEF IInv

-----------------------------------------------------------------------------
(* write                                                                   *)

LEMMA WriteChars ==
  ASSUME TypeOK, NEW str \in Strings
  PROVE  Written(write_chars(str), buffer_, out_buf_pos_)
<1>1. write_chars(str) = write_char(Start(buffer_, out_buf_pos_), str[1])
  BY OneByOne, FoldOne DEF write_chars, Start
<1> QED
  BY <1>1, CharWritten DEF TypeOK

(* The line a character leaves the position in: the same, or the next one. *)
LEMMA WrittenLine ==
  ASSUME NEW buffer, NEW pos \in Nat, NEW w, Written(w, buffer, pos)
  PROVE  LET L == line_start(pos)
             M == line_start(w.pos)
         IN  /\ L \in Nat /\ M \in Nat /\ Aligned(L) /\ Aligned(M)
             /\ line_start(w.max) = M /\ M <= w.max /\ w.max < M + cols_ /\ M <= w.pos /\ w.pos <= w.max
             /\ M = L \/ (M = L + cols_ /\ w.max = M)
<1> DEFINE L == line_start(pos)
<1>1. L \in Nat /\ Aligned(L) /\ cols_ \in Nat \ {0}
  BY LineStart, Sizes
<1>2. Aligned(L + cols_) /\ L + cols_ \in Nat
  <2> HIDE DEF L
  <2> QED
    BY <1>1, AlignedSum, Sizes
<1>3. w.pos \in Nat /\ w.max \in Nat
  BY DEF Written
<1>4. CASE L <= w.pos /\ w.pos <= w.max /\ w.max < L + cols_
  <2>1. line_start(w.pos) = L /\ line_start(w.max) = L
    <3> HIDE DEF L
    <3> QED
      BY <1>1, <1>3, <1>4, LineOf
  <2> QED
    BY <1>1, <1>3, <1>4, <2>1
<1>5. CASE w.pos = L + cols_ /\ w.max = L + cols_
  <2>1. line_start(L + cols_) = L + cols_
    <3> HIDE DEF L
    <3> QED
      BY <1>1, <1>2, LineOf
  <2> QED
    BY <1>1, <1>2, <1>3, <1>5, <2>1
<1> QED
  BY <1>4, <1>5 DEF Written

LEMMA WriteKeeps ==
  ASSUME IInv, NEW str \in Strings, write(str)
  PROVE  IInv'
<1> DEFINE w == write_chars(str)
           pos == out_buf_pos_
           L == line_start(pos)
           M == line_start(w.pos)
           W == window_top_pos_
<1>1. Written(w, buffer_, pos) /\ pos \in Nat /\ W \in Nat /\ DOMAIN vga_memory_ = 0..screen_size - 1
  BY WriteChars DEF IInv, TypeOK
<1>2. /\ w.pos \in Nat /\ w.min \in Nat /\ w.max \in Nat /\ DOMAIN w.buffer = Cells
      /\ L <= w.min /\ w.min <= w.max /\ pos <= w.max
      /\ \A i \in Cells :
           \/ w.buffer[i] = buffer_[i]
           \/ \E p \in w.min..w.max - 1 : CellOf(p) = i /\ w.buffer[i].pos = p
  BY <1>1 DEF Written
<1>3. /\ L \in Nat /\ M \in Nat /\ Aligned(L) /\ Aligned(M)
      /\ line_start(w.max) = M /\ M <= w.max /\ w.max < M + cols_ /\ M <= w.pos /\ w.pos <= w.max
      /\ M = L \/ (M = L + cols_ /\ w.max = M)
  <2> HIDE DEF w, pos
  <2> QED
    BY <1>1, WrittenLine
<1>4. /\ First(pos) \in Nat /\ Aligned(First(pos)) /\ First(pos) <= L /\ L + cols_ <= First(pos) + out_buf_size
      /\ (First(pos) = 0 \/ First(pos) + out_buf_size = L + cols_)
  <2> HIDE DEF pos
  <2> QED
    BY <1>1, FirstInRing
<1>5. /\ First(w.pos) \in Nat /\ First(w.pos) <= M /\ M + cols_ <= First(w.pos) + out_buf_size
      /\ (First(w.pos) = 0 \/ First(w.pos) + out_buf_size = M + cols_)
  <2> HIDE DEF w
  <2> QED
    BY <1>2, FirstInRing
<1>6. /\ Aligned(W) /\ First(pos) <= W /\ W <= L /\ W + screen_size <= First(pos) + out_buf_size
      /\ cols_ \in Nat \ {0} /\ screen_size \in Nat /\ out_buf_size \in Nat
      /\ 2 * cols_ <= screen_size /\ 2 * screen_size <= out_buf_size
  BY Sizes DEF IInv, WindowInRing
<1>7. out_buf_pos_' = w.pos /\ input_mode_' = input_mode_
  BY DEF write
<1>8. CASE /\ w.max < W + screen_size
           /\ buffer_' = w.buffer
           /\ UNCHANGED <<window_top_pos_, cursor_enabled>>
           /\ print(w.min, w.max - w.min)
  <2>1. First(w.pos) = First(pos)
    <3>1. CASE M = L
      BY <3>1 DEF First
    <3>2. CASE M = L + cols_ /\ w.max = M
      <4>1. First(pos) = 0 /\ M < out_buf_size
        BY <1>1, <1>2, <1>3, <1>4, <1>6, <1>8, <3>2
      <4>2. M + cols_ <= out_buf_size
        <5> HIDE DEF M
        <5> QED
          BY <4>1, <1>3, Sizes, AlignedApart
      <4> QED
        BY <4>1, <4>2 DEF First
    <3> QED
      BY <1>3, <3>1, <3>2
  <2>2. TypeOK'
    BY <1>2, <1>7, <1>8 DEF IInv, TypeOK, print
  <2>3. WindowInRing'
    <3>1. W <= M
      BY <1>1, <1>3, <1>6
    <3> QED
      BY <1>6, <1>7, <1>8, <2>1, <3>1 DEF WindowInRing, Aligned
  <2>4. RingIsFresh'
    <3>1. SUFFICES ASSUME NEW p \in First(pos)..First(pos) + out_buf_size - 1
                   PROVE  w.buffer[CellOf(p)] = Blank \/ w.buffer[CellOf(p)].pos = p
      BY <1>7, <1>8, <2>1 DEF RingIsFresh, CellOf
    <3>2. p \in Nat /\ CellOf(p) \in Cells
      BY <1>4, <1>6, CellOfRange
    <3>3. ASSUME NEW q \in w.min..w.max - 1, CellOf(q) = CellOf(p)
          PROVE  q = p
      <4>1. q \in Nat /\ p < q + out_buf_size /\ q < p + out_buf_size
        BY <1>2, <1>3, <1>4, <1>6, <1>8, <3>2
      <4> QED
        BY <3>2, <3>3, <4>1, CellOfInjective
    <3>4. w.buffer[CellOf(p)] = buffer_[CellOf(p)] \/ w.buffer[CellOf(p)].pos = p
      BY <1>2, <3>2, <3>3
    <3> QED
      BY <3>4 DEF IInv, RingIsFresh
  <2>5. ScreenShowsRing'
    <3>1. SUFFICES ASSUME NEW i \in 0..screen_size - 1
                   PROVE  vga_memory_'[i] = w.buffer[CellOf(W + i)]
      BY <1>8 DEF ScreenShowsRing, CellOf, screen_size
    <3>2. i \in Nat /\ W + i \in Nat /\ i + W = W + i /\ CellOf(W + i) \in Cells
      BY <1>1, <1>6, CellOfRange
    <3>3. vga_memory_'[i] = IF W + i \in w.min..w.min + (w.max - w.min) - 1
                            THEN w.buffer[CellOf(W + i)] ELSE vga_memory_[i]
      BY <1>1, <1>8, <3>2 DEF print, CellOf
    <3>4. ASSUME NEW q \in w.min..w.max - 1, CellOf(q) = CellOf(W + i)
          PROVE  q = W + i
      <4>1. q \in Nat /\ L <= q /\ q < W + screen_size
        <5>1. q \in Nat /\ L <= w.min /\ w.min <= q /\ q < w.max
              /\ w.min \in Nat /\ w.max \in Nat
          BY <1>2
        <5>2. w.max < W + screen_size
          BY <1>8
        <5> HIDE DEF w, L
        <5> QED
          BY <5>1, <5>2, <1>1, <1>3, <1>6
      <4>2. W + i < q + out_buf_size /\ q < W + i + out_buf_size
        BY <4>1, <1>1, <1>3, <1>4, <1>6, <3>2
      <4> QED
        BY <3>2, <3>4, <4>1, <4>2, CellOfInjective
    <3>5. w.min + (w.max - w.min) - 1 = w.max - 1
      BY <1>2
    <3>6. W + i \notin w.min..w.max - 1 => w.buffer[CellOf(W + i)] = buffer_[CellOf(W + i)]
      BY <1>2, <3>2, <3>4
    <3>7. vga_memory_[i] = buffer_[CellOf(W + i)]
      BY DEF IInv, ScreenShowsRing
    <3> QED
      BY <3>3, <3>5, <3>6, <3>7
  <2>6. CursorIsOn'
    <3>1. Visible
      BY <1>1, <1>2, <1>6, <1>8 DEF Visible
    <3> QED
      BY <1>7, <1>8, <3>1 DEF IInv, CursorIsOn
  <2> QED
    BY <2>2, <2>3, <2>4, <2>5, <2>6 DEF IInv
<1>9. CASE /\ w.max >= W + screen_size
           /\ window_top_pos_' = M + cols_ - screen_size
           /\ buffer_' = clear_rest(w.buffer, w.max, M + cols_ - 1)
           /\ cursor_enabled' = (cursor_enabled \/ input_mode_)
           /\ print(M + cols_ - screen_size, screen_size)
  <2> DEFINE top == M + cols_ - screen_size
             Cleared(i) == \E t \in w.max..M + cols_ - 1 : t % out_buf_size = i
  <2>1. top \in Nat /\ Aligned(top) /\ W <= top
    <3>1. Aligned(W + screen_size) /\ Aligned(M + cols_) /\ W + screen_size \in Int /\ M + cols_ \in Int
      <4> HIDE DEF M
      <4> QED
        BY <1>1, <1>3, <1>6, AlignedSum, Sizes
    <3>2. W + screen_size < M + cols_
      BY <1>1, <1>2, <1>3, <1>6, <1>9
    <3>3. W + screen_size + cols_ <= M + cols_
      <4> HIDE DEF M
      <4> QED
        BY <3>1, <3>2, AlignedApart
    <3>4. Aligned(M + cols_ - screen_size)
      <4> DEFINE next == M + cols_
      <4>1. Aligned(next) /\ next \in Int
        BY <3>1
      <4> HIDE DEF next
      <4>2. Aligned(next - screen_size)
        BY <4>1, AlignedSum, Sizes
      <4>3. next - screen_size = M + cols_ - screen_size
        BY <1>3, <1>6 DEF next
      <4> QED
        BY <4>2, <4>3
    <3> QED
      BY <1>1, <1>3, <1>6, <3>3, <3>4
  <2>2. DOMAIN buffer_' = Cells
        /\ \A i \in Cells : buffer_'[i] = IF Cleared(i) THEN Blank ELSE w.buffer[i]
    BY <1>2, <1>9 DEF clear_rest
  <2>3. TypeOK'
    <3>1. DOMAIN vga_memory_' = 0..screen_size - 1
      BY <1>1, <1>9 DEF print
    <3>2. cursor_enabled' \in BOOLEAN /\ input_mode_' \in BOOLEAN
      BY <1>7, <1>9 DEF IInv, TypeOK
    <3> QED
      BY <1>2, <1>7, <1>9, <2>1, <2>2, <3>1, <3>2 DEF TypeOK, Cells, screen_size, out_buf_size
  <2>4. WindowInRing'
    <3>1. First(w.pos) <= top /\ top <= M /\ top + screen_size <= First(w.pos) + out_buf_size
      BY <1>3, <1>5, <1>6, <2>1
    <3> QED
      BY <1>7, <1>9, <2>1, <3>1 DEF WindowInRing, Aligned
  <2>5. RingIsFresh'
    <3>1. SUFFICES ASSUME NEW p \in First(w.pos)..First(w.pos) + out_buf_size - 1
                   PROVE  buffer_'[CellOf(p)] = Blank \/ buffer_'[CellOf(p)].pos = p
      BY <1>7 DEF RingIsFresh, CellOf
    <3>2. p \in Nat /\ CellOf(p) \in Cells
      BY <1>5, <1>6, CellOfRange
    <3>3. CASE Cleared(CellOf(p))
      BY <2>2, <3>2, <3>3
    <3>4. CASE ~Cleared(CellOf(p))
      <4>1. buffer_'[CellOf(p)] = w.buffer[CellOf(p)]
        BY <2>2, <3>2, <3>4
      <4>2. First(w.pos) <= L /\ First(pos) <= First(w.pos)
        BY <1>3, <1>4, <1>5, <1>6 DEF First
      <4>3. ASSUME NEW q \in w.min..w.max - 1, CellOf(q) = CellOf(p)
            PROVE  q = p
        <5>1. q \in Nat /\ p < q + out_buf_size /\ q < p + out_buf_size
          BY <1>2, <1>3, <1>5, <1>6, <3>2, <4>2
        <5> QED
          BY <3>2, <4>3, <5>1, CellOfInjective
      <4>4. w.buffer[CellOf(p)] = buffer_[CellOf(p)] \/ w.buffer[CellOf(p)].pos = p
        BY <1>2, <3>2, <4>3
      <4>5. p \notin w.max..M + cols_ - 1
        BY <3>4 DEF CellOf
      <4>6. p \in First(pos)..First(pos) + out_buf_size - 1
        <5>1. CASE M = L
          BY <1>4, <1>6, <3>2, <4>2, <5>1 DEF First
        <5>2. CASE M = L + cols_ /\ w.max = M
          BY <1>3, <1>4, <1>5, <1>6, <3>2, <4>2, <4>5, <5>2
        <5> QED
          BY <1>3, <5>1, <5>2
      <4> QED
        BY <4>1, <4>4, <4>6 DEF IInv, RingIsFresh
    <3> QED
      BY <3>3, <3>4
  <2>6. ScreenShowsRing'
    <3>1. SUFFICES ASSUME NEW i \in 0..screen_size - 1
                   PROVE  vga_memory_'[i] = buffer_'[CellOf(top + i)]
      BY <1>9 DEF ScreenShowsRing, CellOf, screen_size
    <3>2. i + top \in top..top + screen_size - 1 /\ i + top = top + i
      BY <1>6, <2>1
    <3> QED
      BY <1>1, <1>9, <3>2 DEF print, CellOf
  <2>7. CursorIsOn'
    BY <1>7, <1>9 DEF CursorIsOn
  <2> QED
    BY <2>3, <2>4, <2>5, <2>6, <2>7 DEF IInv
<1>10. M + cols_ - screen_size + screen_size - 1 = M + cols_ - 1
  <2> HIDE DEF M
  <2> QED
    BY <1>3, <1>6
<1> QED
  BY <1>3, <1>8, <1>9, <1>10 DEF write

-----------------------------------------------------------------------------
(* Scrolling                                                               *)

(* A position that a window shows, and one that it does not.               *)
LEMMA InView ==
  ASSUME NEW p \in Nat, NEW top \in Nat, NEW end \in Nat, p < top + end
  PROVE  top + end >= p /\ \A above \in Nat : top <= above => p < above + end
OBVIOUS

LEMMA OutOfView ==
  ASSUME NEW p \in Nat, NEW top \in Nat, NEW end \in Nat
  PROVE  p > top + end => ~(p <= top + end) /\ ~(top + end >= p)
OBVIOUS

LEMMA PlaceInWindow ==
  ASSUME NEW top \in Nat, NEW i \in 0..screen_size - 1
  PROVE  i + top = top + i /\ i + top \in top..top + screen_size - 1
BY Sizes

LEMMA ScrolledScreen ==
  ASSUME IInv, UNCHANGED <<buffer_, out_buf_pos_>>, window_top_pos_' \in Nat,
         \/ UNCHANGED <<window_top_pos_, vga_memory_>>
         \/ print(window_top_pos_', screen_size)
  PROVE  DOMAIN vga_memory_' = 0..screen_size - 1 /\ RingIsFresh' /\ ScreenShowsRing'
<1>1. RingIsFresh'
  BY DEF IInv, RingIsFresh, First, line_start, CellOf, out_buf_size, screen_size
<1>2. CASE UNCHANGED <<window_top_pos_, vga_memory_>>
  BY <1>1, <1>2 DEF IInv, TypeOK, ScreenShowsRing, CellOf, out_buf_size, screen_size
<1>3. CASE print(window_top_pos_', screen_size)
  <2>1. DOMAIN vga_memory_' = 0..screen_size - 1
    BY <1>3 DEF IInv, TypeOK, print
  <2>2. ScreenShowsRing'
    <3>1. SUFFICES ASSUME NEW i \in 0..screen_size - 1
                   PROVE  vga_memory_'[i] = buffer_'[CellOf(window_top_pos_' + i)]
      BY DEF ScreenShowsRing, CellOf, screen_size, out_buf_size
    <3>2. /\ i + window_top_pos_' = window_top_pos_' + i
          /\ i + window_top_pos_' \in window_top_pos_'..window_top_pos_' + screen_size - 1
      BY PlaceInWindow
    <3> QED
      BY <1>3, <3>2 DEF IInv, TypeOK, print, CellOf
  <2> QED
    BY <1>1, <2>1, <2>2
<1> QED
  BY <1>2, <1>3

LEMMA ScrollUpWindow ==
  ASSUME IInv, NEW lines \in Lines, scroll_up(lines)
  PROVE  window_top_pos_' \in Nat /\ window_top_pos_' <= window_top_pos_ /\ WindowInRing'
<1> DEFINE pos == out_buf_pos_
           L == line_start(pos)
           W == window_top_pos_
           by == cols_ * lines
<1>1. pos \in Nat /\ W \in Nat /\ lines \in Nat
  BY TTYAssumption DEF IInv, TypeOK
<1>2. First(pos) \in Nat /\ Aligned(First(pos)) /\ First(pos) <= L /\ L \in Nat
  <2> HIDE DEF pos
  <2> QED
    BY <1>1, FirstInRing, LineStart
<1>3. by \in Nat /\ Aligned(by)
  BY <1>1, Sizes, AlignedMultiple
<1>4. Aligned(W) /\ First(pos) <= W /\ W <= L /\ W + screen_size <= First(pos) + out_buf_size
  BY DEF IInv, WindowInRing
<1>5. Aligned(W - by)
  <2> HIDE DEF W, by
  <2> QED
    BY <1>1, <1>3, <1>4, AlignedSum
<1>6. window_top_pos_' \in {First(pos), W - by} /\ First(pos) <= window_top_pos_' /\ window_top_pos_' <= W
  <2>1. window_top_pos_' = IF W > by THEN Max({W - by, First(pos)}) ELSE First(pos)
    BY <1>1, TopLimit DEF scroll_up
  <2>2. W - by \in Int /\ W - by <= W
    BY <1>1, <1>3
  <2> HIDE DEF W, by, pos
  <2> QED
    BY <1>1, <1>2, <1>3, <1>4, <2>1, <2>2, MaxOf
<1>7. out_buf_pos_' = pos
  BY DEF scroll_up
<1>8. Aligned(window_top_pos_') /\ window_top_pos_' \in Nat
  BY <1>1, <1>2, <1>3, <1>5, <1>6
<1>9. window_top_pos_' <= L /\ window_top_pos_' + screen_size <= First(pos) + out_buf_size
  BY <1>1, <1>2, <1>4, <1>6, <1>8, Sizes
<1> QED
  BY <1>6, <1>7, <1>8, <1>9 DEF WindowInRing, Aligned, First, line_start, out_buf_size, screen_size

LEMMA BottomLimit ==
  ASSUME IInv
  PROVE  /\ bottom_limit \in Nat /\ Aligned(bottom_limit)
         /\ First(out_buf_pos_) <= bottom_limit /\ bottom_limit <= line_start(out_buf_pos_)
         /\ bottom_limit + screen_size <= First(out_buf_pos_) + out_buf_size
         /\ out_buf_pos_ <= bottom_limit + screen_size
<1> DEFINE pos == out_buf_pos_
           L == line_start(pos)
<1>1. pos \in Nat
  BY DEF IInv, TypeOK
<1>2. L \in Nat /\ Aligned(L) /\ L <= pos /\ pos < L + cols_
  BY <1>1, LineStart
<1>3. /\ First(pos) \in Nat /\ First(pos) <= L /\ L + cols_ <= First(pos) + out_buf_size
      /\ (First(pos) = 0 \/ First(pos) + out_buf_size = L + cols_)
  <2> HIDE DEF pos
  <2> QED
    BY <1>1, FirstInRing
<1>4. /\ cols_ \in Nat \ {0} /\ screen_size \in Nat /\ out_buf_size \in Nat
      /\ 2 * cols_ <= screen_size /\ 2 * screen_size <= out_buf_size
  BY Sizes
<1>5. CASE pos < out_buf_size - screen_size
  <2>1. bottom_limit = L
    BY <1>5 DEF bottom_limit
  <2> QED
    BY <1>1, <1>2, <1>3, <1>4, <1>5, <2>1
<1>6. CASE ~(pos < out_buf_size - screen_size)
  <2>1. bottom_limit = L - (screen_size - cols_)
    BY <1>6, RowsBelow DEF bottom_limit
  <2>2. out_buf_size - screen_size <= L
    <3>1. Aligned(out_buf_size - screen_size)
      BY Sizes, AlignedSum
    <3>2. ~(L < out_buf_size - screen_size)
      <4>1. CASE L < out_buf_size - screen_size
        <5>1. L + cols_ <= out_buf_size - screen_size
          <6> HIDE DEF L
          <6> QED
            BY <1>2, <1>4, <3>1, <4>1, AlignedApart
        <5> QED
          BY <1>1, <1>2, <1>4, <1>6, <5>1
      <4> QED
        BY <4>1
    <3> QED
      BY <1>2, <1>4, <3>2
  <2>3. Aligned(L - (screen_size - cols_))
    <3>1. Aligned(screen_size - cols_) /\ screen_size - cols_ \in Int
      BY Sizes, AlignedSum
    <3> HIDE DEF L
    <3> QED
      BY <1>2, <3>1, AlignedSum
  <2>4. First(pos) <= L - (screen_size - cols_)
    BY <1>2, <1>3, <1>4, <2>2
  <2> QED
    BY <1>1, <1>2, <1>3, <1>4, <2>1, <2>2, <2>3, <2>4
<1> QED
  BY <1>5, <1>6

LEMMA ScrollDownWindow ==
  ASSUME IInv, NEW lines \in Lines, scroll_down(lines)
  PROVE  /\ window_top_pos_' \in Nat /\ WindowInRing'
         /\ window_top_pos_' < window_top_pos_ => out_buf_pos_' <= window_top_pos_' + screen_size
<1> DEFINE pos == out_buf_pos_
           W == window_top_pos_
           by == cols_ * lines
<1>1. pos \in Nat /\ W \in Nat /\ lines \in Nat /\ screen_size \in Nat /\ out_buf_size \in Nat
  BY TTYAssumption, Sizes DEF IInv, TypeOK
<1>2. /\ bottom_limit \in Nat /\ Aligned(bottom_limit)
      /\ First(pos) <= bottom_limit /\ bottom_limit <= line_start(pos)
      /\ bottom_limit + screen_size <= First(pos) + out_buf_size
      /\ pos <= bottom_limit + screen_size
  BY BottomLimit
<1>3. by \in Nat /\ Aligned(by)
  BY <1>1, Sizes, AlignedMultiple
<1>4. Aligned(W) /\ First(pos) <= W
  BY DEF IInv, WindowInRing
<1>5. Aligned(W + by) /\ W + by \in Nat
  <2> HIDE DEF W, by
  <2> QED
    BY <1>1, <1>3, <1>4, AlignedSum
<1>6. /\ window_top_pos_' \in {W + by, bottom_limit} /\ window_top_pos_' <= bottom_limit
      /\ window_top_pos_' = bottom_limit \/ W <= window_top_pos_'
  <2>1. window_top_pos_' = Min({W + by, bottom_limit})
    BY DEF scroll_down
  <2>2. W <= W + by
    BY <1>1, <1>3
  <2> HIDE DEF W, by
  <2> QED
    BY <1>2, <1>5, <2>1, <2>2, MinOf
<1>7. out_buf_pos_' = pos
  BY DEF scroll_down
<1>8. First(pos) \in Nat /\ line_start(pos) \in Nat
  BY <1>1, FirstInRing, LineStart
<1>9. window_top_pos_' \in Nat /\ Aligned(window_top_pos_')
  BY <1>2, <1>5, <1>6
<1>10. /\ First(pos) <= window_top_pos_' /\ window_top_pos_' <= line_start(pos)
       /\ window_top_pos_' + screen_size <= First(pos) + out_buf_size
  BY <1>1, <1>2, <1>4, <1>6, <1>8, <1>9
<1>11. window_top_pos_' < W => pos <= window_top_pos_' + screen_size
  <2>1. CASE window_top_pos_' = bottom_limit
    BY <1>2, <2>1
  <2>2. CASE W <= window_top_pos_'
    BY <1>1, <1>9, <2>2
  <2> QED
    BY <1>6, <2>1, <2>2
<1> QED
  BY <1>7, <1>9, <1>10, <1>11 DEF WindowInRing, Aligned, First, line_start, out_buf_size, screen_size

LEMMA ScrollUpKeeps ==
  ASSUME IInv, NEW lines \in Lines, scroll_up(lines)
  PROVE  IInv'
<1>1. /\ window_top_pos_' \in Nat /\ window_top_pos_' <= window_top_pos_ /\ WindowInRing'
  BY ScrollUpWindow
<1>2. /\ UNCHANGED <<buffer_, out_buf_pos_, input_mode_>>
      /\ \/ UNCHANGED <<window_top_pos_, vga_memory_, cursor_enabled>>
         \/ /\ print(window_top_pos_', screen_size)
            /\ cursor_enabled' = (cursor_enabled /\ window_top_pos_' + screen_size >= out_buf_pos_)
  BY DEF scroll_up
<1>3. DOMAIN vga_memory_' = 0..screen_size - 1 /\ RingIsFresh' /\ ScreenShowsRing'
  BY <1>1, <1>2, ScrolledScreen
<1>4. TypeOK'
  <2>1. cursor_enabled' \in BOOLEAN
    BY <1>2 DEF IInv, TypeOK
  <2> QED
    BY <1>1, <1>2, <1>3, <2>1 DEF IInv, TypeOK, Cells, out_buf_size, screen_size
<1>5. CursorIsOn'
  <2>1. SUFFICES ASSUME input_mode_', Visible' PROVE cursor_enabled'
    BY DEF CursorIsOn
  <2>2. out_buf_pos_ < window_top_pos_' + screen_size
    BY <1>2, <2>1 DEF Visible, screen_size
  <2>3. Visible /\ window_top_pos_' + screen_size >= out_buf_pos_
    <3>1. out_buf_pos_ \in Nat /\ window_top_pos_ \in Nat /\ screen_size \in Nat
      BY Sizes DEF IInv, TypeOK
    <3>2. out_buf_pos_ < window_top_pos_ + screen_size /\ window_top_pos_' + screen_size >= out_buf_pos_
      BY <1>1, <2>2, <3>1, InView
    <3> QED
      BY <3>2 DEF Visible
  <2>4. cursor_enabled
    BY <1>2, <2>1, <2>3 DEF IInv, CursorIsOn
  <2> QED
    BY <1>2, <2>3, <2>4
<1> QED
  BY <1>1, <1>3, <1>4, <1>5 DEF IInv

LEMMA ScrollDownKeeps ==
  ASSUME IInv, NEW lines \in Lines, scroll_down(lines)
  PROVE  IInv'
<1>1. window_top_pos_' \in Nat /\ WindowInRing'
  BY ScrollDownWindow
<1>2. /\ UNCHANGED <<buffer_, out_buf_pos_, input_mode_>>
      /\ \/ UNCHANGED <<window_top_pos_, vga_memory_, cursor_enabled>>
         \/ /\ print(window_top_pos_', screen_size)
            /\ cursor_enabled' = IF window_top_pos_' + screen_size >= out_buf_pos_
                                 THEN input_mode_ ELSE cursor_enabled
  BY DEF scroll_down, cursor_after_scroll_down
<1>3. DOMAIN vga_memory_' = 0..screen_size - 1 /\ RingIsFresh' /\ ScreenShowsRing'
  BY <1>1, <1>2, ScrolledScreen
<1>4. TypeOK'
  <2>1. cursor_enabled' \in BOOLEAN
    BY <1>2 DEF IInv, TypeOK
  <2> QED
    BY <1>1, <1>2, <1>3, <2>1 DEF IInv, TypeOK, Cells, out_buf_size, screen_size
<1>5. CursorIsOn'
  <2>1. SUFFICES ASSUME input_mode_', Visible' PROVE cursor_enabled'
    BY DEF CursorIsOn
  <2>2. out_buf_pos_ < window_top_pos_' + screen_size
    BY <1>2, <2>1 DEF Visible, screen_size
  <2>3. window_top_pos_' + screen_size >= out_buf_pos_
    <3>1. out_buf_pos_ \in Nat /\ screen_size \in Nat
      BY Sizes DEF IInv, TypeOK
    <3> QED
      BY <1>1, <2>2, <3>1, InView
  <2>4. CASE UNCHANGED <<window_top_pos_, vga_memory_, cursor_enabled>>
    <3>1. Visible
      BY <2>2, <2>4 DEF Visible
    <3> QED
      BY <1>2, <2>1, <2>4, <3>1 DEF IInv, CursorIsOn
  <2>5. CASE cursor_enabled' = IF window_top_pos_' + screen_size >= out_buf_pos_
                               THEN input_mode_ ELSE cursor_enabled
    <3>1. cursor_enabled' = input_mode_
      BY <2>3, <2>5
    <3> QED
      BY <1>2, <2>1, <3>1
  <2> QED
    BY <1>2, <2>4, <2>5
<1> QED
  BY <1>1, <1>3, <1>4, <1>5 DEF IInv

LEMMA SetInputKeeps ==
  ASSUME IInv, NEW enabled \in BOOLEAN, set_input(enabled)
  PROVE  IInv'
<1>1. /\ UNCHANGED <<buffer_, vga_memory_, out_buf_pos_, window_top_pos_>>
      /\ input_mode_' = enabled /\ cursor_enabled' = enabled
  BY DEF set_input
<1>2. TypeOK'
  BY <1>1 DEF IInv, TypeOK, Cells, out_buf_size, screen_size
<1>3. WindowInRing' /\ RingIsFresh' /\ ScreenShowsRing'
  BY <1>1 DEF IInv, WindowInRing, RingIsFresh, ScreenShowsRing, Aligned, First, CellOf,
              line_start, out_buf_size, screen_size
<1>4. CursorIsOn'
  BY <1>1 DEF CursorIsOn
<1> QED
  BY <1>2, <1>3, <1>4 DEF IInv

LEMMA StepKeepsIInv == IInv /\ [Next]_vars => IInv'
<1> SUFFICES ASSUME IInv, [Next]_vars PROVE IInv'
  OBVIOUS
<1>1. CASE Next
  BY <1>1, WriteKeeps, ScrollUpKeeps, ScrollDownKeeps, SetInputKeeps DEF Next
<1>2. CASE UNCHANGED vars
  <2>1. UNCHANGED <<buffer_, vga_memory_, out_buf_pos_, window_top_pos_>>
    BY <1>2 DEF vars
  <2>2. UNCHANGED <<input_mode_, cursor_enabled>>
    BY <1>2 DEF vars
  <2>3. TypeOK'
    BY <2>1, <2>2 DEF IInv, TypeOK, Cells, out_buf_size, screen_size
  <2>4. WindowInRing' /\ RingIsFresh' /\ ScreenShowsRing'
    BY <2>1 DEF IInv, WindowInRing, RingIsFresh, ScreenShowsRing, Aligned, First, CellOf,
                line_start, out_buf_size, screen_size
  <2>5. CursorIsOn'
    BY <2>1, <2>2 DEF IInv, CursorIsOn, Visible, screen_size
  <2> QED
    BY <2>3, <2>4, <2>5 DEF IInv
<1> QED
  BY <1>1, <1>2

-----------------------------------------------------------------------------
(* The theorems                                                            *)

(* The inductive invariant: whatever was written and scrolled, the window  *)
(* lies in the ring, which holds no text of an earlier lap, the screen     *)
(* shows the window, and a cursor in view is on.                           *)
THEOREM TerminalInvariant == Spec => []IInv
<1>1. Init => IInv
  BY InitIInv
<1>2. IInv /\ [Next]_vars => IInv'
  BY StepKeepsIInv
<1> QED
  BY <1>1, <1>2, PTL DEF Spec

(* The window begins at a line that is still in the ring and never below   *)
(* the line being written, through every lap of the ring.                  *)
THEOREM WindowStays == Spec => []WindowInHistory
<1>1. IInv => WindowInHistory
  BY TopLimit DEF IInv, TypeOK, WindowInRing, WindowInHistory, Aligned
<1> QED
  BY <1>1, TerminalInvariant, PTL

(* After every operation the video memory is the window over the ring,     *)
(* although write copies only what one character can have changed.         *)
THEOREM ScreenStays == Spec => []ScreenIsWindow
<1>1. IInv => ScreenIsWindow
  BY DEF IInv, ScreenShowsRing, ScreenIsWindow, CellOf
<1> QED
  BY <1>1, TerminalInvariant, PTL

(* The screen never shows text that an earlier lap left in the ring, or    *)
(* text that was written for another place.                                *)
THEOREM TextIsFresh == Spec => []NoStaleText
<1>1. IInv => NoStaleText
  <2> SUFFICES ASSUME IInv, NEW i \in 0..screen_size - 1
               PROVE  vga_memory_[i] = Blank \/ vga_memory_[i].pos = window_top_pos_ + i
    BY DEF NoStaleText
  <2>1. First(out_buf_pos_) \in Nat
    BY FirstInRing DEF IInv, TypeOK
  <2>2. window_top_pos_ + i \in First(out_buf_pos_)..First(out_buf_pos_) + out_buf_size - 1
    BY <2>1, Sizes DEF IInv, TypeOK, WindowInRing
  <2> QED
    BY <2>2 DEF IInv, RingIsFresh, ScreenShowsRing
<1> QED
  BY <1>1, TerminalInvariant, PTL

(* A step that moves the position or the window in input mode.             *)
Follows ==
  Moved /\ input_mode_' =>
    /\ Visible' => cursor_enabled' /\ cursor_pos' = out_buf_pos_' - window_top_pos_'
    /\ window_top_pos_' < window_top_pos_
         /\ out_buf_pos_' > window_top_pos_' + screen_size => ~cursor_enabled'

LEMMA WriteFollows ==
  ASSUME IInv, NEW str \in Strings, write(str)
  PROVE  window_top_pos_' < window_top_pos_ => ~(out_buf_pos_' > window_top_pos_' + screen_size)
<1> DEFINE w == write_chars(str)
           M == line_start(w.pos)
<1>1. Written(w, buffer_, out_buf_pos_) /\ out_buf_pos_ \in Nat /\ window_top_pos_ \in Nat
  BY WriteChars DEF IInv, TypeOK
<1>2. M \in Nat /\ line_start(w.max) = M /\ w.max < M + cols_ /\ w.pos <= w.max
  <2> HIDE DEF w
  <2> QED
    BY <1>1, WrittenLine
<1>3. w.pos \in Nat /\ w.max \in Nat /\ out_buf_pos_' = w.pos
  BY <1>1 DEF Written, write
<1>4. window_top_pos_' = window_top_pos_ \/ window_top_pos_' = M + cols_ - screen_size
  BY <1>2 DEF write
<1>5. w.pos < M + cols_ - screen_size + screen_size
  <2> HIDE DEF w, M
  <2> QED
    BY <1>2, <1>3, Sizes
<1>6. CASE window_top_pos_' = window_top_pos_
  BY <1>1, <1>6
<1>7. CASE window_top_pos_' = M + cols_ - screen_size
  <2>1. M + cols_ - screen_size + screen_size \in Int
    <3> HIDE DEF M
    <3> QED
      BY <1>2, Sizes
  <2>2. out_buf_pos_' < window_top_pos_' + screen_size
    BY <1>3, <1>5, <1>7
  <2>3. window_top_pos_' + screen_size \in Int
    BY <1>7, <2>1
  <2> QED
    BY <1>3, <2>2, <2>3
<1> QED
  BY <1>4, <1>6, <1>7

LEMMA StepFollows == IInv /\ IInv' /\ [Next]_vars => [Follows]_vars
<1> SUFFICES ASSUME IInv, IInv', Next, Moved, input_mode_'
             PROVE  /\ Visible' => cursor_enabled' /\ cursor_pos' = out_buf_pos_' - window_top_pos_'
                    /\ window_top_pos_' < window_top_pos_
                         /\ out_buf_pos_' > window_top_pos_' + screen_size => ~cursor_enabled'
  BY DEF Follows
<1>1. Visible' => cursor_enabled'
  BY DEF IInv, CursorIsOn
<1>2. CASE \E str \in Strings : write(str)
  <2>1. PICK str \in Strings : write(str)
    BY <1>2
  <2>2. move_cursor
    BY <2>1 DEF write, print_moves_cursor
  <2>3. Visible' => cursor_pos' = out_buf_pos_' - window_top_pos_'
    BY <2>2 DEF move_cursor, Visible, screen_size
  <2> QED
    BY <1>1, <2>1, <2>3, WriteFollows
<1>3. CASE \E lines \in Lines : scroll_up(lines)
  <2>1. PICK lines \in Lines : scroll_up(lines)
    BY <1>3
  <2>2. /\ out_buf_pos_' = out_buf_pos_ /\ window_top_pos_' # window_top_pos_
        /\ move_cursor
        /\ cursor_enabled' = (cursor_enabled /\ window_top_pos_' + screen_size >= out_buf_pos_)
    BY <2>1 DEF scroll_up, print_moves_cursor, Moved
  <2>3. Visible' => cursor_pos' = out_buf_pos_' - window_top_pos_'
    BY <2>2 DEF move_cursor, Visible, screen_size
  <2>4. out_buf_pos_' > window_top_pos_' + screen_size => ~cursor_enabled'
    <3>1. out_buf_pos_' \in Nat /\ window_top_pos_' \in Nat /\ screen_size \in Nat
      BY Sizes DEF IInv, TypeOK
    <3>2. out_buf_pos_' > window_top_pos_' + screen_size => ~(window_top_pos_' + screen_size >= out_buf_pos_)
      BY <2>2, <3>1, OutOfView
    <3> QED
      BY <2>2, <3>2
  <2> QED
    BY <1>1, <2>3, <2>4
<1>4. CASE \E lines \in Lines : scroll_down(lines)
  <2>1. PICK lines \in Lines : scroll_down(lines)
    BY <1>4
  <2>2. out_buf_pos_' = out_buf_pos_ /\ move_cursor
    BY <2>1 DEF scroll_down, Moved
  <2>3. Visible' => cursor_pos' = out_buf_pos_' - window_top_pos_'
    BY <2>2 DEF move_cursor, Visible, screen_size
  <2>4. window_top_pos_' < window_top_pos_ => ~(out_buf_pos_' > window_top_pos_' + screen_size)
    <3>1. out_buf_pos_' \in Nat /\ window_top_pos_' \in Nat /\ screen_size \in Nat
      BY Sizes DEF IInv, TypeOK
    <3> QED
      BY <2>1, <3>1, ScrollDownWindow, OutOfView
  <2> QED
    BY <1>1, <2>3, <2>4
<1>5. CASE \E enabled \in BOOLEAN : set_input(enabled)
  BY <1>5 DEF set_input, Moved
<1> QED
  BY <1>2, <1>3, <1>4, <1>5 DEF Next

(* In input mode the cursor follows every character and every scrolling:   *)
(* in view it is on and where the next character goes, and scrolled up out *)
(* of view by more than its own cell it is off.                            *)
THEOREM CursorFollows == Spec => CursorFollowsText
<1>1. IInv /\ IInv' /\ [Next]_vars => [Follows]_vars
  BY StepFollows
<1>2. Spec => [][Follows]_vars
  BY <1>1, TerminalInvariant, PTL DEF Spec
<1> QED
  BY <1>2 DEF CursorFollowsText, Follows
=============================================================================
