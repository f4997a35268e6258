--------------------------- MODULE Console_proofs ----------------------------
(***************************************************************************)
(* The cursor of the text console, for every size of the screen, any set   *)
(* of tasks, any scripts, and a panic at any moment.                       *)
(*                                                                         *)
(* IInv is the inductive invariant.  A cursor may be off the screen while  *)
(* tasks print, and with several of them in any way: but only as long as   *)
(* one of them is still to test it, and the task that brings it back is    *)
(* not the one that took it there.  A panic stops all but one of them, and *)
(* those it stops test nothing any more: the screen it clears makes up for *)
(* that, so that until then the cursor may be anywhere.                    *)
(***************************************************************************)
EXTENDS Console, TLAPS

Fields == {"at", "call", "text", "i", "read"}

(* Places from which print_color still tests the line, and the column.     *)
BeforeScroll == {"char", "store_x", "store_y", "wrap", "wrap_y", "bottom"}

Stores == {"store_x", "store_y", "wrap_y"}

TypeOK ==
  /\ cursor_x \in Int /\ cursor_y \in Int
  /\ DOMAIN task = Tasks /\ DOMAIN script = Tasks
  /\ panicker \in Tasks \cup {Nobody}
  /\ \A t \in Tasks : DOMAIN task[t] = Fields
  /\ \A t \in Tasks : task[t].at \in Stores => task[t].read \in Int

(* A newline begins with the column it goes to.                            *)
NewlineStores ==
  \A t \in Tasks : task[t].at = "store_x" /\ Char(t) = "\n" => task[t].read = 0

(* A panic is still to clear the screen.                                   *)
Unwiped ==
  /\ panicker \in Tasks
  /\ \/ task[panicker].at = "wipe"
     \/ task[panicker].at = "rest" /\ script[panicker] # <<>> /\ Head(script[panicker]).fmt = <<>>

Mover(t) == panicker \in {Nobody, t}

(* A cursor beyond the right edge or the bottom is still to be tested, by  *)
(* a task that gets to it.                                                 *)
CursorIsTested ==
  ~Unwiped =>
    /\ cursor_x >= VGA_WIDTH => \E t \in Tasks : Mover(t) /\ task[t].at = "wrap"
    /\ cursor_y >= VGA_HEIGHT => \E t \in Tasks : Mover(t) /\ task[t].at \in BeforeScroll

Good == TypeOK /\ NewlineStores /\ CursorIsTested

OnScreen == cursor_x < VGA_WIDTH /\ cursor_y < VGA_HEIGHT

IInv ==
  /\ halted = "no" => Good
  /\ halted = "panic" => OnScreen

-----------------------------------------------------------------------------
(* How a task moves                                                        *)

(* Task t goes to a place, with a number in its register, and no other     *)
(* task does anything.                                                     *)
Moves(t, place, read) ==
  /\ DOMAIN task' = Tasks
  /\ \A u \in Tasks : DOMAIN task'[u] = Fields
  /\ task'[t].at = place /\ task'[t].read = read
  /\ \A u \in Tasks \ {t} : task'[u] = task[u]

SameChar(t) == task'[t].text = task[t].text /\ task'[t].i = task[t].i

LEMMA GoMoves ==
  ASSUME TypeOK, NEW t \in Tasks, NEW place, Go(t, place)
  PROVE  Moves(t, place, task[t].read) /\ SameChar(t)
BY DEF TypeOK, Go, Moves, SameChar, Fields

LEMMA GoWithMoves ==
  ASSUME TypeOK, NEW t \in Tasks, NEW place, NEW read, GoWith(t, place, read)
  PROVE  Moves(t, place, read) /\ SameChar(t)
BY DEF TypeOK, GoWith, Moves, SameChar, Fields

LEMMA AdvanceMoves ==
  ASSUME TypeOK, NEW t \in Tasks, NEW place, NEW read, Advance(t, place, read)
  PROVE  Moves(t, place, read)
BY DEF TypeOK, Advance, Moves, Fields

(* What a step must show of the task that moves.                           *)
Harmless(t, place, read) ==
  /\ cursor_x' \in Int /\ cursor_y' \in Int
  /\ place \in Stores => read \in Int
  /\ place = "store_x" => SameChar(t) /\ (Char(t) = "\n" => read = 0)
  /\ cursor_x' >= VGA_WIDTH =>
       \/ place = "wrap" \/ Unwiped'
       \/ (cursor_x' = cursor_x /\ task[t].at # "wrap" /\ ~Unwiped)
  /\ cursor_y' >= VGA_HEIGHT =>
       \/ place \in BeforeScroll \/ Unwiped'
       \/ (cursor_y' = cursor_y /\ task[t].at \notin BeforeScroll /\ ~Unwiped)

LEMMA MovesPreserves ==
  ASSUME Good, NEW t \in Tasks, NEW place, NEW read,
         Runs(t), panicker' = panicker, DOMAIN script' = Tasks,
         Moves(t, place, read), Harmless(t, place, read)
  PROVE  Good'
<1> USE DEF Good, Harmless
<1>1. TypeOK'
  BY DEF TypeOK, Moves
<1>2. NewlineStores'
  BY DEF NewlineStores, Moves, SameChar, Char
<1>3. ASSUME ~Unwiped', cursor_x' >= VGA_WIDTH
      PROVE  \E u \in Tasks : Mover(u)' /\ task'[u].at = "wrap"
  <2>1. CASE place = "wrap"
    BY <2>1 DEF Moves, Mover, Runs
  <2>2. CASE place # "wrap"
    <3>1. cursor_x' = cursor_x /\ task[t].at # "wrap" /\ ~Unwiped
      BY <1>3, <2>2
    <3>2. PICK u \in Tasks : Mover(u) /\ task[u].at = "wrap"
      BY <1>3, <3>1 DEF CursorIsTested
    <3> QED
      BY <3>1, <3>2 DEF Moves, Mover
  <2> QED
    BY <2>1, <2>2
<1>4. ASSUME ~Unwiped', cursor_y' >= VGA_HEIGHT
      PROVE  \E u \in Tasks : Mover(u)' /\ task'[u].at \in BeforeScroll
  <2>1. CASE place \in BeforeScroll
    BY <2>1 DEF Moves, Mover, Runs
  <2>2. CASE place \notin BeforeScroll
    <3>1. cursor_y' = cursor_y /\ task[t].at \notin BeforeScroll /\ ~Unwiped
      BY <1>4, <2>2
    <3>2. PICK u \in Tasks : Mover(u) /\ task[u].at \in BeforeScroll
      BY <1>4, <3>1 DEF CursorIsTested
    <3> QED
      BY <3>1, <3>2 DEF Moves, Mover
  <2> QED
    BY <2>1, <2>2
<1> QED
  BY <1>1, <1>2, <1>3, <1>4 DEF CursorIsTested

-----------------------------------------------------------------------------
(* The steps                                                               *)

LEMMA StepGood ==
  ASSUME Good, halted = "no", NEW t \in Tasks,
         \/ kprint(t) \/ put_char(t) \/ store_x(t) \/ store_y(t) \/ wrap(t) \/ wrap_y(t)
         \/ scroll(t) \/ bottom(t) \/ update_cursor(t) \/ clear(t) \/ wipe(t)
  PROVE  Good'
<1>0. /\ cursor_x \in Int /\ cursor_y \in Int
      /\ task[t].at \in Stores => task[t].read \in Int
      /\ VGA_WIDTH \in Nat \ {0} /\ VGA_HEIGHT \in Nat \ {0}
      /\ Byte \in Nat \ {0} /\ TabStop \in Nat \ {0}
  BY ConsoleAssumption DEF TypeOK, Good
<1>a. Runs(t) /\ panicker' = panicker
  BY DEF kprint, put_char, store_x, store_y, wrap, wrap_y, scroll, bottom,
         update_cursor, clear, wipe, At
<1>b. DOMAIN script' = Tasks
  BY DEF kprint, put_char, store_x, store_y, wrap, wrap_y, scroll, bottom,
         update_cursor, clear, wipe, Good, TypeOK
<1>c. task[t].at \notin {"rest", "wipe"} => ~Unwiped
  BY <1>a, ConsoleAssumption DEF Runs, Unwiped
<1>1. CASE kprint(t)
  <2>1. UNCHANGED <<cursor_x, cursor_y>> /\ task[t].at = "rest" /\ ~Unwiped
    BY <1>1, <1>a, ConsoleAssumption DEF kprint, At, screenVars, Runs, Unwiped
  <2>2. Moves(t, "char", 0)
    BY <1>1 DEF kprint, Good, TypeOK, Moves, Fields
  <2>3. Harmless(t, "char", 0)
    BY <1>0, <1>c, <2>1, <2>2 DEF Harmless, BeforeScroll, Stores
  <2> QED
    BY <2>2, <2>3, <1>a, <1>b, MovesPreserves
<1>2. CASE put_char(t)
  <2> DEFINE c == Char(t)
  <2>1. UNCHANGED <<cursor_x, cursor_y>> /\ task[t].at = "char"
    BY <1>2 DEF put_char, At
  <2>2. CASE c = "BS" /\ cursor_x = 0 /\ Go(t, "wrap")
    <3>1. Moves(t, "wrap", task[t].read)
      BY <2>2, GoMoves DEF Good
    <3>2. Harmless(t, "wrap", task[t].read)
      BY <1>0, <1>c, <2>1, <3>1 DEF Harmless, BeforeScroll, Stores
    <3> QED
      BY <3>1, <3>2, <1>a, <1>b, MovesPreserves
  <2>3. CASE \E read \in Int : GoWith(t, "store_x", read) /\ (c = "\n" => read = 0)
    <3>1. PICK read \in Int : GoWith(t, "store_x", read) /\ (c = "\n" => read = 0)
      BY <2>3
    <3>2. Moves(t, "store_x", read) /\ SameChar(t)
      BY <3>1, GoWithMoves DEF Good
    <3>3. Harmless(t, "store_x", read)
      BY <1>0, <1>c, <2>1, <3>1, <3>2 DEF Harmless, BeforeScroll, Stores
    <3> QED
      BY <3>2, <3>3, <1>a, <1>b, MovesPreserves
  <2>4. cursor_x + TabStop - (cursor_x % TabStop) \in Int
    BY <1>0
  <2>5. \/ c = "BS" /\ cursor_x = 0 /\ Go(t, "wrap")
        \/ \E read \in Int : GoWith(t, "store_x", read) /\ (c = "\n" => read = 0)
    <3>1. CASE c = "BS" /\ cursor_x = 0
      BY <1>2, <3>1 DEF put_char
    <3>2. CASE c = "BS" /\ cursor_x > 0
      BY <1>0, <1>2, <3>2 DEF put_char
    <3>3. CASE c = "\t"
      BY <1>0, <1>2, <2>4, <3>3 DEF put_char
    <3>4. CASE c \in {"\r", "\n"}
      BY <1>0, <1>2, <3>4 DEF put_char
    <3>5. CASE c \notin {"\t", "\r", "\n"} /\ ~(c = "BS" /\ cursor_x = 0) /\ ~(c = "BS" /\ cursor_x > 0)
      BY <1>0, <1>2, <3>5 DEF put_char
    <3> QED
      BY <3>1, <3>2, <3>3, <3>4, <3>5
  <2> QED
    BY <2>2, <2>3, <2>5
<1>3. CASE store_x(t)
  <2>0. cursor_x' = task[t].read /\ UNCHANGED cursor_y /\ task[t].at = "store_x"
    BY <1>3 DEF store_x, At
  <2>1. /\ cursor_x' = task[t].read /\ UNCHANGED cursor_y /\ task[t].at = "store_x"
        /\ task[t].read \in Int /\ (Char(t) = "\n" => task[t].read = 0)
    BY <1>0, <2>0 DEF Good, NewlineStores, Stores
  <2>2. CASE Char(t) = "\n"
    <3>1. Moves(t, "store_y", cursor_y)
      BY <1>3, <2>2, GoWithMoves DEF store_x, Good
    <3>2. Harmless(t, "store_y", cursor_y)
      BY <1>0, <1>c, <2>1, <2>2, <3>1 DEF Harmless, BeforeScroll, Stores
    <3> QED
      BY <3>1, <3>2, <1>a, <1>b, MovesPreserves
  <2>3. CASE Char(t) # "\n"
    <3>1. Moves(t, "wrap", task[t].read)
      BY <1>3, <2>3, GoMoves DEF store_x, Good
    <3>2. Harmless(t, "wrap", task[t].read)
      BY <1>0, <1>c, <2>1, <3>1 DEF Harmless, BeforeScroll, Stores
    <3> QED
      BY <3>1, <3>2, <1>a, <1>b, MovesPreserves
  <2> QED
    BY <2>2, <2>3
<1>4. CASE store_y(t)
  <2>0. cursor_y' = (task[t].read + 1) % Byte /\ UNCHANGED cursor_x /\ task[t].at = "store_y"
    BY <1>4 DEF store_y, At
  <2>1. /\ cursor_y' = (task[t].read + 1) % Byte /\ UNCHANGED cursor_x
        /\ task[t].at = "store_y" /\ cursor_y' \in Int
    BY <1>0, <2>0 DEF Stores
  <2>2. Moves(t, "wrap", task[t].read)
    BY <1>4, GoMoves DEF store_y, Good
  <2>3. Harmless(t, "wrap", task[t].read)
    BY <1>0, <1>c, <2>1, <2>2 DEF Harmless, BeforeScroll, Stores
  <2> QED
    BY <2>2, <2>3, <1>a, <1>b, MovesPreserves
<1>5. CASE wrap(t)
  <2>1. UNCHANGED cursor_y /\ task[t].at = "wrap"
    BY <1>5 DEF wrap, At
  <2>2. CASE cursor_x >= VGA_WIDTH
    <3>1. cursor_x' = 0 /\ Moves(t, "wrap_y", cursor_y)
      BY <1>5, <2>2, AdvanceMoves DEF wrap, Good
    <3>2. Harmless(t, "wrap_y", cursor_y)
      BY <1>0, <1>c, <2>1, <3>1 DEF Harmless, BeforeScroll, Stores
    <3> QED
      BY <3>1, <3>2, <1>a, <1>b, MovesPreserves
  <2>3. CASE ~(cursor_x >= VGA_WIDTH)
    <3>1. cursor_x' = cursor_x /\ Moves(t, "char", 0)
      BY <1>5, <2>3, AdvanceMoves DEF wrap, Good
    <3>2. Harmless(t, "char", 0)
      BY <1>0, <1>c, <2>1, <2>3, <3>1 DEF Harmless, BeforeScroll, Stores
    <3> QED
      BY <3>1, <3>2, <1>a, <1>b, MovesPreserves
  <2> QED
    BY <2>2, <2>3
<1>6. CASE wrap_y(t)
  <2>0. cursor_y' = (task[t].read + 1) % Byte /\ UNCHANGED cursor_x /\ task[t].at = "wrap_y"
    BY <1>6 DEF wrap_y, At
  <2>1. /\ cursor_y' = (task[t].read + 1) % Byte /\ UNCHANGED cursor_x
        /\ task[t].at = "wrap_y" /\ cursor_y' \in Int
    BY <1>0, <2>0 DEF Stores
  <2>2. Moves(t, "char", task[t].read)
    BY <1>6, GoMoves DEF wrap_y, Good
  <2>3. Harmless(t, "char", task[t].read)
    BY <1>0, <1>c, <2>1, <2>2 DEF Harmless, BeforeScroll, Stores
  <2> QED
    BY <2>2, <2>3, <1>a, <1>b, MovesPreserves
<1>7. CASE scroll(t)
  <2>1. UNCHANGED <<cursor_x, cursor_y>> /\ task[t].at = "char"
    BY <1>7 DEF scroll, At
  <2>2. CASE cursor_y >= VGA_HEIGHT
    <3>1. Moves(t, "bottom", task[t].read)
      BY <1>7, <2>2, GoMoves DEF scroll, Good
    <3>2. Harmless(t, "bottom", task[t].read)
      BY <1>0, <1>c, <2>1, <3>1 DEF Harmless, BeforeScroll, Stores
    <3> QED
      BY <3>1, <3>2, <1>a, <1>b, MovesPreserves
  <2>3. CASE ~(cursor_y >= VGA_HEIGHT)
    <3>1. Moves(t, "cursor", task[t].read)
      BY <1>7, <2>3, GoMoves DEF scroll, Good
    <3>2. Harmless(t, "cursor", task[t].read)
      BY <1>0, <1>c, <2>1, <2>3, <3>1 DEF Harmless, BeforeScroll, Stores
    <3> QED
      BY <3>1, <3>2, <1>a, <1>b, MovesPreserves
  <2> QED
    BY <2>2, <2>3
<1>8. CASE bottom(t)
  <2>1. cursor_y' = VGA_HEIGHT - 1 /\ UNCHANGED cursor_x /\ task[t].at = "bottom"
    BY <1>8 DEF bottom, At
  <2>2. Moves(t, "cursor", task[t].read)
    BY <1>8, GoMoves DEF bottom, Good
  <2>3. Harmless(t, "cursor", task[t].read)
    BY <1>0, <1>c, <2>1, <2>2 DEF Harmless, BeforeScroll, Stores
  <2> QED
    BY <2>2, <2>3, <1>a, <1>b, MovesPreserves
<1>9. CASE update_cursor(t)
  <2>1. /\ UNCHANGED <<cursor_x, cursor_y>>
        /\ task[t].at \in {"cursor", "high", "select_low", "low"}
    BY <1>9 DEF update_cursor, At, screenVars
  <2>2. \E place \in {"high", "select_low", "low", "rest"} :
          Go(t, place) \/ GoWith(t, place, Position)
    BY <1>9 DEF update_cursor
  <2>3. PICK place \in {"high", "select_low", "low", "rest"}, read \in {task[t].read, Position} :
          Moves(t, place, read)
    BY <2>2, GoMoves, GoWithMoves DEF Good
  <2>4. Harmless(t, place, read)
    BY <1>0, <1>c, <2>1, <2>3 DEF Harmless, BeforeScroll, Stores
  <2> QED
    BY <2>3, <2>4, <1>a, <1>b, MovesPreserves
<1>10. CASE clear(t)
  <2>1. UNCHANGED <<cursor_x, cursor_y>> /\ task[t].at = "rest"
    BY <1>10 DEF clear, At, screenVars
  <2>2. Moves(t, "wipe", task[t].read)
    BY <1>10, GoMoves DEF clear, Good
  <2>3. ~Unwiped \/ Unwiped'
    BY <1>a, <2>2, ConsoleAssumption DEF Runs, Unwiped, Moves
  <2>4. Harmless(t, "wipe", task[t].read)
    BY <1>0, <2>1, <2>2, <2>3 DEF Harmless, BeforeScroll, Stores
  <2> QED
    BY <2>2, <2>4, <1>a, <1>b, MovesPreserves
<1>11. CASE wipe(t)
  <2>1. cursor_x' = 0 /\ cursor_y' = 0 /\ task[t].at = "wipe"
    BY <1>11 DEF wipe, At
  <2>2. Moves(t, "cursor", task[t].read)
    BY <1>11, GoMoves DEF wipe, Good
  <2>3. Harmless(t, "cursor", task[t].read)
    BY <1>0, <1>c, <2>1, <2>2 DEF Harmless, BeforeScroll, Stores
  <2> QED
    BY <2>2, <2>3, <1>a, <1>b, MovesPreserves
<1> QED
  BY <1>1, <1>2, <1>3, <1>4, <1>5, <1>6, <1>7, <1>8, <1>9, <1>10, <1>11

-----------------------------------------------------------------------------
(* The theorems                                                            *)

LEMMA InitGood == Init => IInv
<1> SUFFICES ASSUME Init PROVE Good
  BY DEF IInv, Init
<1>1. TypeOK
  BY ConsoleAssumption DEF Init, TypeOK, Fields, Stores
<1>2. NewlineStores
  BY DEF Init, NewlineStores
<1>3. CursorIsTested
  BY ConsoleAssumption DEF Init, CursorIsTested
<1> QED
  BY <1>1, <1>2, <1>3 DEF Good

(* Without a task in print_color that gets to go on, the cursor is on the  *)
(* screen.                                                                 *)
LEMMA AtRest ==
  ASSUME Good, ~Unwiped, \A t \in Tasks : Mover(t) => task[t].at = "rest"
  PROVE  OnScreen
<1>1. cursor_x \in Int /\ cursor_y \in Int /\ VGA_WIDTH \in Nat /\ VGA_HEIGHT \in Nat
  BY ConsoleAssumption DEF Good, TypeOK
<1>2. ~(cursor_x >= VGA_WIDTH)
  BY DEF Good, CursorIsTested
<1>3. ~(cursor_y >= VGA_HEIGHT)
  BY DEF Good, CursorIsTested, BeforeScroll
<1> QED
  BY <1>1, <1>2, <1>3 DEF OnScreen

LEMMA PanicGood ==
  ASSUME Good, NEW t \in Tasks, panic(t)
  PROVE  Good'
<1>1. Moves(t, "rest", task[t].read)
  BY GoMoves DEF panic, Good
<1>2. UNCHANGED <<cursor_x, cursor_y>> /\ panicker' = t
  BY DEF panic, screenVars
<1>3. DOMAIN script' = Tasks /\ script'[t] = <<Clear, PanicMessage, PanicPlace>>
  BY DEF panic, Good, TypeOK
<1>4. TypeOK'
  BY <1>1, <1>2, <1>3 DEF Good, TypeOK, Moves, Stores
<1>5. NewlineStores'
  BY <1>1 DEF Good, NewlineStores, Moves, Char
<1>6. Unwiped'
  <2>1. script'[t] # <<>> /\ Head(script'[t]).fmt = <<>>
    BY <1>3 DEF Clear
  <2> QED
    BY <1>1, <1>2, <2>1 DEF Unwiped, Moves
<1> QED
  BY <1>4, <1>5, <1>6 DEF Good, CursorIsTested

LEMMA StepKeepsIInv == IInv /\ [Next]_vars => IInv'
<1> SUFFICES ASSUME IInv, [Next]_vars
             PROVE  IInv'
  OBVIOUS
<1>1. ASSUME NEW t \in Tasks, Step(t)
      PROVE  IInv'
  <2>1. halted = "no" /\ Good
    BY <1>1 DEF Step, kprint, put_char, store_x, store_y, wrap, wrap_y, scroll, bottom,
                update_cursor, clear, wipe, panic, loop, At, Runs, IInv
  <2>2. CASE panic(t)
    <3>1. halted' = "no"
      BY <2>1, <2>2 DEF panic
    <3> QED
      BY <2>1, <2>2, <3>1, PanicGood DEF IInv
  <2>3. CASE loop(t)
    <3>1. ~Unwiped /\ \A u \in Tasks : Mover(u) => task[u].at = "rest"
      BY <2>3, ConsoleAssumption DEF loop, At, Unwiped, Mover
    <3>2. OnScreen
      BY <2>1, <3>1, AtRest
    <3>3. halted' = "panic" /\ OnScreen'
      BY <2>3, <3>2 DEF loop, screenVars, OnScreen
    <3> QED
      BY <3>3 DEF IInv
  <2>4. CASE ~panic(t) /\ ~loop(t)
    <3>1. \/ kprint(t) \/ put_char(t) \/ store_x(t) \/ store_y(t) \/ wrap(t) \/ wrap_y(t)
          \/ scroll(t) \/ bottom(t) \/ update_cursor(t) \/ clear(t) \/ wipe(t)
      BY <1>1, <2>4 DEF Step
    <3>2. Good'
      BY <2>1, <3>1, StepGood
    <3>3. halted' # "panic"
      BY <2>1, <3>1 DEF kprint, put_char, store_x, store_y, wrap, wrap_y, scroll, bottom,
                        update_cursor, clear, wipe
    <3> QED
      BY <3>2, <3>3 DEF IInv
  <2> QED
    BY <2>2, <2>3, <2>4
<1>2. CASE UNCHANGED vars
  <2>1. UNCHANGED <<cursor_x, cursor_y, task, halted, script, panicker>>
    BY <1>2 DEF vars, screenVars
  <2> QED
    BY <2>1 DEF IInv, Good, TypeOK, NewlineStores, CursorIsTested, Char, Unwiped, Mover, OnScreen
<1> QED
  BY <1>1, <1>2 DEF Next

(* The inductive invariant: what the tasks hold in their registers, and    *)
(* that a cursor beyond an edge is still to be tested by one of them that  *)
(* gets to do so, unless a panic is still to clear the screen.             *)
THEOREM ConsoleInvariant == Spec => []IInv
<1>1. Init => IInv
  BY InitGood
<1>2. IInv /\ [Next]_vars => IInv'
  BY StepKeepsIInv
<1> QED
  BY <1>1, <1>2, PTL DEF Spec

(* However the prints of any number of tasks overlap, once all of them are *)
(* over the cursor is on the screen: every task tests the column behind    *)
(* each character and the line behind its text, whoever moved the cursor.  *)
(* And it is there when a panic has ended, which stopped tasks anywhere    *)
(* between moving the cursor and testing it.                               *)
THEOREM CursorComesBack == Spec => []CursorOnScreen
<1>1. IInv => CursorOnScreen
  <2> SUFFICES ASSUME IInv, Idle \/ halted = "panic" PROVE OnScreen
    BY DEF CursorOnScreen, OnScreen
  <2>1. CASE Idle
    <3>1. Good /\ ~Unwiped /\ \A t \in Tasks : Mover(t) => task[t].at = "rest"
      BY <2>1, ConsoleAssumption DEF Idle, IInv, Unwiped
    <3> QED
      BY <3>1, AtRest
  <2> QED
    BY <2>1 DEF IInv
<1> QED
  BY <1>1, ConsoleInvariant, PTL
=============================================================================
