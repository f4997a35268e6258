------------------------------- MODULE Console ------------------------------
(***************************************************************************)
(* The text console: tasks that print with kprint and clear the screen,    *)
(* preempted anywhere, and a panic, which ends it all.  print_color takes  *)
(* no lock (its calls of the mutex are commented out), clear takes it.     *)
(*                                                                         *)
(* A panic turns interrupts off: the task that panics takes the steps of   *)
(* clear and of two prints, and the others stay where they were stopped.   *)
(*                                                                         *)
(* A task's script is what it is going to do.  Cursor coordinates and the  *)
(* ports of the cursor's position are shared; ++ on a volatile byte is a   *)
(* read and a write.  A cell holds a character, without its colour, and    *)
(* what clears it is a blank.  "BS" is the backspace.                      *)
(***************************************************************************)
EXTENDS CString

CONSTANTS VGA_WIDTH, VGA_HEIGHT,
          TabStop,      (* 8                                              *)
          Byte,         (* 256                                            *)
          BufferSize,   (* 256: the buffer kprint formats into            *)
          Tasks,
          Scripts,      (* the scripts of all tasks to choose from        *)
          PanicMessage, (* the calls of kprintf_color by which a panic    *)
          PanicPlace,   (* prints its message, and its file and line      *)
          Nobody

ASSUME ConsoleAssumption ==
  /\ VGA_WIDTH \in Nat \ {0} /\ VGA_HEIGHT \in Nat \ {0} /\ Byte \in Nat \ {0}
  /\ TabStop \in Nat \ {0} /\ VGA_WIDTH % TabStop = 0
  /\ \A s \in Scripts : DOMAIN s = Tasks
  /\ Nobody \notin Tasks

VARIABLES
  script,        (* per task, the calls still to be made                   *)
  video_memory,  (* the characters on the screen                           *)
  cursor_x, cursor_y,
  index, position,   (* the controller's selected register, and both bytes *)
  cursor_lock,   (* the mutex's owner                                      *)
  task,          (* per task, where it is and what it prints               *)
  panicker,      (* the task in panic_detail, if one is                    *)
  halted,        (* "no", "panic" once panic_detail loops, or "overflow"   *)
                 (* once a text did not fit                                *)
  paper,         (* what a terminal without an end would show              *)
  muddled        (* has a print, of those a panic leaves, overlapped        *)
                 (* another, or has one run past the bottom?               *)

screenVars == <<video_memory, cursor_x, cursor_y>>
ports == <<index, position>>
ghosts == <<paper, muddled>>
vars == <<script, screenVars, ports, cursor_lock, task, panicker, halted, ghosts>>

Cells == 0..VGA_WIDTH * VGA_HEIGHT - 1
Blank == [cell \in Cells |-> " "]
-----------------------------------------------------------------------------
(* The terminal that the console stands for                                *)

EmptyLine == times(VGA_WIDTH, " ")
EmptyPaper == [lines |-> <<EmptyLine>>, column |-> 0]

NewLine(p) == [lines |-> Append(p.lines, EmptyLine), column |-> 0]
MoveTo(p, column) == IF column >= VGA_WIDTH THEN NewLine(p) ELSE [p EXCEPT !.column = column]

Typed(p, c) ==
  CASE c = "\n" -> NewLine(p)
    [] c = "\r" -> MoveTo(p, 0)
    [] c = "BS" -> MoveTo(p, Max({p.column - 1, 0}))
    [] c = "\t" -> MoveTo(p, p.column + TabStop - (p.column % TabStop))
    [] OTHER -> MoveTo([p EXCEPT !.lines[Len(p.lines)][p.column + 1] = c], p.column + 1)

TypedOn(p, text) == FoldLeft(Typed, p, text)

(* Its last lines, on a screen's cells.                                    *)
Shown(p) ==
  LET above == Max({Len(p.lines) - VGA_HEIGHT, 0}) IN
  [cell \in Cells |->
     LET row == above + (cell \div VGA_WIDTH) + 1
     IN  IF row <= Len(p.lines) THEN p.lines[row][(cell % VGA_WIDTH) + 1] ELSE " "]
RowOf(p) == Min({Len(p.lines), VGA_HEIGHT}) - 1
-----------------------------------------------------------------------------
Init ==
  /\ script \in Scripts
  /\ video_memory = Blank /\ cursor_x = 0 /\ cursor_y = 0
  /\ index = "high" /\ position = [high |-> 0, low |-> 0]
  /\ cursor_lock = Nobody
  /\ task = [t \in Tasks |-> [at |-> "rest", call |-> [fmt |-> <<>>, args |-> <<>>],
                              text |-> <<>>, i |-> 1, read |-> 0]]
  /\ panicker = Nobody /\ halted = "no"
  /\ paper = EmptyPaper /\ muddled = FALSE

(* A task can be given the processor: none but the one that panics, once   *)
(* interrupts are off for good.                                            *)
Runs(t) == halted = "no" /\ panicker \in {Nobody, t}

At(t, place) == Runs(t) /\ task[t].at = place
Go(t, place) == task' = [task EXCEPT ![t].at = place]
GoWith(t, place, read) == task' = [task EXCEPT ![t].at = place, ![t].read = read]
Char(t) == task[t].text[task[t].i]

(* No other task is in the midst of something and can go on with it.       *)
Alone(t) == \A u \in Tasks \ {t} : task[u].at = "rest" \/ ~Runs(u)

Idle == halted = "no" /\ panicker = Nobody /\ \A t \in Tasks : task[t].at = "rest"
-----------------------------------------------------------------------------
(* The text of every call there is.                                        *)
Calls == UNION {Range(s[t]) : s \in Scripts, t \in Tasks} \cup {PanicMessage, PanicPlace}
formatted == [call \in Calls |-> vsnprintf(call.fmt, call.args)]

(* kprint formats the text and has it printed; its buffer is not checked.  *)
kprint(t) ==
  /\ At(t, "rest") /\ script[t] # <<>> /\ Head(script[t]).fmt # <<>>
  /\ LET call == Head(script[t])
         text == formatted[call]
     IN  /\ task' = [task EXCEPT ![t] = [at |-> "char", call |-> call, text |-> text,
                                         i |-> 1, read |-> 0]]
         /\ halted' = IF Len(text) < BufferSize THEN "no" ELSE "overflow"
         /\ paper' = TypedOn(paper, text)
  /\ script' = [script EXCEPT ![t] = Tail(@)]
  /\ muddled' = (muddled \/ ~Alone(t))
  /\ UNCHANGED <<screenVars, ports, cursor_lock, panicker>>

(* print_color: the next character, if there is one.  Memory behind the    *)
(* screen is written but never shown.                                      *)
put_char(t) ==
  LET c == Char(t)
      at == cursor_y * VGA_WIDTH + cursor_x
  IN
  /\ At(t, "char") /\ task[t].i <= Len(task[t].text)
  /\ CASE c = "BS" /\ cursor_x = 0 -> Go(t, "wrap") /\ UNCHANGED <<video_memory, muddled>>
       [] c = "BS" /\ cursor_x > 0 -> GoWith(t, "store_x", cursor_x - 1) /\ UNCHANGED <<video_memory, muddled>>
       [] c = "\t" -> /\ GoWith(t, "store_x", cursor_x + TabStop - (cursor_x % TabStop))
                      /\ UNCHANGED <<video_memory, muddled>>
       [] c \in {"\r", "\n"} -> GoWith(t, "store_x", 0) /\ UNCHANGED <<video_memory, muddled>>
       [] OTHER -> /\ video_memory' = IF at \in Cells THEN [video_memory EXCEPT ![at] = c]
                                      ELSE video_memory
                   /\ muddled' = (muddled \/ at \notin Cells)
                   /\ GoWith(t, "store_x", cursor_x + 1)
  /\ UNCHANGED <<script, cursor_x, cursor_y, ports, cursor_lock, panicker, halted, paper>>

store_x(t) ==
  /\ At(t, "store_x")
  /\ cursor_x' = task[t].read
  /\ IF Char(t) = "\n" THEN GoWith(t, "store_y", cursor_y) ELSE Go(t, "wrap")
  /\ UNCHANGED <<script, video_memory, cursor_y, ports, cursor_lock, panicker, halted, ghosts>>

(* The end of a newline.                                                   *)
store_y(t) ==
  /\ At(t, "store_y")
  /\ cursor_y' = (task[t].read + 1) % Byte
  /\ Go(t, "wrap")
  /\ UNCHANGED <<script, video_memory, cursor_x, ports, cursor_lock, panicker, halted, ghosts>>

Advance(t, place, read) ==
  task' = [task EXCEPT ![t].at = place, ![t].read = read, ![t].i = @ + 1]

(* Mutant: the end of the line is one column late.                         *)
wrap_late(t) ==
  /\ At(t, "wrap")
  /\ IF cursor_x > VGA_WIDTH
     THEN cursor_x' = 0 /\ Advance(t, "wrap_y", cursor_y)
     ELSE UNCHANGED cursor_x /\ Advance(t, "char", 0)
  /\ UNCHANGED <<script, video_memory, cursor_y, ports, cursor_lock, panicker, halted, ghosts>>

wrap(t) ==
  /\ At(t, "wrap")
  /\ IF cursor_x >= VGA_WIDTH
     THEN cursor_x' = 0 /\ Advance(t, "wrap_y", cursor_y)
     ELSE UNCHANGED cursor_x /\ Advance(t, "char", 0)
  /\ UNCHANGED <<script, video_memory, cursor_y, ports, cursor_lock, panicker, halted, ghosts>>

wrap_y(t) ==
  /\ At(t, "wrap_y")
  /\ cursor_y' = (task[t].read + 1) % Byte
  /\ Go(t, "char")
  /\ UNCHANGED <<script, video_memory, cursor_x, ports, cursor_lock, panicker, halted, ghosts>>

(* Mutant: the text moves up and the last line stays as it was.            *)
scrolled_only(screen) ==
  [cell \in Cells |-> IF cell + VGA_WIDTH \in Cells THEN screen[cell + VGA_WIDTH] ELSE screen[cell]]

scrolled(screen) ==
  [cell \in Cells |-> IF cell + VGA_WIDTH \in Cells THEN screen[cell + VGA_WIDTH] ELSE " "]

(* Behind the whole string, and by one line whatever its length.           *)
scroll(t) ==
  /\ At(t, "char") /\ task[t].i > Len(task[t].text)
  /\ IF cursor_y >= VGA_HEIGHT
     THEN video_memory' = scrolled(video_memory) /\ Go(t, "bottom")
     ELSE UNCHANGED video_memory /\ Go(t, "cursor")
  /\ muddled' = (muddled \/ cursor_y > VGA_HEIGHT)
  /\ UNCHANGED <<script, cursor_x, cursor_y, ports, cursor_lock, panicker, halted, paper>>

bottom(t) ==
  /\ At(t, "bottom")
  /\ cursor_y' = VGA_HEIGHT - 1
  /\ Go(t, "cursor")
  /\ UNCHANGED <<script, video_memory, cursor_x, ports, cursor_lock, panicker, halted, ghosts>>

(* update_cursor: select a register and write it, twice.                   *)
Position == cursor_y * VGA_WIDTH + cursor_x
update_cursor(t) ==
  LET pos == task[t].read IN
  /\ \/ /\ At(t, "cursor")
        /\ index' = "high" /\ GoWith(t, "high", Position)
        /\ UNCHANGED <<position, cursor_lock>>
     \/ /\ At(t, "high")
        /\ position' = [position EXCEPT ![index] = (pos \div Byte) % Byte] /\ Go(t, "select_low")
        /\ UNCHANGED <<index, cursor_lock>>
     \/ /\ At(t, "select_low")
        /\ index' = "low" /\ Go(t, "low")
        /\ UNCHANGED <<position, cursor_lock>>
     \/ /\ At(t, "low")
        /\ position' = [position EXCEPT ![index] = pos % Byte] /\ Go(t, "rest")
        /\ cursor_lock' = IF cursor_lock = t THEN Nobody ELSE cursor_lock
        /\ UNCHANGED index
  /\ UNCHANGED <<script, screenVars, panicker, halted, ghosts>>

(* clear, an empty format in a script, waits for the lock.                 *)
Clear == [fmt |-> <<>>, args |-> <<>>]
clear(t) ==
  /\ At(t, "rest") /\ script[t] # <<>> /\ Head(script[t]).fmt = <<>>
  /\ cursor_lock = Nobody
  /\ cursor_lock' = t
  /\ script' = [script EXCEPT ![t] = Tail(@)]
  /\ Go(t, "wipe")
  /\ muddled' = ~Alone(t)
  /\ paper' = EmptyPaper
  /\ UNCHANGED <<screenVars, ports, panicker, halted>>

wipe(t) ==
  /\ At(t, "wipe")
  /\ video_memory' = Blank /\ cursor_x' = 0 /\ cursor_y' = 0
  /\ Go(t, "cursor")
  /\ UNCHANGED <<script, ports, cursor_lock, panicker, halted, ghosts>>
-----------------------------------------------------------------------------
(* Mutant: the lock stays, and the panic waits for its owner.              *)
locked_panic(t) ==
  /\ Runs(t) /\ panicker = Nobody
  /\ task[t].at # "rest" \/ script[t] # <<>>
  /\ panicker' = t
  /\ script' = [script EXCEPT ![t] = <<Clear, PanicMessage, PanicPlace>>]
  /\ Go(t, "rest")
  /\ muddled' = FALSE
  /\ UNCHANGED <<screenVars, ports, cursor_lock, halted, paper>>

(* panic_detail, called anywhere: interrupts are off from here on, and a   *)
(* new mutex is in the place of the old one.  What is left to do is clear, *)
(* the message and, as PANIC names a file and a line, where it comes from. *)
panic(t) ==
  /\ Runs(t) /\ panicker = Nobody
  /\ task[t].at # "rest" \/ script[t] # <<>>
  /\ panicker' = t
  /\ cursor_lock' = Nobody
  /\ script' = [script EXCEPT ![t] = <<Clear, PanicMessage, PanicPlace>>]
  /\ Go(t, "rest")
  /\ muddled' = FALSE
  /\ UNCHANGED <<screenVars, ports, halted, paper>>

(* The end of panic_detail.                                                *)
loop(t) ==
  /\ At(t, "rest") /\ panicker = t /\ script[t] = <<>>
  /\ halted' = "panic"
  /\ UNCHANGED <<script, screenVars, ports, cursor_lock, task, panicker, ghosts>>

Step(t) ==
  \/ kprint(t) \/ put_char(t) \/ store_x(t) \/ store_y(t) \/ wrap(t) \/ wrap_y(t)
  \/ scroll(t) \/ bottom(t) \/ update_cursor(t) \/ clear(t) \/ wipe(t)
  \/ panic(t) \/ loop(t)

Next == \E t \in Tasks : Step(t)

(* With interrupts off the processor goes on with the code it is in.       *)
Spec == Init /\ [][Next]_vars /\ \A t \in Tasks : WF_vars(panicker = t /\ Step(t))
-----------------------------------------------------------------------------
(* A printed number is read back as the number it was, by the functions    *)
(* that read numbers, and its field has the width asked for.               *)
ReadBack(text, spec, arg) ==
  LET digits == SelectSeq(text, LAMBDA c : c # " ")
      base == IF "#" \in spec.flags THEN 0 ELSE Bases[spec.letter]
  IN  /\ arg = IF Signed(spec.letter) THEN str_to_s32int(digits, base) ELSE str_to_u32int(digits, base)
      /\ Len(text) >= spec.width

Readable(spec) ==
  /\ spec.letter \in DOMAIN Bases \ {"p"} /\ ~spec.half
  /\ Signed(spec.letter) => spec.flags \cap {"+", " "} = {}
  /\ spec.letter = "X" => "#" \notin spec.flags

ReadsBack(text, spec, call) ==
  spec.at = Len(call.fmt) /\ Readable(spec) => ReadBack(text, spec, call.args[spec.arg])

NumbersReadBack ==
  \A t \in Tasks :
    LET call == task[t].call IN
    call.args # <<>> /\ call.fmt[1] = "%" =>
      ReadsBack(task[t].text, conversion(call.fmt, 1, call.args, 1), call)

(* What the screen and both cursors show is the end of a paper.            *)
Shows(p) ==
  /\ video_memory = Shown(p)
  /\ cursor_x = p.column /\ cursor_y = RowOf(p)
  /\ position.high * Byte + position.low = Position

(* When nobody prints, the screen shows the end of all that was printed    *)
(* since it was cleared, and both cursors stand behind it: unless prints   *)
(* have overlapped, or a text has run past the bottom line.                *)
ScreenShowsPaper == Idle /\ ~muddled => Shows(paper)

(* However prints overlap, when they are over the cursor is on the screen: *)
(* the next text begins where it can be seen.  A panic brings it back by   *)
(* itself, whatever it stopped the other tasks in.                         *)
CursorOnScreen ==
  Idle \/ halted = "panic" => cursor_x < VGA_WIDTH /\ cursor_y < VGA_HEIGHT

(* A panic comes to its end, with its message alone on a clear screen,     *)
(* whatever was being printed or cleared, by the task itself or another,   *)
(* and whoever held the lock: unless a text of its own does not fit the    *)
(* buffer, or the screen.                                                  *)
PanicPaper == TypedOn(TypedOn(EmptyPaper, formatted[PanicMessage]), formatted[PanicPlace])

PanicIsShown ==
  panicker # Nobody ~>
    halted = "overflow" \/ (halted = "panic" /\ (muddled \/ Shows(PanicPaper)))
=============================================================================
