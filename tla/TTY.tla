--------------------------------- MODULE TTY ---------------------------------
(***************************************************************************)
(* A text terminal: characters go into a ring buffer of several screens,   *)
(* and a window of one screen over it is copied to the video memory.       *)
(*                                                                         *)
(* out_buf_pos_ and window_top_pos_ are linear positions: they grow and    *)
(* never wrap, and position p lives in cell p % out_buf_size.  A written   *)
(* cell remembers the linear position it was written for, which the code   *)
(* does not: that is how old text in the ring is told from the text that   *)
(* belongs there.                                                          *)
(***************************************************************************)
EXTENDS Naturals, SequencesExt

CONSTANTS rows_, cols_,  (* the screen: 25 and 80 in the code              *)
          Screens,       (* the screens in the buffer: 10                  *)
          TabStop,       (* 8                                              *)
          Blank,         (* VGA_BLANK_CHARACTER                              *)
          Strings,       (* the strings given to write                     *)
          Lines,         (* how many lines a scroll asks for               *)
          MaxPos         (* bound on out_buf_pos_                          *)

(* A buffer of one screen has no room for the line that paging clears.     *)
ASSUME TTYAssumption ==
  /\ rows_ \in Nat \ {0, 1} /\ cols_ \in Nat \ {0} /\ Screens \in Nat \ {0, 1}
  /\ TabStop \in Nat \ {0} /\ MaxPos \in Nat /\ Lines \subseteq Nat \ {0}

(* IdleProcess and print_char, all that write, give it one character: of   *)
(* two line feeds only the second would clear its line of an old lap.      *)
ASSUME OneByOne == \A str \in Strings : str = <<str[1]>>

VARIABLES
  buffer_, vga_memory_, out_buf_pos_, window_top_pos_,
  input_mode_, cursor_enabled,
  cursor_pos  (* the CRT controller's cursor registers                     *)

vars == <<buffer_, vga_memory_, out_buf_pos_, window_top_pos_, input_mode_,
          cursor_enabled, cursor_pos>>

screen_size == rows_ * cols_
out_buf_size == screen_size * Screens

Cell(p, c) == [pos |-> p, char |-> c]

line_start(p) == p - (p % cols_)

(* The constructor, with clear().                                          *)
Init ==
  /\ buffer_ = [i \in 0..out_buf_size - 1 |-> Blank]
  /\ vga_memory_ = [i \in 0..screen_size - 1 |-> Blank]
  /\ out_buf_pos_ = 0
  /\ window_top_pos_ = 0
  /\ input_mode_ = TRUE
  /\ cursor_enabled = TRUE
  /\ cursor_pos = 0
-----------------------------------------------------------------------------
(* Output to the screen, when the new window, buffer and position are set  *)

(* Mutant: the last character is not copied.                               *)
print_short(offset, length) ==
  vga_memory_' = [i \in DOMAIN vga_memory_ |->
    IF i + window_top_pos_' \in offset..offset + length - 2
    THEN buffer_'[(i + window_top_pos_') % out_buf_size] ELSE vga_memory_[i]]

(* print(window_top_pos_, offset, length), without the cursor.             *)
print(offset, length) ==
  vga_memory_' = [i \in DOMAIN vga_memory_ |->
    IF i + window_top_pos_' \in offset..offset + length - 1
    THEN buffer_'[(i + window_top_pos_') % out_buf_size] ELSE vga_memory_[i]]

(* move_cursor(), which print calls in input mode.                         *)
move_cursor ==
  cursor_pos' = IF out_buf_pos_' < window_top_pos_' + screen_size
                THEN out_buf_pos_' - window_top_pos_' ELSE cursor_pos

print_moves_cursor == IF input_mode_ THEN move_cursor ELSE UNCHANGED cursor_pos
-----------------------------------------------------------------------------
(* write: one character after the other changes the buffer, the position   *)
(* and the bounds of what must be printed                                  *)

(* set_and_inc_buffer_pos, n times.                                        *)
put(w, c, n) ==
  [w EXCEPT !.buffer = [i \in DOMAIN @ |->
              IF \E j \in 0..n - 1 : (w.pos + j) % out_buf_size = i
              THEN LET j == CHOOSE k \in 0..n - 1 : (w.pos + k) % out_buf_size = i
                   IN  Cell(w.pos + j, c)
              ELSE @[i]],
            !.pos = @ + n,
            !.max = Max({@, w.pos + n})]

backspace(w) ==
  IF w.pos % cols_ = 0 THEN w ELSE [w EXCEPT !.min = Min({w.pos, @}), !.pos = @ - 1]

tab(w) ==
  LET column == w.pos % cols_
      new_column == Min({TabStop * ((column + TabStop) \div TabStop), cols_})
  IN  put(w, "zero", new_column - column)

carriage_return(w) == [w EXCEPT !.min = Min({w.pos, @}), !.pos = line_start(@)]

line_feed(w) ==
  [w EXCEPT !.pos = line_start(@) + cols_, !.max = Max({@, line_start(w.pos) + cols_})]

(* "NUL" is what a key without a character writes.                         *)
write_char(w, c) ==
  CASE c = "BS" -> backspace(w)
    [] c = "TAB" -> tab(w)
    [] c = "CR" -> carriage_return(w)
    [] c = "LF" -> line_feed(w)
    [] c = "NUL" -> w
    [] OTHER -> put(w, c, 1)

write_chars(str) ==
  FoldLeft(write_char,
           [buffer |-> buffer_, pos |-> out_buf_pos_,
            min |-> out_buf_pos_, max |-> out_buf_pos_],
           str)

(* Mutant: the rest of the new line keeps what the ring holds there.       *)
rest_kept(buffer, from, to) == buffer

clear_rest(buffer, from, to) ==
  [i \in DOMAIN buffer |->
     IF \E t \in from..to : t % out_buf_size = i THEN Blank ELSE buffer[i]]

write(str) ==
  LET w == write_chars(str)
      top == line_start(w.max) + cols_ - screen_size
  IN
  /\ out_buf_pos_' = w.pos
  /\ \/ /\ w.max < window_top_pos_ + screen_size
        /\ buffer_' = w.buffer
        /\ UNCHANGED <<window_top_pos_, cursor_enabled>>
        /\ print(w.min, w.max - w.min)
     \/ /\ w.max >= window_top_pos_ + screen_size
        /\ window_top_pos_' = top
        /\ buffer_' = clear_rest(w.buffer, w.max, top + screen_size - 1)
        /\ cursor_enabled' = (cursor_enabled \/ input_mode_)
        /\ print(top, screen_size)
  /\ print_moves_cursor
  /\ UNCHANGED input_mode_
-----------------------------------------------------------------------------
(* Scrolling                                                               *)

(* Mutant: the limit may lie inside a line.                                *)
top_limit_unaligned ==
  IF out_buf_pos_ < out_buf_size THEN 0 ELSE out_buf_pos_ + 1 - out_buf_size

(* The first line that is still in the ring.                               *)
top_limit ==
  IF out_buf_pos_ < out_buf_size THEN 0
  ELSE LET first == out_buf_pos_ + 1 - out_buf_size
       IN  IF first % cols_ = 0 THEN first ELSE (first \div cols_ + 1) * cols_

scroll_up(lines) ==
  /\ window_top_pos_' =
       IF window_top_pos_ > cols_ * lines
       THEN Max({window_top_pos_ - cols_ * lines, top_limit}) ELSE top_limit
  /\ UNCHANGED <<buffer_, out_buf_pos_, input_mode_>>
  /\ IF window_top_pos_' = window_top_pos_
     THEN UNCHANGED <<vga_memory_, cursor_enabled, cursor_pos>>
     ELSE /\ print(window_top_pos_', screen_size)
          /\ print_moves_cursor
          /\ cursor_enabled' =
               (cursor_enabled /\ window_top_pos_' + screen_size >= out_buf_pos_)

(* The last line the window may start with: that of the position while     *)
(* the ring has an empty screen below it, else the one that shows it last. *)
bottom_limit ==
  IF out_buf_pos_ < out_buf_size - screen_size
  THEN line_start(out_buf_pos_)
  ELSE line_start(out_buf_pos_) - (rows_ - 1) * cols_

(* Mutant: the cursor stays off when its position scrolls into view.       *)
cursor_after_scroll_kept == cursor_enabled

cursor_after_scroll_down ==
  IF window_top_pos_' + screen_size >= out_buf_pos_ THEN input_mode_ ELSE cursor_enabled

scroll_down(lines) ==
  /\ window_top_pos_' = Min({window_top_pos_ + cols_ * lines, bottom_limit})
  /\ UNCHANGED <<buffer_, out_buf_pos_, input_mode_>>
  /\ IF window_top_pos_' = window_top_pos_
     THEN UNCHANGED <<vga_memory_, cursor_enabled, cursor_pos>>
     ELSE /\ print(window_top_pos_', screen_size)
          /\ move_cursor
          /\ cursor_enabled' = cursor_after_scroll_down

set_input(enabled) ==
  /\ input_mode_' = enabled
  /\ cursor_enabled' = enabled
  /\ UNCHANGED <<buffer_, vga_memory_, out_buf_pos_, window_top_pos_, cursor_pos>>

Next ==
  \/ \E str \in Strings : out_buf_pos_ + cols_ * Len(str) <= MaxPos /\ write(str)
  \/ \E lines \in Lines : scroll_up(lines) \/ scroll_down(lines)
  \/ \E enabled \in BOOLEAN : set_input(enabled)

Spec == Init /\ [][Next]_vars
-----------------------------------------------------------------------------
(* The window starts at a line, one still in the ring, and never below the *)
(* line being written: print stays inside the video memory, and scroll_up  *)
(* may take "more than a line" for "not at the top".                       *)
WindowInHistory ==
  /\ window_top_pos_ % cols_ = 0
  /\ window_top_pos_ >= top_limit
  /\ window_top_pos_ <= line_start(out_buf_pos_)

(* The screen is the window over the buffer after every operation, also    *)
(* where write prints only what it takes to be new.                        *)
ScreenIsWindow ==
  \A i \in 0..screen_size - 1 :
    vga_memory_[i] = buffer_[(window_top_pos_ + i) % out_buf_size]

(* What the screen shows was written for the place where it is shown: text *)
(* overwritten in the ring, or left there by an earlier lap, never is.     *)
NoStaleText ==
  \A i \in 0..screen_size - 1 :
    vga_memory_[i] = Blank \/ vga_memory_[i].pos = window_top_pos_ + i

Visible == out_buf_pos_ < window_top_pos_ + screen_size

Moved == out_buf_pos_' # out_buf_pos_ \/ window_top_pos_' # window_top_pos_

(* Whenever the position or the window moves in input mode, a cursor in    *)
(* view is on and where the next character goes, and one that scroll_up    *)
(* moves out of view by more than its own cell is off.                     *)
CursorFollowsText ==
  [][Moved /\ input_mode_' =>
       /\ Visible' => cursor_enabled' /\ cursor_pos' = out_buf_pos_' - window_top_pos_'
       /\ window_top_pos_' < window_top_pos_
            /\ out_buf_pos_' > window_top_pos_' + screen_size => ~cursor_enabled']_vars
=============================================================================
