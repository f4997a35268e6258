-------------------------------- MODULE MCTTY --------------------------------
(* The terminal for TLC.                                                   *)
EXTENDS TTY

(* IdleProcess writes one character at a time.                             *)
Keystrokes == {<<c>> : c \in {"a", "BS", "TAB", "CR", "LF", "NUL"}}
=============================================================================
