----------------------------- MODULE MCKeyboard -----------------------------
(* The keyboard driver for TLC: a queue of two slots, both shift keys.     *)
EXTENDS Keyboard
=============================================================================
