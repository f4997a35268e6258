-------------------------------- MODULE MCBoot --------------------------------
(* Interrupts, for TLC.                                                    *)
EXTENDS Interrupts

TwiceTimerAndKeys == [l \in Lines |-> IF l < 8 THEN 2 ELSE 1]
=============================================================================
