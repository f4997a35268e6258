--------------------------- MODULE MCIntrusiveList ---------------------------
(* The lists for TLC.                                                      *)
EXTENDS IntrusiveList
=============================================================================
