------------------------------- MODULE MCMutex -------------------------------
(* The mutex system for TLC: four tasks, slices of two ticks.             *)
EXTENDS Mutex
=============================================================================
