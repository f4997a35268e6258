---------------------------- MODULE AbstractLock ----------------------------
(***************************************************************************)
(* What a mutex promises: one holder at a time, and only a free lock is    *)
(* taken.  Mutex.tla implements it.                                        *)
(***************************************************************************)
CONSTANTS Tasks, NoTask

VARIABLE holder

Init == holder = NoTask

Acquire(t) == holder = NoTask /\ holder' = t

Release(t) == holder = t /\ holder' = NoTask

Next == \E t \in Tasks : Acquire(t) \/ Release(t)

Spec == Init /\ [][Next]_holder
=============================================================================
