-------------------------------- MODULE Queues --------------------------------
(* The kernel's lists of tasks and of chunks as sequences.                 *)
EXTENDS Naturals, Sequences

Elems(q) == {q[i] : i \in 1..Len(q)}

(* A member leaves, from whichever end or from between.                    *)
remove(q, t) ==
  IF Head(q) = t
  THEN Tail(q)
  ELSE LET i == CHOOSE j \in 1..Len(q) : q[j] = t
       IN  SubSeq(q, 1, i - 1) \o SubSeq(q, i + 1, Len(q))
=============================================================================
