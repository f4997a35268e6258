---------------------------- MODULE TaskLifecycle ----------------------------
(***************************************************************************)
(* The states of a task that Task.hpp names (TASK_RUNNING, TASK_READY,     *)
(* TASK_WAITING) and the steps between them, with no queues, slices or     *)
(* flags.  The processor is handed over in one step: it never idles, and   *)
(* only a ready task receives it.  A task that waits leaves the processor; *)
(* a task that is woken becomes ready, and does not run at once.           *)
(***************************************************************************)
CONSTANTS Tasks, InitTask

VARIABLE state

(* The task that runs, or none while kmain still does.                     *)
Running == {t \in Tasks : state[t] = "running"}

Init == state = [t \in Tasks |-> IF t = InitTask THEN "ready" ELSE "none"]

(* The processor goes to `to`; the task that had it becomes `left`.        *)
HandOver(to, left) ==
  /\ state[to] = "ready"
  /\ state' = [t \in Tasks |-> IF t = to THEN "running"
                               ELSE IF t \in Running THEN left ELSE state[t]]

Preempt == \E to \in Tasks : HandOver(to, "ready")

Wait == Running # {} /\ \E to \in Tasks : HandOver(to, "waiting")

Wake(t) ==
  /\ Running # {}
  /\ state[t] = "waiting"
  /\ state' = [state EXCEPT ![t] = "ready"]

Create(t) ==
  /\ Running # {}
  /\ state[t] = "none"
  /\ state' = [state EXCEPT ![t] = "ready"]

Next == Preempt \/ Wait \/ \E t \in Tasks : Wake(t) \/ Create(t)

Spec == Init /\ [][Next]_state
=============================================================================
