------------------------------ MODULE Scheduler ------------------------------
(***************************************************************************)
(* The state of kernel::Scheduler and the operations on it.                *)
(*                                                                         *)
(* A scheduler state is a record with the fields of the C++ object and of  *)
(* the tasks it links: the run queue rq, the queue expired_q of tasks that *)
(* used up their time slices, the running task cur_, and time_slices and   *)
(* need_reschedule of every task.  panic says that the kernel died: it ran *)
(* into PANIC(), which prints and loops with interrupts off, or switched   *)
(* to a null task.  A dead scheduler does nothing more.                    *)
(*                                                                         *)
(* Every operator is one member function, from scheduler state to          *)
(* scheduler state, so that a handler that calls several of them is the    *)
(* composition of the operators.  The kernel runs on one processor and     *)
(* calls them with interrupts off, all but activate_task in a creation     *)
(* (see Mutex.tla).                                                        *)
(*                                                                         *)
(* The intrusive lists are sequences here (see IntrusiveList.tla).         *)
(***************************************************************************)
EXTENDS Queues

CONSTANTS Tasks,      (* every task that may ever be created               *)
          InitTask,   (* the "init task" of Scheduler::init                *)
          DummyTask,  (* the "dummy task" that stands for kmain            *)
          NoTask,     (* the null pointer                                  *)
          Slices      (* the ticks a task may run: 5 in the code           *)

ASSUME TasksAssumption ==
       /\ InitTask \in Tasks
       /\ DummyTask \notin Tasks
       /\ NoTask \notin Tasks \cup {DummyTask}

ASSUME SlicesAssumption == Slices \in Nat \ {0}

AllTasks == Tasks \cup {DummyTask}

INT_MAX == 268435455

SchedulerState ==
  [rq              : Seq(Tasks),
   expired_q       : Seq(Tasks),
   cur_            : AllTasks,
   time_slices     : [AllTasks -> Nat],
   need_reschedule : [AllTasks -> BOOLEAN],
   panic           : BOOLEAN]
-----------------------------------------------------------------------------
(* List<Task, &Task::rq_node>                                              *)

(* append asserts that the node has no neighbours: it lets through a node  *)
(* that is alone in another list.                                          *)
HasNeighbour(q, t) == t \in Elems(q) /\ Len(q) > 1
-----------------------------------------------------------------------------
(* Scheduler                                                               *)

Panic(s) == [s EXCEPT !.panic = TRUE]

SchedulerInit ==
  [rq              |-> <<InitTask>>,
   expired_q       |-> <<>>,
   cur_            |-> DummyTask,
   time_slices     |-> [t \in AllTasks |-> IF t = DummyTask THEN INT_MAX
                                           ELSE IF t = InitTask THEN Slices ELSE 0],
   need_reschedule |-> [t \in AllTasks |-> t = DummyTask],
   panic           |-> FALSE]

activate_task(s, t) ==
  IF HasNeighbour(s.rq, t) \/ HasNeighbour(s.expired_q, t)
  THEN Panic(s)
  ELSE [s EXCEPT !.time_slices[t] = Slices,
                 !.rq = Append(@, t)]

deactivate_task(s, t) ==
  IF t \in Elems(s.rq)
  THEN [s EXCEPT !.rq = remove(@, t)]
  ELSE Panic(s)

(* Mutant: the slice is tested before it is decremented, not after.        *)
tick_post_decrement(s) ==
  LET t == s.cur_ IN
  IF s.rq = <<>> \/ s.time_slices[t] > 0
  THEN [s EXCEPT !.time_slices[t] = @ - 1]
  ELSE [s EXCEPT !.time_slices[t] = @ - 1,
                 !.rq = remove(@, t),
                 !.expired_q = Append(@, t),
                 !.need_reschedule[t] = TRUE]

(* Mutant: an expired task keeps the head of the run queue.                *)
tick_requeue_in_front(s) ==
  LET t == s.cur_ IN
  IF s.rq = <<>> THEN s
  ELSE IF s.time_slices[t] > 1
  THEN [s EXCEPT !.time_slices[t] = @ - 1]
  ELSE [s EXCEPT !.time_slices[t] = Slices, !.need_reschedule[t] = TRUE]

(* Mutant: an expired task stays in the run queue as well.                 *)
tick_without_remove(s) ==
  LET t == s.cur_ IN
  IF s.rq = <<>> THEN s
  ELSE IF s.time_slices[t] # 1
  THEN [s EXCEPT !.time_slices[t] = @ - 1]
  ELSE [s EXCEPT !.time_slices[t] = 0,
                 !.expired_q = Append(@, t),
                 !.need_reschedule[t] = TRUE]

tick(s) ==
  LET t == s.cur_ IN
  IF s.rq = <<>> THEN s
  ELSE IF s.time_slices[t] > 1
  THEN [s EXCEPT !.time_slices[t] = @ - 1]
  ELSE IF s.time_slices[t] = 1 /\ t \in Elems(s.rq)
  THEN [s EXCEPT !.time_slices[t] = 0,
                 !.rq = remove(@, t),
                 !.expired_q = Append(@, t),
                 !.need_reschedule[t] = TRUE]
  ELSE Panic(s)

(* Mutant: the slices of the tasks that come back are not refilled.        *)
swap_queues_no_refill(s) ==
  IF s.rq = <<>> THEN [s EXCEPT !.rq = s.expired_q, !.expired_q = <<>>] ELSE s

(* pick_next, first half: an empty run queue changes places with expired_q *)
(* and the slices of its tasks are refilled.                               *)
swap_queues(s) ==
  IF s.rq # <<>> THEN s
  ELSE [s EXCEPT !.rq = s.expired_q,
                 !.expired_q = <<>>,
                 !.time_slices = [t \in AllTasks |->
                    IF t \in Elems(s.expired_q) THEN Slices ELSE @[t]]]

(* pick_next, second half: the head of the run queue, which stays there.   *)
pick_next(s) == IF s.rq = <<>> THEN NoTask ELSE Head(s.rq)

(* With both queues empty cur_ becomes null (NonNull::operator= does not   *)
(* check) and context_switch takes its stack pointer from address zero.    *)
schedule(s) ==
  LET p == swap_queues(s)
  IN  IF pick_next(p) = NoTask
      THEN Panic(p)
      ELSE [p EXCEPT !.need_reschedule[p.cur_] = FALSE,
                     !.cur_ = pick_next(p)]

(* The end of intr_handler_cpp_linkage: what every interrupt does after    *)
(* its handler, which may have panicked.                                   *)
intr_return(s) ==
  IF ~s.panic /\ s.need_reschedule[s.cur_] THEN schedule(s) ELSE s
=============================================================================
