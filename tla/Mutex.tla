-------------------------------- MODULE Mutex --------------------------------
(***************************************************************************)
(* Preemptive tasks that share one kernel::Mutex: the scheduler, the       *)
(* mutex's wait queue, and the interrupts that preempt.                    *)
(*                                                                         *)
(* A task runs code of its own, with interrupts on, until it calls         *)
(* acquire or release, which run with interrupts off and are therefore one *)
(* step each, up to the call of schedule() in the middle of acquire: there *)
(* the task leaves the processor, and later resumes behind that call with  *)
(* interrupts still off (switch_to restores the flags it saved).           *)
(*                                                                         *)
(* A creation ends with activate_task, which nobody calls with interrupts  *)
(* off there: an interrupt may come while the new task is appended to rq.  *)
(* Most do no harm.  A tick that ends the creator's slice does: it takes   *)
(* the creator out of the very list whose tail append has read, and before *)
(* the creator goes on the two queues have changed places.  Depending on   *)
(* the instruction, a later head() fails, or a task is in no queue, or all *)
(* is well.  The lists are torn then, and the model stops.                 *)
(***************************************************************************)
EXTENDS Scheduler

CONSTANTS Reentrant,   (* may the holder call acquire again?               *)
          MaxNesting   (* bound on the critical sections a task is inside  *)

ASSUME MutexAssumption == Reentrant \in BOOLEAN /\ MaxNesting \in Nat \ {0}

VARIABLES
  sched,       (* the scheduler state                                      *)
  val,         (* Mutex::val: the lock is free                             *)
  owner,       (* Mutex::owner                                             *)
  wait_queue,  (* Mutex::wait_queue                                        *)
  at,          (* where a task is: "none" (not created), "made" (but not   *)
               (* appended to rq yet), "body" (its own code), "create" (in *)
               (* activate_task, with a task that is made) or "acquire"    *)
               (* (behind schedule() in acquire)                           *)
  inside,      (* the critical sections a task has entered and not left    *)
  torn         (* a tick has ended a slice in the midst of append          *)

vars == <<sched, val, owner, wait_queue, at, inside, torn>>

lock == <<val, owner, wait_queue, inside>>
-----------------------------------------------------------------------------
(* WaitQueue                                                               *)

(* WaitQueue::add on the scheduler; the waiter is appended to wait_queue.  *)
add(s, t) == deactivate_task(s, t)

(* Mutant: the waiter is taken off the wait queue and not activated.       *)
wake_without_activate(s) ==
  IF wait_queue = <<>> THEN s ELSE [s EXCEPT !.need_reschedule[s.cur_] = TRUE]

(* WaitQueue::wake_up_one on the scheduler.                                *)
wake_up_one(s) ==
  IF wait_queue = <<>> THEN s
  ELSE [activate_task(s, Head(wait_queue)) EXCEPT !.need_reschedule[s.cur_] = TRUE]

left_pop(q) == IF q = <<>> THEN q ELSE Tail(q)
-----------------------------------------------------------------------------
Init ==
  /\ sched = SchedulerInit
  /\ val = TRUE
  /\ owner = NoTask
  /\ wait_queue = <<>>
  /\ at = [t \in Tasks |-> IF t = InitTask THEN "body" ELSE "none"]
  /\ inside = [t \in Tasks |-> 0]
  /\ torn = FALSE

Alive == ~sched.panic /\ ~torn

Running(t, place) == t \in Tasks /\ sched.cur_ = t /\ at[t] = place

(* t executes code of its own: interrupts are on.                          *)
InBody(t) == Running(t, "body")

(* t appends a task it has made to rq.                                     *)
InAppend(t) == Running(t, "create")

InterruptsOn ==
  Alive /\ (sched.cur_ = DummyTask \/ InBody(sched.cur_) \/ InAppend(sched.cur_))

(* The next tick takes the running task out of rq.                         *)
SliceEnds == sched.time_slices[sched.cur_] = 1

TimerIrq ==
  /\ InterruptsOn
  /\ ~(InAppend(sched.cur_) /\ SliceEnds)
  /\ sched' = intr_return(tick(sched))
  /\ UNCHANGED <<lock, at, torn>>

(* The tick that ends a slice between append's first read of the list and  *)
(* its last write.                                                         *)
TimerIrqInAppend ==
  /\ InterruptsOn
  /\ InAppend(sched.cur_) /\ SliceEnds
  /\ torn' = TRUE
  /\ UNCHANGED <<sched, lock, at>>

(* An interrupt whose handler leaves the scheduler alone.                  *)
DeviceIrq ==
  /\ InterruptsOn
  /\ sched' = intr_return(sched)
  /\ UNCHANGED <<lock, at, torn>>

(* ktask_create, called by the running task, up to the append.             *)
ktask_create(t) ==
  /\ Alive
  /\ InBody(sched.cur_)
  /\ at[t] = "none"
  /\ at' = [at EXCEPT ![t] = "made", ![sched.cur_] = "create"]
  /\ UNCHANGED <<sched, lock, torn>>

(* The rest of it, which activates the new task.                           *)
activate_made(t) ==
  /\ Alive
  /\ InAppend(sched.cur_)
  /\ at[t] = "made"
  /\ sched' = activate_task(sched, t)
  /\ at' = [at EXCEPT ![t] = "body", ![sched.cur_] = "body"]
  /\ UNCHANGED <<lock, torn>>

TakeLock(t) ==
  /\ owner' = t
  /\ val' = FALSE
  /\ inside' = [inside EXCEPT ![t] = @ + 1]
  /\ at' = [at EXCEPT ![t] = "body"]
  /\ UNCHANGED <<sched, wait_queue, torn>>

WaitForLock(t) ==
  /\ sched' = schedule(add(sched, t))
  /\ wait_queue' = Append(wait_queue, t)
  /\ at' = [at EXCEPT ![t] = "acquire"]
  /\ UNCHANGED <<val, owner, inside, torn>>

(* acquire up to schedule(), or to its end.  A holder returns at once.     *)
acquire(t) ==
  /\ Alive
  /\ InBody(t)
  /\ IF Reentrant THEN inside[t] < MaxNesting ELSE inside[t] = 0
  /\ \/ /\ owner = t
        /\ inside' = [inside EXCEPT ![t] = @ + 1]
        /\ UNCHANGED <<sched, val, owner, wait_queue, at, torn>>
     \/ owner # t /\ val  /\ TakeLock(t)
     \/ owner # t /\ ~val /\ WaitForLock(t)

(* Mutant: the wait is an if, not a while.                                 *)
acquire_resume_no_recheck(t) ==
  /\ Alive
  /\ sched.cur_ = t
  /\ at[t] = "acquire"
  /\ TakeLock(t)

(* acquire from schedule()'s return: the loop tests val again.             *)
acquire_resume(t) ==
  /\ Alive
  /\ sched.cur_ = t
  /\ at[t] = "acquire"
  /\ \/ val  /\ TakeLock(t)
     \/ ~val /\ WaitForLock(t)

(* Mutant: release forgets the waiters.                                    *)
release_no_wake_up(t) ==
  /\ Alive
  /\ InBody(t)
  /\ inside[t] > 0
  /\ val' = TRUE
  /\ owner' = NoTask
  /\ inside' = [inside EXCEPT ![t] = @ - 1]
  /\ UNCHANGED <<sched, wait_queue, at, torn>>

(* release, by a task that is inside a critical section.                   *)
release(t) ==
  /\ Alive
  /\ InBody(t)
  /\ inside[t] > 0
  /\ sched' = wake_up_one(sched)
  /\ wait_queue' = left_pop(wait_queue)
  /\ val' = TRUE
  /\ owner' = NoTask
  /\ inside' = [inside EXCEPT ![t] = @ - 1]
  /\ UNCHANGED <<at, torn>>

(* The model has stopped, without being stuck.                             *)
Stopped == torn /\ UNCHANGED vars

Next ==
  \/ TimerIrq
  \/ TimerIrqInAppend
  \/ DeviceIrq
  \/ \E t \in Tasks : \/ ktask_create(t)
                      \/ activate_made(t)
                      \/ acquire(t)
                      \/ acquire_resume(t)
                      \/ release(t)
  \/ Stopped

Spec == Init /\ [][Next]_vars

(***************************************************************************)
(* The timer runs and the 8259 keeps its request while interrupts are off. *)
(* A task that resumes in acquire, or is in append, runs on.  A critical   *)
(* section is finite straight-line code (vga::clear): a task that keeps    *)
(* getting the processor inside one comes to release.                      *)
(***************************************************************************)
Fairness ==
  /\ WF_vars(TimerIrq) /\ WF_vars(TimerIrqInAppend)
  /\ \A t \in Tasks : /\ WF_vars(acquire_resume(t)) /\ WF_vars(activate_made(t))
                      /\ SF_vars(release(t))

FairSpec == Spec /\ Fairness
-----------------------------------------------------------------------------
Created == {t \in Tasks : at[t] \notin {"none", "made"}}

(* Types of the variables, the scheduler's record included.                *)
TypeOK ==
  /\ sched \in SchedulerState
  /\ val \in BOOLEAN
  /\ owner \in Tasks \cup {NoTask}
  /\ wait_queue \in Seq(Tasks)
  /\ at \in [Tasks -> {"none", "made", "body", "create", "acquire"}]
  /\ inside \in [Tasks -> Nat]
  /\ torn \in BOOLEAN

(* No run of interrupts, creations, blocks and wake-ups makes tick's       *)
(* assertion or a list's assertion fail, removes a task from a queue it is *)
(* not in, or leaves schedule() without a task to run: as long as no slice *)
(* has ended in the midst of append.                                       *)
NoPanic == torn \/ ~sched.panic

(* A created task is in exactly one of run queue, expired queue and wait   *)
(* queue, once, and no other task is in any: none is lost or run twice.    *)
(* A task that is being appended is in none, whatever interrupts come in   *)
(* between, and in one when that is done; unless one has torn the lists.   *)
NoTaskLostOrDuplicated ==
  torn \/
  LET all == sched.rq \o sched.expired_q \o wait_queue
  IN  /\ Elems(all) = Created
      /\ \A i, j \in 1..Len(all) : all[i] = all[j] => i = j

(* Two tasks are never inside critical sections of the lock together.      *)
MutualExclusion ==
  \A t, u \in Tasks : inside[t] > 0 /\ inside[u] > 0 => t = u

(* A free lock with waiters has a waiter on its way: one that was woken,   *)
(* is in a run queue and will test the lock.                               *)
NoLostWakeup ==
  val /\ wait_queue # <<>> =>
    \E t \in Elems(sched.rq) \cup Elems(sched.expired_q) : at[t] = "acquire"

(* The lock as its users see it.                                           *)
Lock == INSTANCE AbstractLock WITH holder <- IF val THEN NoTask ELSE owner

(* The mutex implements the abstract lock.                                 *)
ImplementsLock == Lock!Spec

(* The states of Task.hpp, read off the queues.                            *)
TaskState ==
  [t \in Tasks |->
     IF t = sched.cur_ THEN "running"
     ELSE IF t \in Elems(sched.rq) \cup Elems(sched.expired_q) THEN "ready"
     ELSE IF t \in Elems(wait_queue) THEN "waiting"
     ELSE "none"]

Lifecycle == INSTANCE TaskLifecycle WITH state <- TaskState

(* Scheduler, wait queue and interrupts implement the task states.         *)
ImplementsLifecycle == Lifecycle!Spec

(* A ready task runs: blocking and waking others cannot keep it waiting,   *)
(* only torn lists can.                                                    *)
ReadyEventuallyRuns ==
  \A t \in Tasks : TaskState[t] = "ready" ~> TaskState[t] = "running" \/ torn

(* A task that waits for the lock is woken, unless the lists are torn.     *)
WaiterEventuallyWoken ==
  \A t \in Tasks : TaskState[t] = "waiting" ~> TaskState[t] # "waiting" \/ torn
=============================================================================
