------------------------------ MODULE Interrupts ------------------------------
(***************************************************************************)
(* Boot and interrupts: kmain's initialisations, the pair of 8259          *)
(* controllers, the path of an interrupt through its stub, the handler     *)
(* table and schedule(), and the keyboard driver that the init task        *)
(* constructs when interrupts are already on.                              *)
(*                                                                         *)
(* Which task schedule() picks is module Scheduler's; here it is any that  *)
(* was created.  The place a task is at, on its own stack:                 *)
(*   "none"     not created          "fresh"    created, never ran         *)
(*   "run"      code of its own      "entry"    in a stub, not ended       *)
(*   "ended"    in a handler         "handled"  before schedule()          *)
(*   "leave"    behind schedule() in an interrupt                          *)
(*   "waiting"  behind schedule() in Mutex::acquire                        *)
(***************************************************************************)
EXTENDS Integers, Sequences

CONSTANTS Lines,       (* the interrupt lines in use, of 0..15             *)
          Workers,     (* tasks that the init task may create              *)
          MaxRequests  (* bounds on the requests of the lines              *)

ASSUME InterruptsAssumption ==
  /\ Lines \subseteq 0 .. 15 \ {2}
  /\ MaxRequests \in [Lines -> Nat]
  /\ {"kmain", "init"} \cap Workers = {}

VARIABLES
  pc,               (* kmain: the next of its steps                        *)
  cur,              (* Scheduler::cur_; "kmain" is the dummy task          *)
  at,               (* the place each task is at                           *)
  need_reschedule,  (* the running task's flag                             *)
  IF_on,            (* the processor's interrupt flag                      *)
  frame,            (* intr_or_irq of the frame under work                 *)
  handlers,         (* interrupt_handlers                                  *)
  keyboard,         (* the Keyboard: "absent", "raw" (its base is          *)
                    (* constructed, its members are not) or "whole"        *)
  irr, isr,         (* requests and lines in service, 2 is the cascade     *)
  requests,         (* history: the requests made on a line                *)
  byte,             (* the 8042's output buffer is full                    *)
  early,            (* history: a byte whose interrupt came to nothing     *)
                    (* before the keyboard was registered                  *)
  fault             (* what went wrong, if anything                        *)

cpu == <<pc, cur, at, need_reschedule, IF_on, frame>>
drivers == <<handlers, keyboard>>
pic == <<irr, isr, requests>>
vars == <<cpu, drivers, pic, byte, early, fault>>

Tasks == {"kmain", "init"} \cup Workers
Created == {t \in Tasks \ {"kmain"} : at[t] # "none"}
Runs(t) == fault = "none" /\ cur = t /\ at[t] = "run"
-----------------------------------------------------------------------------
(* The controllers                                                         *)

Level(l) == IF l < 8 THEN l ELSE 2

(* s, in service, keeps the controller it is on from passing l on.         *)
Blocks(s, l) == IF s < 8 THEN s <= Level(l) ELSE l >= 8 /\ s <= l

Candidates == {l \in irr : \A s \in isr : ~Blocks(s, l)}

Urgency(l) == IF l < 8 THEN 16 * l ELSE 32 + l

Passed(l) == l \in Candidates /\ \A k \in Candidates : Urgency(l) <= Urgency(k)

(* A controller told that its most urgent interrupt ended.                 *)
WithoutFirst(S) == S \ {l \in S : \A k \in S : l <= k}

Request(l) ==
  /\ l \notin irr
  /\ requests[l] < MaxRequests[l]
  /\ requests' = [requests EXCEPT ![l] = @ + 1]
  /\ irr' = irr \cup {l}
  /\ UNCHANGED <<cpu, drivers, isr, early, fault>>

DeviceRequest(l) == l # 1 /\ Request(l) /\ UNCHANGED byte

(* The 8042 puts a scan code in its buffer once the last one was read.     *)
KeyRequest == 1 \in Lines /\ ~byte /\ Request(1) /\ byte' = TRUE
-----------------------------------------------------------------------------
(* Boot                                                                    *)

(* Mutant: interrupts are let in as soon as the table is loaded.           *)
steps_enable_early ==
  <<"gdt", "idt", "enable_irq", "memory", "vga", "scheduler", "pci", "timer">>

(* kmain's calls, in order.                                                *)
KmainSteps ==
  <<"gdt", "idt", "memory", "vga", "scheduler", "pci", "timer", "enable_irq">>

Done(step) == \E i \in 1 .. pc - 1 : KmainSteps[i] = step

(* What allocates needs the heap.                                          *)
Allocates == {"vga", "scheduler", "pci", "timer"}

(* IRQHandler::IRQHandler.                                                 *)
registered(vector, h) == [handlers EXCEPT ![vector] = h]

(* init_idt resets the controllers, which forget the edges they have seen: *)
(* a byte that lies in the buffer by then makes no other.                  *)
init_idt ==
  /\ irr' = {}
  /\ isr' = {}
  /\ early' = (early \/ byte)
  /\ UNCHANGED <<cur, at, need_reschedule, IF_on, handlers>>

(* Scheduler::init: an init task that can run, and the dummy task that     *)
(* stands for kmain and wants to leave.                                    *)
init_scheduler ==
  /\ at' = [at EXCEPT !["init"] = "fresh"]
  /\ need_reschedule' = TRUE
  /\ UNCHANGED <<cur, IF_on, irr, isr, early, handlers>>

init_timer ==
  /\ handlers' = registered(32, "timer")
  /\ UNCHANGED <<cur, at, need_reschedule, IF_on, irr, isr, early>>

enable_irq ==
  /\ IF_on' = TRUE
  /\ UNCHANGED <<cur, at, need_reschedule, irr, isr, early, handlers>>

NoInterruptState ==
  UNCHANGED <<cur, at, need_reschedule, IF_on, irr, isr, early, handlers>>

kmain ==
  /\ Runs("kmain")
  /\ pc <= Len(KmainSteps)
  /\ pc' = pc + 1
  /\ fault' = IF KmainSteps[pc] \in Allocates /\ ~Done("memory") THEN "no heap" ELSE fault
  /\ CASE KmainSteps[pc] = "idt" -> init_idt
       [] KmainSteps[pc] = "scheduler" -> init_scheduler
       [] KmainSteps[pc] = "timer" -> init_timer
       [] KmainSteps[pc] = "enable_irq" -> enable_irq
       [] OTHER -> NoInterruptState
  /\ UNCHANGED <<frame, keyboard, requests, byte>>
-----------------------------------------------------------------------------
(* The path of an interrupt: interrupts are off all along                  *)

(* The number a line's stub pushes; that of line 14 pushes its             *)
(* neighbour's.                                                            *)
pushed(l) == IF l = 14 THEN 45 ELSE 32 + l

(* The processor enters a stub, with the number that the stub pushes.      *)
enter(number) ==
  /\ frame' = number
  /\ at' = [at EXCEPT ![cur] = "entry"]
  /\ IF_on' = FALSE
  /\ fault' = IF Done("idt") THEN fault ELSE "no table"
  /\ UNCHANGED <<pc, cur, need_reschedule, drivers, requests, byte, early>>

Interrupt(l) ==
  /\ fault = "none"
  /\ IF_on
  /\ Passed(l)
  /\ irr' = irr \ {l}
  /\ isr' = isr \cup {Level(l), l}
  /\ enter(pushed(l))

(* An `int 0x80' of a task takes the same path.                            *)
Trap(t) == Runs(t) /\ IF_on /\ t # "kmain" /\ enter(128) /\ UNCHANGED <<irr, isr>>

(* Mutants: only one of the two controllers is told; the first line of     *)
(* the second one counts as the first one's.                               *)
ended_by_one(S, number) ==
  IF number >= 40 THEN (S \cap 0 .. 7) \cup WithoutFirst(S \cap 8 .. 15)
  ELSE WithoutFirst(S \cap 0 .. 7) \cup (S \cap 8 .. 15)

ended_off_by_one(S, number) ==
  WithoutFirst(S \cap 0 .. 7)
  \cup (IF number > 40 THEN WithoutFirst(S \cap 8 .. 15) ELSE S \cap 8 .. 15)

(* The lines in service after the controllers were told of the end.        *)
ended(S, number) ==
  WithoutFirst(S \cap 0 .. 7)
  \cup (IF number >= 40 THEN WithoutFirst(S \cap 8 .. 15) ELSE S \cap 8 .. 15)

end_of_interrupt ==
  /\ fault = "none"
  /\ at[cur] = "entry"
  /\ isr' = ended(isr, frame)
  /\ at' = [at EXCEPT ![cur] = "ended"]
  /\ UNCHANGED <<pc, cur, need_reschedule, IF_on, frame, drivers, irr, requests, byte, early, fault>>

(* Scheduler::tick may find the slice used up.                             *)
timer_handler ==
  /\ need_reschedule' \in {need_reschedule, TRUE}
  /\ UNCHANGED <<byte, early, fault>>

(* Keyboard::handle_irq takes the byte; before its members are constructed *)
(* anything may happen.                                                    *)
keyboard_handler ==
  /\ byte' = FALSE
  /\ fault' = IF keyboard = "whole" THEN fault ELSE "raw keyboard"
  /\ UNCHANGED <<need_reschedule, early>>

no_handler ==
  /\ early' = (early \/ (frame = 33 /\ byte /\ keyboard = "absent"))
  /\ UNCHANGED <<need_reschedule, byte, fault>>

handle_irq ==
  /\ fault = "none"
  /\ at[cur] = "ended"
  /\ at' = [at EXCEPT ![cur] = "handled"]
  /\ CASE handlers[frame] = "timer" -> timer_handler
       [] handlers[frame] = "keyboard" -> keyboard_handler
       [] OTHER -> no_handler
  /\ UNCHANGED <<pc, cur, IF_on, frame, drivers, pic>>

(* switch_to, and the iret by which a fresh task turns interrupts on.      *)
switch_to(t, place) ==
  /\ cur' = t
  /\ need_reschedule' = FALSE
  /\ IF at[t] = "fresh"
     THEN IF_on' = TRUE /\ at' = [at EXCEPT ![cur] = place, ![t] = "run"]
     ELSE IF_on' = FALSE /\ at' = [at EXCEPT ![cur] = place]
  /\ UNCHANGED <<pc, frame, drivers, pic, byte, early, fault>>

(* The running task, if Scheduler::init made one, is asked for its flag.   *)
schedule ==
  /\ fault = "none"
  /\ at[cur] = "handled"
  /\ \/ need_reschedule /\ \E t \in Created : switch_to(t, "leave")
     \/ /\ ~need_reschedule
        /\ at' = [at EXCEPT ![cur] = "leave"]
        /\ fault' = IF Done("scheduler") THEN fault ELSE "no scheduler"
        /\ UNCHANGED <<pc, cur, need_reschedule, IF_on, frame, drivers, pic, byte, early>>

(* The way out of a stub, and of acquire: interrupts on, own code.         *)
leave ==
  /\ fault = "none"
  /\ at[cur] \in {"leave", "waiting"}
  /\ at' = [at EXCEPT ![cur] = "run"]
  /\ IF_on' = TRUE
  /\ UNCHANGED <<pc, cur, need_reschedule, frame, drivers, pic, byte, early, fault>>
-----------------------------------------------------------------------------
(* Tasks, with interrupts on                                               *)

(* Mutex::acquire finds the lock taken and calls schedule() itself.        *)
acquire(t) ==
  /\ Runs(t)
  /\ t \in Created
  /\ \E u \in Created \ {t} : switch_to(u, "waiting")

(* acquire goes round its loop: the task that holds the lock is not in it. *)
acquire_again(t) ==
  /\ fault = "none"
  /\ cur = t
  /\ at[t] = "waiting"
  /\ \E u \in Created \ {t} : at[u] # "waiting" /\ switch_to(u, "waiting")

(* WaitQueue::wake_up_one asks for the running task to be rescheduled.     *)
reschedule(t) ==
  /\ Runs(t)
  /\ t \in Created
  /\ ~need_reschedule
  /\ need_reschedule' = TRUE
  /\ UNCHANGED <<pc, cur, at, IF_on, frame, drivers, pic, byte, early, fault>>

(* A task is there to be switched to.  What an interrupt in the midst of   *)
(* the creation does to the queues, which are not here, is in Mutex.       *)
ktask_create(t) ==
  /\ Runs("init")
  /\ at[t] = "none"
  /\ at' = [at EXCEPT ![t] = "fresh"]
  /\ UNCHANGED <<pc, cur, need_reschedule, IF_on, frame, drivers, pic, byte, early, fault>>

(* Mutant: the keyboard registers for its line, not its vector.            *)
construct_base_for_line ==
  /\ Runs("init")
  /\ keyboard = "absent"
  /\ handlers' = registered(1, "keyboard")
  /\ keyboard' = "raw"
  /\ UNCHANGED <<cpu, pic, byte, early, fault>>

(* Keyboard::init in the init task: the base class registers the handler,  *)
(* then the queue and the lock are constructed.                            *)
construct_base ==
  /\ Runs("init")
  /\ keyboard = "absent"
  /\ handlers' = registered(33, "keyboard")
  /\ keyboard' = "raw"
  /\ UNCHANGED <<cpu, pic, byte, early, fault>>

construct_members ==
  /\ Runs("init")
  /\ keyboard = "raw"
  /\ keyboard' = "whole"
  /\ UNCHANGED <<cpu, handlers, pic, byte, early, fault>>
-----------------------------------------------------------------------------
Init ==
  /\ pc = 1
  /\ cur = "kmain"
  /\ at = [t \in Tasks |-> IF t = "kmain" THEN "run" ELSE "none"]
  /\ need_reschedule = FALSE
  /\ IF_on = FALSE
  /\ frame = 0
  /\ handlers = [v \in 0 .. 255 |-> "none"]
  /\ keyboard = "absent"
  /\ irr = {} /\ isr = {}
  /\ requests = [l \in Lines |-> 0]
  /\ byte = FALSE /\ early = FALSE /\ fault = "none"

TaskStep(t) ==
  acquire(t) \/ acquire_again(t) \/ reschedule(t) \/ Trap(t) \/ ktask_create(t)

Next ==
  \/ KeyRequest
  \/ \E l \in Lines : DeviceRequest(l) \/ Interrupt(l)
  \/ kmain \/ construct_base \/ construct_members
  \/ end_of_interrupt \/ handle_irq \/ schedule \/ leave
  \/ \E t \in Tasks : TaskStep(t)

(* The processor goes on with the code it is in, and takes an interrupt    *)
(* that is passed on whenever interrupts are on.                           *)
Fairness ==
  /\ WF_vars(kmain) /\ WF_vars(end_of_interrupt) /\ WF_vars(handle_irq)
  /\ WF_vars(schedule) /\ WF_vars(leave)
  /\ \A l \in Lines : SF_vars(Interrupt(l))

Spec == Init /\ [][Next]_vars /\ Fairness
-----------------------------------------------------------------------------
(* Whenever interrupts are on, no line is in service: whatever interrupts, *)
(* traps and task switches came before, each told exactly the controllers  *)
(* that wait to be told.  A line left in service is deaf from then on.     *)
InterruptsEndTheirOwn == IF_on => isr = {}

(* Boot lets interrupts in only when what their path uses is there: the    *)
(* table, the heap, and the running task that is asked for its flag.       *)
BootOrder == fault \in {"none", "raw keyboard"}

(* Every request reaches the processor, also those made while others are   *)
(* served and tasks switched from inside a handler, those of the second    *)
(* controller included.                                                    *)
RequestsAreServed ==
  \A l \in Lines : l \in irr ~> (l \notin irr \/ fault # "none")

(* A scan code is read, however its interrupt falls among boot, tasks and  *)
(* other interrupts, unless it came before the keyboard was registered.    *)
KeysAreRead == byte ~> (~byte \/ early \/ fault # "none")
=============================================================================
