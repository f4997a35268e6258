-------------------------- MODULE Interrupts_proofs --------------------------
(***************************************************************************)
(* The safety of boot and interrupts for every set of lines and workers    *)
(* and any number of requests.                                             *)
(*                                                                         *)
(* IInv is the inductive invariant.  Interrupts are off everywhere in the  *)
(* path of an interrupt, a line is in service only at its very start, and  *)
(* no task but the running one is there: what is suspended was told of     *)
(* before.  Boot runs undisturbed up to its last step.                     *)
(***************************************************************************)
EXTENDS Interrupts, TLAPS

Places ==
  {"none", "fresh", "run", "entry", "ended", "handled", "leave", "waiting"}

TypeOK ==
  /\ cur \in Tasks
  /\ at \in [Tasks -> Places]
  /\ pc \in 1 .. 9
  /\ irr \subseteq Lines

(* What is in service is what the running stub will end.                   *)
InService ==
  /\ IF_on => at[cur] = "run"
  /\ at[cur] # "entry" => isr = {}
  /\ at[cur] = "entry" => \/ isr = {} /\ frame = 128
                          \/ \E l \in Lines : isr = {Level(l), l} /\ frame = pushed(l)
  /\ \A t \in Tasks : t # cur => at[t] # "entry"

(* Before its end, boot is alone.                                          *)
BootAlone ==
  /\ pc < 9 => cur = "kmain" /\ at["kmain"] = "run" /\ ~IF_on
  /\ BootOrder

IInv == TypeOK /\ InService /\ BootAlone

(* The two controllers forget a line whose stub tells its own.             *)
LEMMA EndedIsEmpty ==
  ASSUME NEW l \in Lines  PROVE ended({Level(l), l}, pushed(l)) = {}
<1>1. l \in 0 .. 15 /\ l # 2
  BY InterruptsAssumption
<1>2. CASE l < 8
  <2>1. Level(l) = l /\ pushed(l) < 40
    BY <1>1, <1>2 DEF Level, pushed
  <2>2. {l} \cap 0 .. 7 = {l} /\ {l} \cap 8 .. 15 = {}
    <3>1. l \in 0 .. 7 /\ l \notin 8 .. 15
      BY <1>1, <1>2
    <3>2. QED
      BY <3>1, Zenon
  <2>3. WithoutFirst({l}) = {}
    BY <1>1 DEF WithoutFirst
  <2>4. QED
    BY <2>1, <2>2, <2>3 DEF ended
<1>3. CASE l >= 8
  <2>1. Level(l) = 2 /\ pushed(l) >= 40
    BY <1>1, <1>3 DEF Level, pushed
  <2>2. {2, l} \cap 0 .. 7 = {2} /\ {2, l} \cap 8 .. 15 = {l}
    <3>1. l \notin 0 .. 7 /\ l \in 8 .. 15 /\ 2 \in 0 .. 7 /\ 2 \notin 8 .. 15
      BY <1>1, <1>3
    <3>2. QED
      BY <3>1, Zenon
  <2>3. WithoutFirst({l}) = {} /\ WithoutFirst({2}) = {}
    BY <1>1 DEF WithoutFirst
  <2>4. QED
    BY <2>1, <2>2, <2>3 DEF ended
<1>4. QED
  BY <1>1, <1>2, <1>3

(* At the end of boot everything was done, and what allocates comes after  *)
(* the heap.                                                               *)
LEMMA BootDone ==
  pc = 9 => Done("idt") /\ Done("scheduler")
<1> SUFFICES ASSUME pc = 9 PROVE Done("idt") /\ Done("scheduler")
  OBVIOUS
<1>1. 2 \in 1 .. pc - 1 /\ KmainSteps[2] = "idt"
  BY DEF KmainSteps
<1>2. 5 \in 1 .. pc - 1 /\ KmainSteps[5] = "scheduler"
  BY DEF KmainSteps
<1>3. QED
  BY <1>1, <1>2 DEF Done

LEMMA HeapFirst ==
  ASSUME pc \in 1 .. 8, KmainSteps[pc] \in Allocates  PROVE Done("memory")
<1>1. pc \notin {1, 2, 3}
  BY DEF KmainSteps, Allocates
<1>2. 3 \in 1 .. pc - 1 /\ KmainSteps[3] = "memory"
  BY <1>1 DEF KmainSteps
<1>3. QED
  BY <1>2 DEF Done

LEMMA InitIInv == Init => IInv
<1> SUFFICES ASSUME Init PROVE IInv
  OBVIOUS
<1>1. TypeOK
  BY DEF Init, TypeOK, Tasks, Places
<1>2. InService
  BY DEF Init, InService, Tasks
<1>3. BootAlone
  BY DEF Init, BootAlone, BootOrder, Tasks
<1>4. QED
  BY <1>1, <1>2, <1>3 DEF IInv

LEMMA LastStep == ~(9 < 9)
OBVIOUS

(* Once boot is over, only a fault can disturb it.                         *)
LEMMA StaysBooted ==
  ASSUME IInv, pc = 9, UNCHANGED <<pc, fault>>  PROVE BootAlone'
<1>1. ~(pc' < 9) /\ fault' = fault
  OBVIOUS
<1>2. fault \in {"none", "raw keyboard"}
  BY DEF IInv, BootAlone, BootOrder
<1>3. BootOrder'
  BY <1>1, <1>2 DEF BootOrder
<1>4. QED
  BY <1>1, <1>3, Zenon DEF BootAlone

(* A switch to another task, from behind the entry of a stub or from       *)
(* acquire: nothing is in service on either side.                          *)
LEMMA SwitchKeepsIInv ==
  ASSUME IInv, NEW t \in Created, NEW place \in {"leave", "waiting"},
         at[cur] # "entry", pc = 9,
         switch_to(t, place)
  PROVE  IInv'
<1>1. t \in Tasks /\ cur' = t /\ need_reschedule' = FALSE
  BY DEF Created, switch_to
<1>2. at[t] # "entry"
  BY <1>1 DEF IInv, InService
<1>3. isr = {} /\ isr' = {} /\ UNCHANGED <<pc, irr, fault>>
  BY DEF IInv, InService, switch_to, pic
<1>4. CASE at[t] = "fresh"
  <2>1. IF_on' /\ at' = [at EXCEPT ![cur] = place, ![t] = "run"]
    BY <1>4 DEF switch_to
  <2>2. TypeOK'
    BY <1>1, <1>3, <2>1 DEF IInv, TypeOK, Places, Tasks, switch_to
  <2>3. InService'
    BY <1>1, <1>3, <2>1 DEF IInv, TypeOK, InService
  <2>4. BootAlone'
    BY <1>3, StaysBooted
  <2>5. QED
    BY <2>2, <2>3, <2>4 DEF IInv
<1>5. CASE at[t] # "fresh"
  <2>1. IF_on' = FALSE /\ at' = [at EXCEPT ![cur] = place]
    BY <1>5 DEF switch_to
  <2>2. TypeOK'
    BY <1>1, <1>3, <2>1 DEF IInv, TypeOK, Places, Tasks
  <2>3. InService'
    BY <1>1, <1>2, <1>3, <2>1 DEF IInv, TypeOK, InService
  <2>4. BootAlone'
    BY <1>3, StaysBooted
  <2>5. QED
    BY <2>2, <2>3, <2>4 DEF IInv
<1>6. QED
  BY <1>4, <1>5

(* In the path of an interrupt boot is over.                               *)
LEMMA PathIsBooted ==
  ASSUME IInv, at[cur] # "run" \/ IF_on \/ cur # "kmain"  PROVE pc = 9
<1>1. ~(pc < 9)
  BY Zenon DEF IInv, BootAlone
<1>2. QED
  BY <1>1 DEF IInv, TypeOK

(* The running task enters a stub: what it will end is in service.         *)
LEMMA EntryKeepsIInv ==
  ASSUME IInv, pc = 9, UNCHANGED <<pc, cur>>, ~IF_on', fault' = "none",
         at' = [at EXCEPT ![cur] = "entry"], irr' \subseteq Lines,
         \/ isr' = {} /\ frame' = 128
         \/ \E l \in Lines : isr' = {Level(l), l} /\ frame' = pushed(l)
  PROVE  IInv'
<1>1. TypeOK'
  BY DEF IInv, TypeOK, Places
<1>2. at'[cur'] = "entry" /\ \A t \in Tasks : t # cur' => at'[t] # "entry"
  BY DEF IInv, TypeOK, InService
<1>3. InService'
  BY <1>2, Zenon DEF InService
<1>4. pc' = 9
  BY Zenon
<1>5. BootAlone'
  BY <1>4, LastStep, Zenon DEF BootAlone, BootOrder
<1>6. QED
  BY <1>1, <1>3, <1>5 DEF IInv

(* The same place for all tasks but the running one, which leaves the      *)
(* entry of its stub with nothing in service.                              *)
LEMMA MovesKeepIInv ==
  ASSUME IInv, pc = 9, NEW place \in Places \ {"entry"},
         at' = [at EXCEPT ![cur] = place], isr' = {}, irr' \subseteq Lines,
         UNCHANGED <<pc, cur>>, IF_on' => place = "run",
         fault' \in {"none", "raw keyboard"}
  PROVE  IInv'
<1>1. TypeOK'
  BY DEF IInv, TypeOK
<1>2. at' \in [Tasks -> Places] /\ at'[cur'] = place /\ cur' = cur
  BY DEF IInv, TypeOK
<1>3. \A t \in Tasks : t # cur' => at'[t] # "entry"
  BY DEF IInv, TypeOK, InService
<1>4. InService'
  BY <1>2, <1>3, Zenon DEF InService
<1>5. ~(pc' < 9)
  <2>1. pc' = 9
    BY Zenon
  <2>2. QED
    BY <2>1, LastStep, Zenon
<1>6. BootAlone'
  BY <1>5, Zenon DEF BootAlone, BootOrder
<1>7. QED
  BY <1>1, <1>4, <1>6 DEF IInv

(* What leaves the places and what is in service alone.                    *)
LEMMA OthersKeepIInv ==
  ASSUME IInv, UNCHANGED <<pc, cur, at, isr, frame>>, IF_on' <=> IF_on,
         irr' \subseteq Lines, fault' = fault
  PROVE  IInv'
<1>1. TypeOK'
  BY DEF IInv, TypeOK
<1>2. InService'
  BY Zenon DEF IInv, InService
<1>3. BootAlone'
  BY Zenon DEF IInv, BootAlone, BootOrder
<1>4. QED
  BY <1>1, <1>2, <1>3 DEF IInv

(* kmain's steps.                                                          *)
LEMMA KmainKeepsIInv == ASSUME IInv, kmain  PROVE IInv'
<1>1. pc \in 1 .. 8 /\ pc' = pc + 1 /\ cur = "kmain" /\ at[cur] = "run" /\ fault = "none"
  <2>1. pc <= Len(KmainSteps) /\ pc' = pc + 1 /\ cur = "kmain" /\ at[cur] = "run" /\ fault = "none"
    BY Zenon DEF kmain, Runs
  <2>2. Len(KmainSteps) = 8
    BY DEF KmainSteps
  <2>3. QED
    BY <2>1, <2>2 DEF IInv, TypeOK
<1>2. isr = {}
  BY <1>1 DEF IInv, InService
<1>3. fault' = "none"
  BY <1>1, HeapFirst DEF kmain
<1>4. \/ init_idt \/ init_scheduler \/ init_timer \/ NoInterruptState
      \/ pc = 8 /\ enable_irq
  <2>1. KmainSteps[pc] = "enable_irq" => pc = 8
    BY <1>1 DEF KmainSteps
  <2>2. QED
    BY <2>1 DEF kmain
<1>5. cur' = cur /\ isr' = {} /\ irr' \subseteq Lines
  BY <1>2, <1>4 DEF init_idt, init_scheduler, init_timer, NoInterruptState, enable_irq,
     IInv, TypeOK
<1>6. at' = at \/ at' = [at EXCEPT !["init"] = "fresh"]
  BY <1>4 DEF init_idt, init_scheduler, init_timer, NoInterruptState, enable_irq
<1>7. at' \in [Tasks -> Places] /\ at'["kmain"] = "run"
      /\ \A t \in Tasks : t # cur' => at'[t] # "entry"
  BY <1>1, <1>5, <1>6 DEF IInv, TypeOK, InService, Places
<1>8. TypeOK'
  BY <1>1, <1>5, <1>7 DEF TypeOK, Tasks
<1>9. InService'
  BY <1>1, <1>5, <1>7 DEF InService
<1>10. pc' < 9 => ~IF_on'
  <2>1. ~IF_on
    BY <1>1 DEF IInv, BootAlone
  <2>2. CASE pc = 8 /\ enable_irq
    BY <1>1, <2>2
  <2>3. CASE init_idt \/ init_scheduler \/ init_timer \/ NoInterruptState
    BY <2>1, <2>3 DEF init_idt, init_scheduler, init_timer, NoInterruptState
  <2>4. QED
    BY <1>4, <2>2, <2>3
<1>11. BootAlone'
  BY <1>1, <1>3, <1>5, <1>7, <1>10 DEF BootAlone, BootOrder
<1>12. QED
  BY <1>8, <1>9, <1>11 DEF IInv

(* The path of an interrupt, step by step.                                 *)
LEMMA InterruptKeepsIInv == ASSUME IInv, NEW l \in Lines, Interrupt(l)  PROVE IInv'
<1>1. IF_on /\ fault = "none" /\ pc' = pc /\ cur' = cur
  BY Zenon DEF Interrupt, enter
<1>2. pc = 9 /\ isr = {} /\ at[cur] = "run"
  BY <1>1, PathIsBooted, Zenon DEF IInv, InService
<1>3. isr' = {Level(l), l} /\ frame' = pushed(l) /\ at' = [at EXCEPT ![cur] = "entry"]
  BY <1>2, Zenon DEF Interrupt, enter
<1>4. fault' = "none"
  BY <1>1, <1>2, BootDone, Zenon DEF Interrupt, enter
<1>5. irr' \subseteq Lines
  BY Zenon DEF Interrupt, IInv, TypeOK
<1>6. ~IF_on'
  BY Zenon DEF Interrupt, enter
<1>7. QED
  BY <1>1, <1>2, <1>3, <1>4, <1>5, <1>6, EntryKeepsIInv

LEMMA TrapKeepsIInv == ASSUME IInv, NEW t \in Tasks, Trap(t)  PROVE IInv'
<1>1. IF_on /\ fault = "none" /\ pc' = pc /\ cur' = cur
  BY Zenon DEF Trap, Runs, enter
<1>2. pc = 9 /\ isr = {}  /\ at[cur] = "run"
  BY <1>1, PathIsBooted, Zenon DEF IInv, InService
<1>3. isr' = {} /\ frame' = 128 /\ at' = [at EXCEPT ![cur] = "entry"]
  BY <1>2, Zenon DEF Trap, enter
<1>4. fault' = "none"
  BY <1>1, <1>2, BootDone, Zenon DEF Trap, enter
<1>5. irr' \subseteq Lines
  BY Zenon DEF Trap, IInv, TypeOK
<1>6. ~IF_on'
  BY Zenon DEF Trap, enter
<1>7. QED
  BY <1>1, <1>2, <1>3, <1>4, <1>5, <1>6, EntryKeepsIInv

LEMMA EndKeepsIInv == ASSUME IInv, end_of_interrupt  PROVE IInv'
<1>1. at[cur] = "entry" /\ fault = "none" /\ UNCHANGED <<pc, cur, irr, fault>>
  BY DEF end_of_interrupt
<1>2. at' = [at EXCEPT ![cur] = "ended"] /\ isr' = ended(isr, frame) /\ (IF_on' <=> IF_on)
  BY Zenon DEF end_of_interrupt
<1>3. pc = 9
  BY <1>1, PathIsBooted
<1>4. ~IF_on
  BY <1>1, Zenon DEF IInv, InService
<1>5. ended({}, 128) = {}
  BY DEF ended, WithoutFirst
<1>6. isr' = {}
  BY <1>1, <1>2, <1>5, EndedIsEmpty DEF IInv, InService
<1>7. irr' \subseteq Lines /\ "ended" \in Places \ {"entry"} /\ fault' \in {"none", "raw keyboard"}
  BY <1>1 DEF IInv, TypeOK, Places
<1>8. QED
  BY <1>1, <1>2, <1>3, <1>4, <1>6, <1>7, MovesKeepIInv

LEMMA HandleKeepsIInv == ASSUME IInv, handle_irq  PROVE IInv'
<1>1. at[cur] = "ended" /\ fault = "none" /\ UNCHANGED <<pc, cur, irr, isr>>
  BY DEF handle_irq, pic
<1>2. at' = [at EXCEPT ![cur] = "handled"] /\ (IF_on' <=> IF_on)
  BY Zenon DEF handle_irq
<1>3. pc = 9 /\ isr' = {}
  BY <1>1, PathIsBooted DEF IInv, InService
<1>4. ~IF_on
  BY <1>1, Zenon DEF IInv, InService
<1>5. fault' \in {"none", "raw keyboard"}
  BY <1>1 DEF handle_irq, timer_handler, keyboard_handler, no_handler
<1>6. irr' \subseteq Lines /\ "handled" \in Places \ {"entry"}
  BY <1>1 DEF IInv, TypeOK, Places
<1>7. QED
  BY <1>1, <1>2, <1>3, <1>4, <1>5, <1>6, MovesKeepIInv

LEMMA ScheduleKeepsIInv == ASSUME IInv, schedule  PROVE IInv'
<1>1. at[cur] = "handled" /\ fault = "none"
  BY DEF schedule
<1>2. pc = 9 /\ isr = {}
  BY <1>1, PathIsBooted DEF IInv, InService
<1>3. ASSUME NEW t \in Created, switch_to(t, "leave")  PROVE IInv'
  BY <1>1, <1>2, <1>3, SwitchKeepsIInv
<1>4. CASE at' = [at EXCEPT ![cur] = "leave"] /\ UNCHANGED <<pc, cur, IF_on, pic>>
           /\ fault' = IF Done("scheduler") THEN fault ELSE "no scheduler"
  <2>1. UNCHANGED <<pc, cur, irr, isr>> /\ (IF_on' <=> IF_on)
    BY <1>4, Zenon DEF pic
  <2>2. ~IF_on
    BY <1>1, Zenon DEF IInv, InService
  <2>3. fault' = "none"
    BY <1>1, <1>2, <1>4, BootDone, Zenon
  <2>4. irr' \subseteq Lines /\ "leave" \in Places \ {"entry"} /\ isr' = {}
    BY <1>2, <2>1 DEF IInv, TypeOK, Places
  <2>5. QED
    BY <1>2, <1>4, <2>1, <2>2, <2>3, <2>4, MovesKeepIInv
<1>5. QED
  BY <1>3, <1>4, Zenon DEF schedule

LEMMA LeaveKeepsIInv == ASSUME IInv, leave  PROVE IInv'
<1>1. at[cur] \in {"leave", "waiting"} /\ fault = "none" /\ UNCHANGED <<pc, cur, irr, isr, fault>>
  BY DEF leave, pic
<1>2. at' = [at EXCEPT ![cur] = "run"]
  BY DEF leave
<1>3. pc = 9 /\ isr' = {}
  BY <1>1, PathIsBooted DEF IInv, InService
<1>4. irr' \subseteq Lines /\ "run" \in Places \ {"entry"} /\ fault' \in {"none", "raw keyboard"}
  BY <1>1 DEF IInv, TypeOK, Places
<1>5. QED
  BY <1>1, <1>2, <1>3, <1>4, MovesKeepIInv

(* What tasks do with interrupts on.                                       *)
LEMMA AcquireKeepsIInv ==
  ASSUME IInv, NEW t \in Tasks, acquire(t) \/ acquire_again(t)  PROVE IInv'
<1>1. cur = t /\ at[cur] # "entry" /\ (t # "kmain" \/ at[cur] # "run")
  BY Zenon DEF acquire, acquire_again, Runs, Created
<1>2. pc = 9
  BY <1>1, PathIsBooted
<1>3. PICK u \in Created : switch_to(u, "waiting")
  BY Zenon DEF acquire, acquire_again
<1>4. QED
  BY <1>1, <1>2, <1>3, SwitchKeepsIInv

LEMMA CreateKeepsIInv == ASSUME IInv, NEW t \in Tasks, ktask_create(t)  PROVE IInv'
<1>1. cur = "init" /\ at[cur] = "run" /\ at[t] = "none" /\ at' = [at EXCEPT ![t] = "fresh"]
  BY Zenon DEF ktask_create, Runs
<1>2. UNCHANGED <<pc, cur, frame, irr, isr, fault>> /\ (IF_on' <=> IF_on)
  BY Zenon DEF ktask_create, pic
<1>3. pc = 9
  BY <1>1, PathIsBooted
<1>4. TypeOK'
  BY <1>1, <1>2 DEF IInv, TypeOK, Places
<1>5. at'[cur'] = "run" /\ isr' = {}
      /\ \A u \in Tasks : u # cur' => at'[u] # "entry"
  BY <1>1, <1>2 DEF IInv, TypeOK, InService
<1>6. InService'
  BY <1>5, Zenon DEF InService
<1>7. BootAlone'
  BY <1>2, <1>3, StaysBooted
<1>8. QED
  BY <1>4, <1>6, <1>7 DEF IInv

LEMMA NextKeepsIInv == IInv /\ [Next]_vars => IInv'
<1> SUFFICES ASSUME IInv, [Next]_vars PROVE IInv'
  OBVIOUS
<1>1. CASE KeyRequest
  <2>1. UNCHANGED <<pc, cur, at, isr, frame, fault>> /\ (IF_on' <=> IF_on)
    BY <1>1, Zenon DEF KeyRequest, Request, cpu
  <2>2. irr' = irr \cup {1} /\ 1 \in Lines
    BY <1>1 DEF KeyRequest, Request
  <2>3. irr' \subseteq Lines
    BY <2>2 DEF IInv, TypeOK
  <2>4. QED
    BY <2>1, <2>3, OthersKeepIInv
<1>2. ASSUME NEW l \in Lines, DeviceRequest(l)  PROVE IInv'
  <2>1. UNCHANGED <<pc, cur, at, isr, frame, fault>> /\ (IF_on' <=> IF_on)
    BY <1>2, Zenon DEF DeviceRequest, Request, cpu
  <2>2. irr' \subseteq Lines
    BY <1>2 DEF DeviceRequest, Request, IInv, TypeOK
  <2>3. QED
    BY <2>1, <2>2, OthersKeepIInv
<1>3. ASSUME NEW l \in Lines, Interrupt(l)  PROVE IInv'
  BY <1>3, InterruptKeepsIInv
<1>4. ASSUME NEW t \in Tasks, TaskStep(t)  PROVE IInv'
  <2>1. CASE reschedule(t)
    <3>1. UNCHANGED <<pc, cur, at, isr, irr, frame, fault>> /\ (IF_on' <=> IF_on)
      BY <2>1, Zenon DEF reschedule, pic
    <3>2. irr' \subseteq Lines
      BY <3>1 DEF IInv, TypeOK
    <3>3. QED
      BY <3>1, <3>2, OthersKeepIInv
  <2>2. QED
    BY <1>4, <2>1, AcquireKeepsIInv, TrapKeepsIInv, CreateKeepsIInv, Zenon DEF TaskStep
<1>5. CASE construct_base \/ construct_members \/ UNCHANGED vars
  <2>1. cpu' = cpu /\ pic' = pic /\ fault' = fault
    BY <1>5 DEF construct_base, construct_members, vars
  <2>2. UNCHANGED <<pc, cur, at, isr, irr, frame, fault>> /\ IF_on' = IF_on
    BY <2>1 DEF cpu, pic
  <2>3. irr' \subseteq Lines /\ (IF_on' <=> IF_on)
    BY <2>2 DEF IInv, TypeOK
  <2>4. QED
    BY <2>2, <2>3, OthersKeepIInv
<1>6. QED
  BY <1>1, <1>2, <1>3, <1>4, <1>5, KmainKeepsIInv, EndKeepsIInv, HandleKeepsIInv,
     ScheduleKeepsIInv, LeaveKeepsIInv, Zenon DEF Next
-----------------------------------------------------------------------------
LEMMA SpecIInv == Spec => []IInv
  BY InitIInv, NextKeepsIInv, PTL DEF Spec

(* Interrupts are on only when no line is in service, for all lines,       *)
(* workers and requests: each stub ends its own interrupt on the           *)
(* controllers that wait for it, whatever schedule() and acquire switch    *)
(* to from behind that point, IRQ 14's stub with its neighbour's number    *)
(* included.                                                               *)
THEOREM InterruptsEnd == Spec => []InterruptsEndTheirOwn
<1>1. IInv => InterruptsEndTheirOwn
  BY Zenon DEF IInv, InService, InterruptsEndTheirOwn
<1>2. QED
  BY <1>1, SpecIInv, PTL

(* No interrupt, allocation or schedule() of boot and its tasks finds the  *)
(* table, the heap or the running task missing.                            *)
THEOREM BootIsOrdered == Spec => []BootOrder
<1>1. IInv => BootOrder
  BY DEF IInv, BootAlone
<1>2. QED
  BY <1>1, SpecIInv, PTL
=============================================================================
