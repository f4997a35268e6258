------------------------------ MODULE Keyboard ------------------------------
(***************************************************************************)
(* The keyboard driver between the keyboard, whose bytes arrive one        *)
(* interrupt each, and the init task, which takes decoded keys out of the  *)
(* driver's queue with interrupts off (Spinlock) and uses them.            *)
(*                                                                         *)
(* A key is a member of one of the sets below; a byte of the wire says     *)
(* which key and whether it went down ("make") or up, or is the 0xe0 that  *)
(* precedes the byte of an extended key.  0xe0 also precedes the bytes of  *)
(* a fake shift: around a grey key, and PrintScreen, the keyboard sends    *)
(* the code of a shift key nobody moved, so that a driver without extended *)
(* keys takes the grey key for its twin on the number pad.  This driver    *)
(* drops 0xe0 and takes a fake shift for the key.  A byte may be lost on   *)
(* its way, as when the keyboard's own buffer overruns.                    *)
(***************************************************************************)
EXTENDS CircularQueue, Integers

CONSTANTS ShiftKeys,     (* left and right shift                           *)
          CtrlKeys,      (* control keys; the alt keys act like them       *)
          CharKeys,      (* keys with an entry in the tables               *)
          BeyondKeys,    (* codes past the end of key_type_map             *)
          ExtendedKeys,  (* those of the above that 0xe0 precedes          *)
          Prefix,        (* the byte 0xe0                                  *)
          MaxCounts,     (* the max_count arguments of get_keys; 1 is      *)
                         (* get_key                                        *)
          WireSize,      (* bound on the bytes under way                   *)
          MaxEvents      (* bound on the times a key goes down or up       *)

Keys == ShiftKeys \cup CtrlKeys \cup CharKeys \cup BeyondKeys

(* Without its 0xe0 a shift's code is no other key's (a fake shift's is    *)
(* the shift's, see FakeShift), and no code is 0xe0.                       *)
ASSUME KeyboardAssumption ==
  /\ ShiftKeys \cap (CtrlKeys \cup CharKeys \cup BeyondKeys) = {}
  /\ Prefix \notin [key : Keys, make : BOOLEAN, nr : Nat, shift : BOOLEAN]
  /\ MaxEvents \in Nat

(* The bits of modifiers_; "junk" is any bit the driver has no name for.   *)
Masks == {"SHIFT", "CTRL", "CMD", "junk"}

VARIABLES
  modifiers_,  (* Keyboard::modifiers_                                     *)
  irq_on,      (* the processor's interrupt flag, as the init task runs    *)
  irq_state,   (* Spinlock::irq_state                                      *)
  at,          (* where the init task is in get_keys, or "use" behind it   *)
  max_count,   (* the argument of its current call                         *)
  buffer,      (* the array get_keys fills                                 *)
  used,        (* the keys the init task has used, in order                *)
  wire,        (* bytes the keyboard has sent and the driver not read      *)
  held,        (* the keys that are down                                   *)
  fake,        (* whether a fake shift stands in for one: it was sent when *)
               (* no shift key was down, and no shift code since           *)
  events,      (* how often the keyboard sent a key's code                 *)
  synced       (* whether the driver has read a shift's code, and none was *)
               (* lost since                                               *)

reader == <<irq_on, irq_state, at, max_count, buffer, used>>
typist == <<held, fake, events>>
vars == <<queue_, modifiers_, reader, wire, typist, synced>>
-----------------------------------------------------------------------------
(* Keyboard() leaves modifiers_ uninitialised.                             *)
Init ==
  /\ QueueInit
  /\ modifiers_ \in SUBSET Masks
  /\ irq_on = TRUE
  /\ irq_state = FALSE
  /\ at = "spin"
  /\ max_count \in MaxCounts
  /\ buffer = <<>>
  /\ used = <<>>
  /\ wire = <<>>
  /\ held = {}
  /\ fake = FALSE
  /\ events = 0
  /\ synced = FALSE

-----------------------------------------------------------------------------
(* The keyboard and its user                                               *)

ShiftDown == held \cap ShiftKeys # {} \/ fake

Byte(k, make) == [key |-> k, make |-> make, nr |-> events, shift |-> ShiftDown']

Send(k, make, prefix) ==
  /\ events < MaxEvents
  /\ Len(wire) < WireSize
  /\ events' = events + 1
  /\ wire' = wire \o prefix \o <<Byte(k, make)>>
  /\ UNCHANGED <<queue_, modifiers_, reader, synced>>

SendKey(k, make) ==
  /\ fake' = (fake /\ k \notin ShiftKeys)
  /\ Send(k, make, IF k \in ExtendedKeys THEN <<Prefix>> ELSE <<>>)

(* A key goes down, or repeats while it is.                                *)
KeyDown(k) == held' = held \cup {k} /\ SendKey(k, TRUE)

KeyUp(k) == k \in held /\ held' = held \ {k} /\ SendKey(k, FALSE)

(* A fake shift pretends that k is down, or gives a k that is down back to *)
(* the driver after a fake one took it away; or it takes either away.      *)
FakeShift(k, make) ==
  /\ make => k \in held \/ held \cap ShiftKeys = {}
  /\ fake' = (make /\ held \cap ShiftKeys = {})
  /\ UNCHANGED held
  /\ Send(k, make, <<Prefix>>)

IsShift(b) == b # Prefix /\ b.key \in ShiftKeys

(* A byte is lost before the driver reads it.                              *)
LoseByte ==
  /\ wire # <<>>
  /\ wire' = Tail(wire)
  /\ synced' = (synced /\ ~IsShift(Head(wire)))
  /\ UNCHANGED <<queue_, modifiers_, reader, typist>>
-----------------------------------------------------------------------------
(* The interrupt handler                                                   *)

(* Mutant: every byte of a modifier toggles its bit.                       *)
mask_toggle(make, m) ==
  IF m \in modifiers_ THEN modifiers_ \ {m} ELSE modifiers_ \cup {m}

change_mask(make, m) == IF make THEN modifiers_ \cup {m} ELSE modifiers_ \ {m}

(* key_type_map has no entry for the codes beyond it: what is_modifier     *)
(* reads there decides whether such a key counts as a modifier.            *)
is_modifier(k) ==
  IF k \in BeyondKeys THEN BOOLEAN ELSE {k \in ShiftKeys \cup CtrlKeys}

mask(k) ==
  CASE k \in ShiftKeys -> "SHIFT" [] k \in CtrlKeys -> "CTRL" [] OTHER -> "CMD"

ascii ==
  CASE modifiers_ = {"SHIFT"} -> "shifted" [] modifiers_ = {} -> "plain" [] OTHER -> "none"

(* A queued key: its place in the typing, its character, and whether that  *)
(* may be the shifted one.                                                 *)
Combination(b) == [nr |-> b.nr, ascii |-> ascii, may_shift |-> b.shift \/ ~synced]

handle_irq ==
  /\ irq_on
  /\ wire # <<>>
  /\ wire' = Tail(wire)
  /\ LET b == Head(wire) IN
       \/ b = Prefix /\ UNCHANGED <<queue_, modifiers_, synced>>
       \/ /\ b # Prefix /\ TRUE \in is_modifier(b.key)
          /\ modifiers_' = change_mask(b.make, mask(b.key))
          /\ synced' = (synced \/ IsShift(b))
          /\ UNCHANGED queue_
       \/ /\ b # Prefix /\ FALSE \in is_modifier(b.key) /\ ~b.make
          /\ UNCHANGED <<queue_, modifiers_, synced>>
       \/ /\ b # Prefix /\ FALSE \in is_modifier(b.key) /\ b.make
          /\ enqueue(Combination(b))
          /\ UNCHANGED <<modifiers_, synced>>
  /\ UNCHANGED <<reader, typist>>
-----------------------------------------------------------------------------
(* get_keys, called by the init task in a loop                             *)

keyboard == <<modifiers_, wire, typist, synced>>

(* while (queue_.empty());                                                 *)
get_keys_spin ==
  /\ at = "spin"
  /\ size_ # 0
  /\ at' = "lock"
  /\ UNCHANGED <<queue_, irq_on, irq_state, max_count, buffer, used, keyboard>>

(* acquire(), and the second test for an empty queue.                      *)
get_keys_lock ==
  /\ at = "lock"
  /\ irq_state' = irq_on
  /\ irq_on' = FALSE
  /\ at' = IF size_ = 0 THEN "spin" ELSE "drain"
  /\ UNCHANGED <<queue_, max_count, buffer, used, keyboard>>

(* Mutant: the last place of the buffer is kept free.                      *)
may_drain_less_one(n) == size_ # 0 /\ n < max_count - 1

may_drain(n) == size_ # 0 /\ n < max_count

get_keys_drain ==
  /\ at = "drain"
  /\ may_drain(Len(buffer))
  /\ buffer' = Append(buffer, front)
  /\ dequeue
  /\ UNCHANGED <<irq_on, irq_state, at, max_count, used, keyboard>>

(* Mutant: release() is missing.                                           *)
release_missing == UNCHANGED irq_on

release == irq_on' = irq_state

get_keys_return ==
  /\ at = "drain"
  /\ ~may_drain(Len(buffer))
  /\ release
  /\ at' = "use"
  /\ UNCHANGED <<queue_, irq_state, max_count, buffer, used, keyboard>>

(* The loop over the keys returned, and the next call.                     *)
use_key ==
  /\ at = "use"
  /\ buffer # <<>>
  /\ used' = Append(used, Head(buffer))
  /\ buffer' = Tail(buffer)
  /\ UNCHANGED <<queue_, irq_on, irq_state, at, max_count, keyboard>>

call_get_keys ==
  /\ at = "use"
  /\ buffer = <<>>
  /\ at' = "spin"
  /\ max_count' \in MaxCounts
  /\ UNCHANGED <<queue_, irq_on, irq_state, buffer, used, keyboard>>

init_task ==
  \/ get_keys_spin \/ get_keys_lock \/ get_keys_drain \/ get_keys_return
  \/ use_key \/ call_get_keys

Next ==
  \/ handle_irq \/ init_task \/ LoseByte
  \/ \E k \in Keys : KeyDown(k) \/ KeyUp(k)
  \/ \E k \in ShiftKeys, make \in BOOLEAN : FakeShift(k, make)

(* The controllers keep an interrupt request until it is served, and the   *)
(* scheduler lets the init task run.  Nobody has to press a key.           *)
Spec == Init /\ [][Next]_vars /\ WF_vars(handle_irq) /\ WF_vars(init_task)
-----------------------------------------------------------------------------
(* Keys on their way from the interrupt handler to their use, oldest first.*)
Stream == used \o buffer \o Contents

(* Keys are used in the order they were typed, none twice, and no slot is  *)
(* read that holds no key, wherever interrupts fall in get_keys.           *)
KeysInOrder ==
  \A i, j \in 1..Len(Stream) : i < j => Stream[i].nr < Stream[j].nr

(* Once the driver has read a shift's code, and until one is lost, a key   *)
(* gets its shifted character only if a shift key was down when it was     *)
(* typed, or a fake shift that the keyboard had not taken back: no other   *)
(* loss, no order of real and fake shifts and no other key leaves a shift  *)
(* behind.                                                                 *)
NoPhantomShift ==
  \A i \in 1..Len(Stream) : Stream[i].ascii = "shifted" => Stream[i].may_shift

(* The driver's queue under interrupts is a bounded FIFO.                  *)
Fifo == INSTANCE BoundedFifo WITH Capacity <- capacity_, items <- Contents

ImplementsFifo == Fifo!Spec

(* get_keys never leaves interrupts off: not even between its two tests.   *)
InterruptsComeBack == []<>irq_on

(* A key that was queued is used.                                          *)
KeysAreUsed ==
  \A n \in 0..MaxEvents - 1 :
    (\E i \in 1..Len(Stream) : Stream[i].nr = n)
      ~> (\E i \in 1..Len(used) : used[i].nr = n)
=============================================================================
