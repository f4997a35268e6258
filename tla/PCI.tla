--------------------------------- MODULE PCI --------------------------------
(***************************************************************************)
(* The search of the PCI bus for a device of a class: PCIManager walks the *)
(* configuration space bus by bus, slot by slot, function by function.     *)
(*                                                                         *)
(* Configuration space is a function from addresses <<bus, slot,           *)
(* function>> to what answers there: a class, and bit 7 of the header      *)
(* type, "multiple", which a slot's function 0 sets when the slot has more *)
(* functions than that.                                                    *)
(***************************************************************************)
EXTENDS Integers

CONSTANTS Buses,      (* 0..7: what enumerate_devices can reach            *)
          Slots,      (* 0..31                                             *)
          Functions,  (* 0..7                                              *)
          Absent      (* no function answers: the vendor reads 0xffff      *)

ASSUME PCIAssumption ==
  \A S \in {Buses, Slots, Functions} : S \subseteq Nat /\ \E n \in S : S = 0..n

PCIGeoAddresses == Buses \X Slots \X Functions

(* PCIGeoAddress(), the address that stands for "not found".               *)
NotFound == <<0, 0, 0>>
target_found(address) == address # NotFound

(* The mask of bridges and that of slots with several functions is one.    *)
PCI_MULTIPLE_FUNCTION(header) == header = Absent \/ header.multiple
PCI_HEADER_TYPE_BRIDGE(header) == PCI_MULTIPLE_FUNCTION(header)

(* A slot whose function 0 is absent is skipped; one whose function 0 does *)
(* not claim more has only that.                                           *)
functions_of_slot(config, bus, slot) ==
  {f \in Functions : /\ config[<<bus, slot, 0>>] # Absent
                     /\ f = 0 \/ PCI_MULTIPLE_FUNCTION(config[<<bus, slot, 0>>])}

match(header, class) == header # Absent /\ ~PCI_HEADER_TYPE_BRIDGE(header) /\ header.class = class

(* Mutant: no function behind one that is missing is looked at.            *)
functions_until_gap(config, bus, slot, class) ==
  {<<bus, slot, f>> : f \in {g \in functions_of_slot(config, bus, slot) :
     /\ match(config[<<bus, slot, g>>], class)
     /\ \A h \in 0..g : config[<<bus, slot, h>>] # Absent}} \ {NotFound}

(* The first function of the class, if there is one that counts as found:  *)
(* a set of at most one address.                                           *)
enumerate_functions_in_slot(config, bus, slot, class) ==
  {<<bus, slot, f>> : f \in {g \in functions_of_slot(config, bus, slot) :
     /\ match(config[<<bus, slot, g>>], class)
     /\ \A h \in 0..g - 1 : ~match(config[<<bus, slot, h>>], class)}} \ {NotFound}

enumerate_slots_in_bus(config, bus, class) ==
  UNION {enumerate_functions_in_slot(config, bus, slot, class) : slot \in Slots}

(* One bus for each function of the host controller that answers; an       *)
(* absent controller reads 0xff and so counts as one with all functions.   *)
hosts(config) ==
  {i \in Buses : (i = 0 \/ PCI_MULTIPLE_FUNCTION(config[<<0, 0, 0>>])) /\ config[<<0, 0, i>>] # Absent}

(* What the search would come upon, bus by bus and slot by slot, if it did *)
(* not end at the first.                                                   *)
enumerate_devices(config, class) ==
  UNION {enumerate_slots_in_bus(config, i, class) : i \in hosts(config)}

find_device(config, class) ==
  LET found == enumerate_devices(config, class)
      before(a, b) == a[1] < b[1] \/ (a[1] = b[1] /\ a[2] <= b[2])
  IN  IF found = {} THEN NotFound ELSE CHOOSE a \in found : \A b \in found : before(a, b)
-----------------------------------------------------------------------------
(* What a machine's owner expects to be found: a function that answers in  *)
(* a slot, on the bus of a host controller.                                *)
Reachable(config, address) ==
  LET bus == address[1]  slot == address[2]  f == address[3] IN
  /\ config[address] # Absent
  /\ config[<<bus, slot, 0>>] # Absent
  /\ f = 0 \/ config[<<bus, slot, 0>>].multiple
  /\ config[<<0, 0, bus>>] # Absent
  /\ bus = 0 \/ config[<<0, 0, 0>>] = Absent \/ config[<<0, 0, 0>>].multiple

(* The class is missed at two kinds of place only: where 0:0.0, "not       *)
(* found", would be the answer, and at a function that has bit 7 set, such *)
(* as function 0 of a slot with several.                                   *)
Findable(config, class) ==
  \E a \in PCIGeoAddresses \ {NotFound} :
    Reachable(config, a) /\ config[a].class = class /\ ~config[a].multiple
=============================================================================
