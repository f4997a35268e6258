----------------------------- MODULE PATAChannel ----------------------------
(***************************************************************************)
(* The two IDE channels with up to two drives each: PATAChannel::init      *)
(* finds the drives, read_sectors reads from one by polling it.  A drive   *)
(* works on its own and shows what it does in its status.                  *)
(*                                                                         *)
(* A sector read is represented by its true number on the drive.  Sizes of *)
(* bytes and of the disk's geometry are parameters, so that every way to   *)
(* address a sector is within reach of a small disk.  All calls in the     *)
(* code read, without DMA: the branches that write are left out.           *)
(***************************************************************************)
EXTENDS PCI, SequencesExt, FiniteSetsExt

CONSTANTS Byte,             (* 256                                         *)
          Nibble,           (* 16: the head's part of HDDEVSEL             *)
          Heads,            (* 16                                          *)
          SectorsPerTrack,  (* 63                                          *)
          Machines,         (* the machines the code may run on            *)
          Null              (* the null pointer                            *)

Word == Byte * Byte * Byte * Byte
LBA28Limit == Nibble * Byte * Byte * Byte

Channels == {"PRIMARY", "SECONDARY"}
DriveTypes == 0..1   (* MASTER, SLAVE *)
Drives == Channels \X DriveTypes

(* PATADevice: the fields that the code reads.                             *)
Devices == [type : {"IDE_ATA", "IDE_ATAPI"}, size : 0..Word - 1, capabilities : BOOLEAN]

(* A drive that knows no linear addresses has no more sectors than there   *)
(* are cylinders, heads and sectors to name them by.                       *)
ASSUME PATAAssumption ==
  /\ Byte \in Nat \ {0} /\ Nibble \in 1..Byte - 1
  /\ Heads \in 1..Nibble /\ SectorsPerTrack \in 1..Byte - 1
  /\ \A m \in Machines : \A d \in Drives :
       LET drive == m.drive[d] IN
       /\ drive.kind \in {"none", "ata", "atapi", "other"}
       /\ drive.size \in 0..Word - 1 /\ drive.lba \in BOOLEAN
       /\ ~drive.lba => drive.size <= Heads * SectorsPerTrack * Byte * Byte
  /\ Null \notin Devices

VARIABLES
  machine,    (* configuration space, drives and what they hold: constant  *)
  devices,    (* PATAChannel::devices                                      *)
  ports,      (* what was last written to each port of a channel           *)
  status,     (* the status of each drive                                  *)
  job,        (* the command each drive works at, and the sectors left     *)
  pc,         (* where the task is                                         *)
  probed,     (* the drive init looks at                                   *)
  call,       (* the arguments of the current read                         *)
  buffer,     (* what was read into its buffer                             *)
  result,     (* what it returned                                          *)
  oversized   (* has a count been asked for that a byte cannot tell from 0?  *)

hardware == <<ports, status, job>>
request == <<call, buffer, result, oversized>>
pataVars == <<machine, devices, hardware, pc, probed, request>>

Drive(d) == machine.drive[d]
Present(d) == Drive(d).kind # "none"
-----------------------------------------------------------------------------
(* The registers                                                           *)

(* Registers 8 to 11 are written through the ports of 2 to 5.              *)
port(reg) ==
  CASE reg \in {"SECCOUNT0", "SECCOUNT1"} -> "count"
    [] reg \in {"LBA0", "LBA3"} -> "low"
    [] reg \in {"LBA1", "LBA4"} -> "mid"
    [] reg \in {"LBA2", "LBA5"} -> "high"
    [] OTHER -> reg

(* A drive keeps the last two bytes written to a port.                     *)
write_reg(p, reg, data) ==
  [p EXCEPT ![port(reg)] = [now |-> data, before |-> @.now]]

write_regs(p, writes) == FoldLeft(LAMBDA q, w : write_reg(q, w[1], w[2]), p, writes)

(* What the ports hold before anything is written to them.                 *)
Blank ==
  [r \in {"count", "low", "mid", "high", "HDDEVSEL"} |->
     LET zero == IF r = "HDDEVSEL" THEN [slave |-> 0, lba |-> FALSE, head |-> 0] ELSE 0
     IN  [now |-> zero, before |-> zero]]

Selected(ch) == <<ch, ports[ch]["HDDEVSEL"].now.slave>>
-----------------------------------------------------------------------------
(* The drives                                                              *)

(* How a drive reads its ports when it is told to read sectors.  A count   *)
(* of zero stands for all that the count could have been.                  *)
Addressed(p, ext) ==
  LET select == p["HDDEVSEL"].now
      low == p["low"]  mid == p["mid"]  high == p["high"]
      lba24 == low.now + Byte * mid.now + Byte * Byte * high.now
      count == p["count"].now + (IF ext THEN Byte * p["count"].before ELSE 0)
  IN  [cmd |-> IF ext THEN "READ_PIO_EXT" ELSE "READ_PIO",
       lba |-> IF ext THEN lba24 + Byte * Byte * Byte * low.before
               ELSE IF select.lba THEN lba24 + Byte * Byte * Byte * select.head
               ELSE (Heads * (mid.now + Byte * high.now) + select.head) * SectorsPerTrack
                      + low.now - 1,
       left |-> IF count # 0 THEN count ELSE IF ext THEN Byte * Byte ELSE Byte]

(* A drive that still has data to hand over ignores a command or aborts.   *)
Command(p, d, command) ==
  \/ /\ status[d] \cap {"BSY", "DRQ"} = {}
     /\ job' = [job EXCEPT ![d] = command]
     /\ status' = [status EXCEPT ![d] = {"BSY"}]
  \/ /\ status[d] \cap {"BSY", "DRQ"} # {}
     /\ \/ UNCHANGED <<job, status>>
        \/ job' = [job EXCEPT ![d].left = 0] /\ status' = [status EXCEPT ![d] = {"DRDY", "ERR"}]

(* The next status of a busy drive.                                        *)
Outcomes(d) ==
  LET drive == Drive(d)  cmd == job[d].cmd IN
  CASE cmd = "IDENTIFY" -> IF drive.kind = "ata" THEN {{"DRDY", "DRQ"}} ELSE {{"DRDY", "ERR"}}
    [] cmd = "IDENTIFY_PACKET" -> {{"DRDY", "DRQ"}}
    [] cmd \in {"READ_PIO", "READ_PIO_EXT"} ->
         IF job[d].lba >= drive.size \/ (cmd = "READ_PIO_EXT" /\ ~drive.ext)
         THEN {{"DRDY", "ERR"}}
         ELSE {{"DRDY", "DRQ"}}
                \cup (IF drive.faulty THEN {{"DRDY", "ERR"}, {"DRDY", "DF"}} ELSE {})
                \cup (IF cmd = "READ_PIO" /\ job[d].lba >= LBA28Limit THEN {{"DRDY", "ERR"}}
                      ELSE {})

Serve(d) ==
  /\ "BSY" \in status[d]
  /\ \E s \in Outcomes(d) : status' = [status EXCEPT ![d] = s]
  /\ UNCHANGED <<machine, devices, ports, job, pc, probed, request>>

(* The host took a sector, or the identification.                          *)
Handed(d) ==
  /\ job' = [job EXCEPT ![d].lba = @ + 1, ![d].left = @ - 1]
  /\ status' = [status EXCEPT ![d] = IF job[d].left > 1 THEN {"BSY"} ELSE {"DRDY"}]
-----------------------------------------------------------------------------
(* PATAChannel::init                                                       *)

Idle == [cmd |-> "none", lba |-> 0, left |-> 0]

(* A packet drive shows no status until its first command after a reset.   *)
PataInit ==
  /\ machine \in Machines
  /\ devices = [d \in Drives |-> Null]
  /\ ports = [ch \in Channels |-> Blank]
  /\ status \in {s \in [Drives -> {{}, {"DRDY"}}] :
                   \A d \in Drives : CASE Drive(d).kind = "none" -> s[d] = {}
                                       [] Drive(d).kind = "atapi" -> TRUE
                                       [] OTHER -> s[d] = {"DRDY"}}
  /\ job = [d \in Drives |-> Idle]
  /\ pc = "find"
  /\ probed = <<"PRIMARY", 0>>
  /\ call = [drive |-> <<"PRIMARY", 0>>, lba |-> 0, sector_num |-> 0, wanted |-> 0]
  /\ buffer = <<>>
  /\ result = 0
  /\ oversized = FALSE

find_controller ==
  /\ pc = "find"
  /\ pc' = IF target_found(find_device(machine.config, "ide")) THEN "probe" ELSE "panic"
  /\ UNCHANGED <<machine, devices, hardware, probed, request>>

after(d) ==
  CASE d = <<"PRIMARY", 0>> -> <<"PRIMARY", 1>>
    [] d = <<"PRIMARY", 1>> -> <<"SECONDARY", 0>>
    [] OTHER -> <<"SECONDARY", 1>>

next_drive(d) ==
  /\ probed' = after(d)
  /\ pc' = IF d = <<"SECONDARY", 1>> THEN "idle" ELSE "probe"

(* The drive is selected and told to identify itself, and its status read  *)
(* at once: it may still be that from before the command.                  *)
identify ==
  LET ch == probed[1]  j == probed[2] IN
  /\ pc = "probe"
  /\ ports' = [ports EXCEPT ![ch] =
                 write_reg(@, "HDDEVSEL", [slave |-> j, lba |-> FALSE, head |-> 0])]
  /\ IF Present(probed)
     THEN Command(ports'[ch], probed, [cmd |-> "IDENTIFY", lba |-> 0, left |-> 1])
     ELSE UNCHANGED <<job, status>>
  /\ \E seen \in {status[probed], status'[probed]} :
       IF seen = {} THEN next_drive(probed) ELSE pc' = "identify" /\ UNCHANGED probed
  /\ UNCHANGED <<machine, devices, request>>

Device(d, type) ==
  [type |-> type, size |-> Drive(d).size, capabilities |-> Drive(d).lba]

(* Mutant: an error does not end the wait.                                 *)
wait_for_data ==
  /\ pc = "identify"
  /\ "BSY" \notin status[probed] /\ "DRQ" \in status[probed]
  /\ devices' = [devices EXCEPT ![probed] = Device(probed, "IDE_ATA")]
  /\ Handed(probed)
  /\ next_drive(probed)
  /\ UNCHANGED <<machine, ports, request>>

(* while (true): the identification of an ATA drive, or an error, which    *)
(* may come from a packet drive.  That one's identification is read        *)
(* without waiting for it.                                                 *)
identified ==
  /\ pc = "identify"
  /\ UNCHANGED <<machine, ports, request>>
  /\ next_drive(probed)
  /\ \/ /\ "ERR" \notin status[probed]
        /\ "BSY" \notin status[probed] /\ "DRQ" \in status[probed]
        /\ devices' = [devices EXCEPT ![probed] = Device(probed, "IDE_ATA")]
        /\ Handed(probed)
     \/ /\ "ERR" \in status[probed]
        /\ Drive(probed).kind = "atapi"
        /\ devices' = [devices EXCEPT ![probed] = Device(probed, "IDE_ATAPI")]
        /\ job' = [job EXCEPT ![probed] = [cmd |-> "IDENTIFY_PACKET", lba |-> 0, left |-> 1]]
        /\ status' \in {[status EXCEPT ![probed] = s] : s \in {{"BSY"}, {"DRDY"}}}
     \/ /\ "ERR" \in status[probed]
        /\ Drive(probed).kind # "atapi"
        /\ UNCHANGED <<devices, job, status>>
-----------------------------------------------------------------------------
(* read_sectors and ata_access                                             *)

Return(r) == pc' = "idle" /\ result' = r

(* PATAHardDisk::block_read, PATADevice::read_sectors and read_sectors: the *)
(* count is cut to a byte, and the sum wraps as words do.  Without a drive  *)
(* the code follows a null pointer.                                         *)
block_read(d, from, count) ==
  LET lba == from % Word
      sector_num == count % Byte
      device == devices[d]
  IN
  /\ pc = "idle"
  /\ call' = [drive |-> d, lba |-> lba, sector_num |-> sector_num, wanted |-> count]
  /\ buffer' = <<>>
  /\ oversized' = (oversized \/ count \notin 1..Byte - 1)
  /\ CASE device = Null -> pc' = "undefined" /\ UNCHANGED result
       [] device # Null /\ device.type = "IDE_ATAPI" -> Return(0)
       [] device # Null /\ device.type = "IDE_ATA" ->
            IF (lba + sector_num) % Word > device.size THEN Return(-2)
            ELSE pc' = "busy" /\ UNCHANGED result
  /\ UNCHANGED <<machine, devices, hardware, probed>>

lba_mode(d, lba) ==
  IF lba >= LBA28Limit THEN "LBA48" ELSE IF devices[d].capabilities THEN "LBA28" ELSE "CHS"

(* Mutant: the old byte of the count is written behind the new one.        *)
parameters_reordered(d, lba, sector_num) ==
  <<<<"SECCOUNT0", sector_num>>, <<"SECCOUNT1", 0>>, <<"LBA3", lba \div (Byte * Byte * Byte)>>,
    <<"LBA0", lba % Byte>>, <<"LBA1", (lba \div Byte) % Byte>>,
    <<"LBA2", (lba \div (Byte * Byte)) % Byte>>,
    <<"HDDEVSEL", [slave |-> d[2], lba |-> TRUE, head |-> 0]>>>>

(* The bytes written, in their order.  Only LBA48 writes registers 8 to 11. *)
parameters(d, lba, sector_num) ==
  LET mode == lba_mode(d, lba)
      sector == (lba % SectorsPerTrack) + 1
      track == ((lba + 1) - sector) \div SectorsPerTrack
      cyl == (track \div Heads) % (Byte * Byte)
      head == CASE mode = "CHS" -> track % Heads
                [] mode = "LBA28" -> lba \div (Byte * Byte * Byte)
                [] mode = "LBA48" -> 0
      io == IF mode = "CHS" THEN <<sector, cyl % Byte, cyl \div Byte>>
            ELSE <<lba % Byte, (lba \div Byte) % Byte, (lba \div (Byte * Byte)) % Byte>>
  IN  <<<<"HDDEVSEL", [slave |-> d[2], lba |-> mode # "CHS", head |-> head]>>>>
      \o (IF mode = "LBA48"
          THEN <<<<"SECCOUNT1", 0>>, <<"LBA3", lba \div (Byte * Byte * Byte)>>,
                 <<"LBA4", 0>>, <<"LBA5", 0>>>>
          ELSE <<>>)
      \o <<<<"SECCOUNT0", sector_num>>, <<"LBA0", io[1]>>, <<"LBA1", io[2]>>, <<"LBA2", io[3]>>>>

(* As soon as the drive selected last is not busy.  No sectors, no polling. *)
ata_access ==
  LET d == call.drive  ch == d[1]
      ext == lba_mode(d, call.lba) = "LBA48"
  IN
  /\ pc = "busy"
  /\ "BSY" \notin status[Selected(ch)]
  /\ ports' = [ports EXCEPT ![ch] = write_regs(@, parameters(d, call.lba, call.sector_num))]
  /\ Command(ports'[ch], d, Addressed(ports'[ch], ext))
  /\ IF call.sector_num = 0 THEN Return(0) ELSE pc' = "poll" /\ UNCHANGED result
  /\ UNCHANGED <<machine, devices, probed, call, buffer, oversized>>

polling(s) ==
  CASE "ERR" \in s -> 2
    [] "ERR" \notin s /\ "DF" \in s -> 1
    [] s \cap {"ERR", "DF", "DRQ"} = {} -> 3
    [] OTHER -> 0

(* One turn of the loop over the sectors.                                  *)
read_sector ==
  LET d == call.drive  err == polling(status[d]) IN
  /\ pc = "poll"
  /\ "BSY" \notin status[d]
  /\ \/ /\ err # 0
        /\ Return(err)
        /\ UNCHANGED <<buffer, job, status>>
     \/ /\ err = 0
        /\ buffer' = Append(buffer, job[d].lba)
        /\ Handed(d)
        /\ IF Len(buffer') = call.sector_num THEN Return(0) ELSE UNCHANGED <<pc, result>>
  /\ UNCHANGED <<machine, devices, ports, probed, call, oversized>>

ChannelStep == find_controller \/ identify \/ identified \/ ata_access \/ read_sector
DriveStep == \E d \in Drives : Serve(d)
-----------------------------------------------------------------------------
(* init finds every ATA drive, wherever it is attached, and takes nothing  *)
(* else for one; it gives up only where no controller can be found.        *)
InitFindsDrives ==
  /\ pc = "panic" => ~Findable(machine.config, "ide")
  /\ pc \in {"idle", "busy", "poll"} =>
       \A d \in Drives :
         (devices[d] # Null /\ devices[d].type = "IDE_ATA") <=> Drive(d).kind = "ata"

(* A read that reports success has filled its buffer with the very sectors *)
(* asked for, in order, whichever way they are addressed and whatever      *)
(* became of the reads before: on an ATA drive, and unless no sector, or   *)
(* 256 or more, were ever asked for at once.                               *)
ReadsAreFaithful ==
  pc = "idle" /\ result = 0 /\ ~oversized
    /\ Drive(call.drive).kind = "ata" /\ devices[call.drive] # Null =>
       buffer = [k \in 1..call.wanted |-> call.lba + k - 1]
=============================================================================
