------------------------------- MODULE Ext2FS -------------------------------
(***************************************************************************)
(* Ext2FS on the disk of PATAChannel: the constructor reads the super      *)
(* block and the group descriptors, get_inode an inode, and traverse_dir   *)
(* prints the names below a directory.                                     *)
(*                                                                         *)
(* An image is what a disk holds, at the places the disk's sectors tell.   *)
(* The code's one caller, in IdleProcess.cpp, mounts the master drive of   *)
(* the secondary channel and traverses its root.  On other machines the    *)
(* disks are read sector by sector, the other use of their interface.      *)
(***************************************************************************)
EXTENDS PATAChannel

CONSTANTS Requests,       (* reads, as <<drive, first sector, number>>       *)
          MaxReads,       (* bound: reads made of a machine's disks          *)
          DescsPerSector, (* 16: group descriptors in a sector               *)
          AddressSpace,   (* 2^32 bytes, in sectors                          *)
          StackFrames     (* calls of traverse_dir that fit on the stack     *)

Entries == [name : STRING, inode : Nat, long : BOOLEAN]

(* What every disk that is looked at as an ext2 file system has in it.     *)
IsImage(i) ==
  /\ {i.block, i.ipg, i.ipb} \subseteq Nat \ {0} /\ i.groups \in Nat
  /\ i.table \in [0..i.groups - 1 -> Nat]
  /\ \A n \in DOMAIN i.inodes :
       {i.inodes[n].first, i.inodes[n].blocks} \subseteq Nat /\ i.inodes[n].entries \in Seq(Entries)

ASSUME Ext2Assumption ==
  /\ Requests \subseteq Drives \X Nat \X Nat
  /\ {DescsPerSector, AddressSpace} \subseteq Nat \ {0}
  /\ \A m \in Machines : IsImage(m.image)

VARIABLE fs   (* where the file system's user is; its calls and its output   *)

vars == <<pataVars, fs>>

Image == machine.image
Disk == <<"SECONDARY", 0>>
EXT2_ROOT_INO == 2
BufferSectors == 2   (* 1024 bytes: the buffers of get_inode, traverse_dir   *)

ceil_divide(a, b) == (a + b - 1) \div b

Init ==
  /\ PataInit
  /\ fs = [at |-> "mount", load |-> EXT2_ROOT_INO, known |-> 0, stack |-> <<>>,
           names |-> <<>>, reads |-> 0]

At(place) == machine.user = "ext2" /\ pc = "idle" /\ fs.at = place

(* The product of blocks and their size is a number of bytes, 32 bits wide. *)
fs_block_read(from, count) ==
  block_read(Disk, (from * Image.block) % AddressSpace, count * Image.block)

(* Did the last read fill its buffer with what the disk has there?         *)
Filled == result = 0 /\ buffer = [k \in 1..call.wanted |-> call.lba + k - 1]
-----------------------------------------------------------------------------
(* Ext2FS::Ext2FS                                                          *)

read_super ==
  /\ At("mount")
  /\ block_read(Disk, 2, 2)
  /\ fs' = [fs EXCEPT !.at = "super"]

(* The errors of the drive are positive and go unseen.  What is used of the *)
(* super block lies in its first sector, and is zero where none was read.   *)
read_bgdt ==
  LET count == ceil_divide(Image.groups, DescsPerSector * Image.block) IN
  /\ At("super")
  /\ IF result < 0 \/ buffer = <<>> \/ ~Image.magic
     THEN fs' = [fs EXCEPT !.at = "panic"] /\ UNCHANGED pataVars
     ELSE /\ fs_block_read(IF Image.block = 2 THEN 2 ELSE 1, count)
          /\ fs' = [fs EXCEPT !.at = "bgdt"]

copy_bgdt ==
  /\ At("bgdt")
  /\ fs' = [fs EXCEPT !.at = "get_inode",
                      !.known = Min({Len(buffer) * DescsPerSector, Image.groups})]
  /\ UNCHANGED pataVars
-----------------------------------------------------------------------------
(* get_inode                                                               *)

undefined == fs' = [fs EXCEPT !.at = "undefined"] /\ UNCHANGED pataVars

table_index(index) == (index - 1) % Image.ipg

(* The block is counted from the index where it should be from table_index. *)
containing_block(index) == Image.table[(index - 1) \div Image.ipg] + index \div Image.ipb

(* The index of a deleted entry is 0 and that of its group out of bounds.  *)
get_inode ==
  /\ At("get_inode")
  /\ IF fs.load = 0 \/ (fs.load - 1) \div Image.ipg >= fs.known
     THEN undefined
     ELSE fs_block_read(containing_block(fs.load), 1) /\ fs' = [fs EXCEPT !.at = "inode"]

(* The inode that lies at a place of a block; an image has no other there. *)
InodeAt(block, slot) ==
  {i \in DOMAIN Image.inodes :
     /\ Image.table[(i - 1) \div Image.ipg] + table_index(i) \div Image.ipb = block
     /\ table_index(i) % Image.ipb = slot}

Found == InodeAt(call.lba \div Image.block, table_index(fs.load) % Image.ipb)

Frame(inode) == [inode |-> inode, i |-> 0, count |-> 0, entry |-> 1]

(* A block longer than the buffer, or one that was not read, or the call   *)
(* that does not fit on the stack any more, has any effect.  What is no    *)
(* directory is returned from at once.                                     *)
traverse_dir ==
  /\ At("inode")
  /\ IF Image.block > BufferSectors \/ ~Filled \/ Found = {} \/ Len(fs.stack) = StackFrames
     THEN undefined
     ELSE LET inode == CHOOSE i \in Found : TRUE IN
          /\ fs' = IF Image.inodes[inode].dir
                   THEN [fs EXCEPT !.at = "block", !.stack = Append(@, Frame(inode))]
                   ELSE [fs EXCEPT !.at = IF fs.stack = <<>> THEN "listed" ELSE "entry"]
          /\ UNCHANGED pataVars
-----------------------------------------------------------------------------
(* The loops of traverse_dir                                               *)

Top == Last(fs.stack)
WithTop(frame) == [fs.stack EXCEPT ![Len(fs.stack)] = frame]

(* Whichever the block of the directory, the first one is read.            *)
read_block ==
  /\ At("block")
  /\ IF Top.i < Image.inodes[Top.inode].blocks
     THEN /\ fs_block_read(Image.inodes[Top.inode].first, 1)
          /\ fs' = [fs EXCEPT !.at = "read"]
     ELSE /\ fs' = [fs EXCEPT !.stack = Front(@),
                              !.at = IF Len(fs.stack) = 1 THEN "listed" ELSE "entry"]
          /\ UNCHANGED pataVars

use_block ==
  /\ At("read")
  /\ IF Filled /\ call.lba = Image.inodes[Top.inode].first * Image.block
     THEN fs' = [fs EXCEPT !.at = "entry"] /\ UNCHANGED pataVars
     ELSE undefined

(* Mutant: one entry too many is taken for the directory or its parent.    *)
descends_late(count) == count >= 3

(* The first two entries are the directory itself and its parent.          *)
descends(count) == count >= 2

(* A name and its line must fit kprint's buffer of 256 bytes.              *)
print_entry ==
  LET entries == Image.inodes[Top.inode].entries
      entry == entries[Top.entry]
  IN
  /\ At("entry")
  /\ IF Top.entry > Len(entries)
     THEN fs' = [fs EXCEPT !.at = "block", !.stack = WithTop([Top EXCEPT !.i = @ + 1, !.entry = 1])]
          /\ UNCHANGED pataVars
     ELSE IF entry.long THEN undefined
     ELSE /\ fs' = [fs EXCEPT
               !.names = Append(@, entry.name),
               !.load = entry.inode,
               !.at = IF descends(Top.count) THEN "get_inode" ELSE "entry",
               !.stack = WithTop([Top EXCEPT !.entry = @ + 1, !.count = @ + 1])]
          /\ UNCHANGED pataVars
-----------------------------------------------------------------------------
read_sectors ==
  /\ machine.user = "sectors" /\ pc = "idle"
  /\ fs.reads < MaxReads
  /\ \E r \in Requests : block_read(r[1], r[2], r[3])
  /\ fs' = [fs EXCEPT !.reads = @ + 1]

FSStep ==
  \/ read_super \/ read_bgdt \/ copy_bgdt \/ get_inode \/ traverse_dir
  \/ read_block \/ use_block \/ print_entry \/ read_sectors

TaskStep == (ChannelStep /\ UNCHANGED fs) \/ FSStep
Next == TaskStep \/ (DriveStep /\ UNCHANGED fs)

(* The task runs on, and a drive ends what it was told to do.              *)
Fairness ==
  WF_vars(TaskStep) /\ \A d \in Drives : WF_vars(Serve(d) /\ UNCHANGED fs)
Spec == Init /\ [][Next]_vars /\ Fairness
-----------------------------------------------------------------------------
(* init, a read or a traversal comes to its end, whatever is attached to    *)
(* the channels and whichever error a drive reports: no loop that waits     *)
(* for a status waits for one that does not come.                           *)
CommandsEnd == pc \notin {"idle", "panic", "undefined"} ~> pc \in {"idle", "panic", "undefined"}

(* The disks the code can list: at most 4 GB with blocks of 1024 bytes,     *)
(* inodes of the first group that are not the last of their block,          *)
(* directories of one block, no deeper than the stack, short names, no      *)
(* deleted entries, and descriptors that a byte's worth of sectors holds.   *)
Benign ==
  LET drive == Drive(Disk)
      holds(block) == (block + 1) * Image.block <= drive.size
  IN
  /\ machine.user = "ext2"
  /\ drive.kind = "ata" /\ ~drive.faulty /\ drive.size <= AddressSpace
  /\ Image.magic /\ Image.block = BufferSectors /\ Image.depth <= StackFrames
  /\ ceil_divide(Image.groups, DescsPerSector * Image.block) * Image.block < Byte
  /\ holds(containing_block(Image.ipg))
  /\ \A i \in DOMAIN Image.inodes :
       /\ i <= Image.ipg /\ i % Image.ipb # 0
       /\ Image.inodes[i].dir => Image.inodes[i].blocks = 1 /\ holds(Image.inodes[i].first)
       /\ \A e \in Range(Image.inodes[i].entries) : ~e.long /\ e.inode \in DOMAIN Image.inodes

(* The names below each directory, from the image itself: an entry's name,  *)
(* then, behind the first two entries, all that is below it.                *)
Listing ==
  LET below[n \in 0..Image.depth] ==
        [i \in DOMAIN Image.inodes |->
           IF n = 0 \/ ~Image.inodes[i].dir THEN <<>>
           ELSE LET entries == Image.inodes[i].entries
                    part(k) == <<entries[k].name>>
                               \o (IF k <= 2 THEN <<>> ELSE below[n - 1][entries[k].inode])
                IN  FlattenSeq([k \in 1..Len(entries) |-> part(k)])]
  IN  below[Image.depth][EXT2_ROOT_INO]

(* A disk the code can list is listed in full: every name below the root,   *)
(* once and in order, none left out or printed twice, though every          *)
(* directory keeps its place while those below it are read.                 *)
ListingIsComplete ==
  Benign /\ pc \notin {"find", "panic"} =>
    /\ pc # "undefined" /\ fs.at \notin {"undefined", "panic"}
    /\ IsPrefix(fs.names, Listing)
    /\ fs.at = "listed" => fs.names = Listing
=============================================================================
