-------------------------------- MODULE MCDisk ------------------------------
EXTENDS Ext2FS

HostOf(multiple) == [class |-> "host", multiple |-> multiple]
IDE == [class |-> "ide", multiple |-> FALSE]
Other(multiple) == [class |-> "other", multiple |-> multiple]

Config(host, second, slot, behind) ==
  [a \in PCIGeoAddresses |->
     CASE a = <<0, 0, 0>> -> host
       [] a = <<0, 0, 1>> -> second
       [] a[1] = 0 /\ a[2] = 1 -> slot[a[3]]
       [] a = <<1, 1, 0>> -> behind
       [] OTHER -> Absent]

Plain == Config(HostOf(FALSE), Absent, [f \in Functions |-> IF f = 0 THEN Other(TRUE) ELSE IDE], Absent)
Configs ==
  {Config(host, second, slot, behind) :
     host \in {Absent, HostOf(FALSE), HostOf(TRUE)},
     second \in {Absent, HostOf(FALSE), IDE},
     slot \in [Functions -> {Absent, IDE, Other(FALSE), Other(TRUE)}],
     behind \in {Absent, IDE}}

DriveOf(kind, size, lba, ext, faulty) ==
  [kind |-> kind, size |-> size, lba |-> lba, ext |-> ext, faulty |-> faulty]
NoDrive == DriveOf("none", 0, FALSE, FALSE, FALSE)
Big == DriveOf("ata", LBA28Limit + 4, TRUE, TRUE, FALSE)
Small == DriveOf("ata", 60, TRUE, FALSE, FALSE)
Faulty == DriveOf("ata", 60, TRUE, FALSE, TRUE)
Old == DriveOf("ata", 60, FALSE, FALSE, FALSE)
CD == DriveOf("atapi", 0, TRUE, FALSE, FALSE)
Unknown == DriveOf("other", 0, FALSE, FALSE, FALSE)

Attached(a, b, c, d) ==
  (<<"PRIMARY", 0>> :> a) @@ (<<"PRIMARY", 1>> :> b) @@
  (<<"SECONDARY", 0>> :> c) @@ (<<"SECONDARY", 1>> :> d)

Entry(name, inode) == [name |-> name, inode |-> inode, long |-> FALSE]
Dir(first, blocks, entries) == [dir |-> TRUE, first |-> first, blocks |-> blocks, entries |-> entries]
File == [dir |-> FALSE, first |-> 0, blocks |-> 0, entries |-> <<>>]
Dots(i, parent) == <<Entry(".", i), Entry("..", parent)>>

(* The root holds a directory with two files, a file and a directory.       *)
Tree ==
  [i \in {2, 3, 5, 6, 7, 9} |->
     CASE i = 2 -> Dir(15, 1, Dots(2, 2) \o <<Entry("d", 5), Entry("a", 3), Entry("e", 9)>>)
       [] i = 5 -> Dir(16, 1, Dots(5, 2) \o <<Entry("b", 6), Entry("c", 7)>>)
       [] i = 9 -> Dir(17, 1, Dots(9, 2))
       [] OTHER -> File]
ImageOf(block, inodes, depth, groups) ==
  [magic |-> TRUE, block |-> block, groups |-> groups, ipg |-> 12, ipb |-> 4,
   table |-> [g \in 0..groups - 1 |-> IF g = 0 THEN 8 ELSE 20], inodes |-> inodes, depth |-> depth]
TreeImage == ImageOf(2, Tree, 3, 1)

(* What the code gets wrong: an inode at the end of a block, one of another *)
(* group, a block of 2048 bytes, a directory of two blocks, a deep one, a   *)
(* deleted entry, a long name, and descriptors for 256 sectors or more: here *)
(* 8, of two each.                                                          *)
Rooted(entry) == [Tree EXCEPT ![2].entries = Dots(2, 2) \o <<entry>>]
Images ==
  {TreeImage, [TreeImage EXCEPT !.magic = FALSE], ImageOf(4, Tree, 3, 1),
   ImageOf(2, Tree, 3, 12), ImageOf(2, Tree, 3, 16), ImageOf(2, Tree, 3, 17),
   ImageOf(2, [Tree EXCEPT ![2].blocks = 2], 3, 1),
   ImageOf(2, [Tree EXCEPT ![9].entries = @ \o <<Entry("f", 5)>>], 4, 1),
   ImageOf(2, Rooted(Entry("gone", 0)), 3, 1),
   ImageOf(2, Rooted([Entry("long", 3) EXCEPT !.long = TRUE]), 3, 1),
   ImageOf(2, Rooted(Entry("h", 8)) @@ (8 :> File), 3, 1),
   ImageOf(2, Rooted(Entry("far", 14)) @@ (14 :> File), 3, 2)}

Machine(user, config, drives, image) ==
  [user |-> user, config |-> config, drive |-> drives, image |-> image]
MCMachines ==
  {Machine("sectors", c, [d \in Drives |-> NoDrive], TreeImage) : c \in Configs}
  \cup {Machine("none", Plain, d, TreeImage) : d \in [Drives -> {NoDrive, Small, CD, Unknown}]}
  \cup {Machine("sectors", Plain, Attached(NoDrive, NoDrive, m, s), TreeImage) :
          m \in {Big, Small, Faulty, Old}, s \in {NoDrive, CD, Big}}
  \cup {Machine("ext2", Plain, Attached(CD, NoDrive, d, NoDrive), i) :
          d \in {Big, Small, Faulty, Old, CD, NoDrive}, i \in Images}

MCRequests ==
  {<<d, from, count>> : d \in {Disk, <<"SECONDARY", 1>>},
     from \in {0, 7, 57, LBA28Limit - 1, LBA28Limit}, count \in {1, 3}}
  \cup {<<Disk, from, count>> : from \in {23, Word - 1}, count \in {0, 7, Byte, Byte + 1}}
=============================================================================
