------------------------------ MODULE BlockGraph ------------------------------
(***************************************************************************)
(* The block devices of a host as /sys shows them, and the ways in which   *)
(* iodyne follows them down to disks.  A host `sys' is a record:           *)
(*   blocks : the names in /sys/class/block                                *)
(*   parent : the whole disk of each partition                             *)
(*   slaves : the devices under each assembled array or mapper device      *)
(*   loops  : the blocks whose names start with "loop" or "ram"            *)
(*   stems  : the whole devices whose names end in a digit and are not     *)
(*            those of md or dm, with their names cut before the digits:   *)
(*            nvme0n1 -> nvme0n, mmcblk0 -> mmcblk, loop0 -> loop          *)
(*   internal : the mapper devices that are parts of an LVM volume         *)
(* Every block has a line in /proc/diskstats.                              *)
(***************************************************************************)
EXTENDS Naturals, FiniteSets

Slaves(sys, b) == IF b \in DOMAIN sys.slaves THEN sys.slaves[b] ELSE {}
IsPartition(sys, b) == b \in DOMAIN sys.parent

(* Folding a name to its whole disk: by /sys in storage.rs and topology.rs,*)
(* by the form of the name in short_name of devices.rs.  These agree on the*)
(* names of whole disks, of their partitions, and of md and dm devices.    *)
Whole(sys, b) == IF IsPartition(sys, b) THEN sys.parent[b] ELSE b

(* whole_disk_name of screen.rs: it strips digits from a whole device too. *)
WholeDiskName(sys, b) == IF b \in DOMAIN sys.stems THEN sys.stems[b] ELSE Whole(sys, b)

(* block_leaves: the devices below b that have nothing below them.  A      *)
(* partition of an array is such a leaf.                                   *)
BlockLeaves(sys, b) ==
    LET below[n \in 0..Cardinality(sys.blocks)] ==
            IF n = 0 THEN {b}
            ELSE LET above == below[n - 1] IN above \cup UNION {Slaves(sys, c) : c \in above}
    IN  {leaf \in below[Cardinality(sys.blocks)] : Slaves(sys, leaf) = {}}

(* member_disks_for: the whole disks under names, without loop devices.    *)
MemberDisks(sys, names) ==
    {Whole(sys, leaf) : leaf \in UNION {BlockLeaves(sys, b) : b \in names}} \ sys.loops

(* expand_counter_sources: a device has counters of its own, or those of   *)
(* the devices under it count.                                             *)
CounterSources(sys, names) ==
    (names \cap sys.blocks)
    \cup ((UNION {BlockLeaves(sys, b) : b \in names \ sys.blocks}) \cap sys.blocks)

(* sysfs_slaves: each slave is folded to its whole disk before its own     *)
(* slaves are read, four levels down.  A partition has no slaves directory:*)
(* nothing is returned.                                                    *)
SysfsSlaves(sys, b) ==
    LET expand[depth \in 0..4] ==
            [c \in sys.blocks |->
                IF depth = 0 \/ Slaves(sys, c) = {} THEN {Whole(sys, c)}
                ELSE UNION {expand[depth - 1][Whole(sys, s)] : s \in Slaves(sys, c)}]
    IN  IF IsPartition(sys, b) \/ b \notin sys.blocks THEN {} ELSE expand[4][b]

(* sysfs_stacked_members of screen.rs: the same with its own fold.  A name *)
(* that is cut has no directory in /sys, and is returned as it is.         *)
StackedMembers(sys, b) == {WholeDiskName(sys, c) : c \in SysfsSlaves(sys, b)}

(* filesystem_in: the members of the btrfs file system on a device, from   *)
(* /sys/fs/btrfs; none for any other.                                      *)
BtrfsMembers(mounts, source) ==
    UNION {m.fs.members : m \in {n \in mounts : n.fs.type = "btrfs" /\ source \in n.fs.members}}

(* What the views are compared with: the disks that are physically under b,*)
(* through slaves and partitions at every level.                           *)
Physical(sys, b) ==
    LET down(c) == Slaves(sys, c) \cup (IF IsPartition(sys, c) THEN {sys.parent[c]} ELSE {})
        under[n \in 0..(2 * Cardinality(sys.blocks))] ==
            IF n = 0 THEN {b}
            ELSE LET above == under[n - 1] IN above \cup UNION {down(c) : c \in above}
    IN  {c \in under[2 * Cardinality(sys.blocks)] : down(c) = {}} \ sys.loops
===============================================================================
