----------------------------- MODULE DeviceViews -----------------------------
(***************************************************************************)
(* The other views of what is on a disk: the used bytes of a device        *)
(* (devices.rs), the file systems the screen shows under it (screen.rs) and*)
(* the edges of the JSON topology (topology.rs).  Each follows the block   *)
(* devices in a way of its own.                                            *)
(***************************************************************************)
EXTENDS StorageRows

CONSTANTS
    ChainsShown,   \* chains in the header of a device (2 in the code)
    AffectedShown  \* disks of an array in its exception (3 in the code)
ASSUME ShownAssumption == ChainsShown \in Nat /\ AffectedShown \in Nat

(* What is sorted and cut to the first n, and how many are left out.       *)
FirstOf(n, S) == LET order == SetToSeq(S) IN {order[i] : i \in {j \in DOMAIN order : j <= n}}
LeftOut(n, S) == IF Cardinality(S) > n THEN Cardinality(S) - n ELSE 0

(* zfs_leaf_disk_names: the disks under a device, or its own.              *)
LeafDisks(sys, b) == IF SysfsSlaves(sys, b) = {} THEN {Whole(sys, b)} ELSE SysfsSlaves(sys, b)

(* sysfs_source_members: what is under each member of a btrfs, and under   *)
(* the source itself of any other file system.                             *)
SourceDisks(sys, source) ==
    LET btrfs == BtrfsMembers(sys.mounts, source)
    IN  UNION {LeafDisks(sys, b) : b \in IF btrfs = {} THEN {source} ELSE btrfs}

-----------------------------------------------------------------------------
(* linux_used_by_device: a source counts once, however often it is mounted.*)
UsedSources(mounts) == {m.fs : m \in {n \in mounts : n.fs.type # "zfs"}}

(* attribute_sources: what a file system uses, in equal parts on its disks.*)
AttributeSources(sys, mounts, d) ==
    MapThenSumSet(LAMBDA fs : LET disks == SourceDisks(sys, fs.source)
                              IN  IF d \in disks THEN fs.used \div Cardinality(disks) ELSE 0,
                  UsedSources(mounts))

(* zfs_allocations_by_device: what each leaf that holds data has allocated,*)
(* shared out over the disks under it, the rest to the first ones.         *)
DataPaths(pool) == {p \in LeafPaths(pool.tree) : pool.tree[p].section \notin {"cache", "spare"}}
LeafShare(sys, pool, p, d) ==
    LET disks == LeafDisks(sys, pool.tree[p].name)
        rank == CHOOSE i \in DOMAIN SetToSeq(disks) : SetToSeq(disks)[i] = d
    IN  IF d \in disks THEN Share(LeafAllocation(pool.tree, p), Cardinality(disks), rank - 1) ELSE 0
ZfsAllocation(sys, volumes, d) ==
    MapThenSumSet(LAMBDA pool : MapThenSumSet(LAMBDA p : LeafShare(sys, pool, p, d), DataPaths(pool)),
                  volumes.zfs)

(* The used bytes of each device that is listed.                           *)
UsedByDevice(sys, mounts, volumes) ==
    [d \in sys.blocks |-> AttributeSources(sys, mounts, d) + ZfsAllocation(sys, volumes, d)]

-----------------------------------------------------------------------------
(* attributable_filesystems: a mount is shown under a device that is its   *)
(* source or the whole disk of it, that is in its array, a leaf of its     *)
(* pool, or under a member of its btrfs or under its source.               *)
IsDirect(sys, m, d) == d \in {m.fs.source, WholeDiskName(sys, m.fs.source)}
IsInArray(sys, m, d, volumes) ==
    \E array \in ArraysAt(volumes, m.fs.source) :
        d \in {array.name} \cup {WholeDiskName(sys, b) : b \in Devices(array)}

(* Most names are compared after the device's own is folded as well: two   *)
(* disks with one stem are not told apart.                                 *)
Folded(sys, names) == {WholeDiskName(sys, b) : b \in names}
IsInPool(sys, m, d, volumes) ==
    \E pool \in PoolsOf(m, volumes) : \E leaf \in Leaves(pool) :
        WholeDiskName(sys, d) \in Folded(sys, LeafDisks(sys, leaf.name))

(* Fault: only the source of a btrfs is followed, not its other members.   *)
IsUnderOneMember(sys, m, d) == d \in StackedMembers(sys, m.fs.source)

IsUnderSource(sys, m, d) ==
    \/ \E b \in BtrfsMembers(sys.mounts, m.fs.source) :
          WholeDiskName(sys, d) \in Folded(sys, {b} \cup StackedMembers(sys, b))
    \/ d \in StackedMembers(sys, m.fs.source)

(* mount_label_for_device: what /sys alone says of a mount, or of a pool's.*)
HasMountLabel(sys, m, d, volumes) ==
    IF m.fs.type = "zfs" THEN IsInPool(sys, m, d, volumes)
    ELSE IsDirect(sys, m, d) \/ IsUnderSource(sys, m, d)

IsAttributable(sys, m, d, volumes) ==
    \/ HasMountLabel(sys, m, d, volumes)
    \/ m.fs.type # "zfs" /\ IsInArray(sys, m, d, volumes)

(* filesystem_device_ids_for_io: the hot files under a device are those of *)
(* the file systems with these ids.                                        *)
FilesystemIdsForIo(sys, d, volumes) ==
    {DeviceId(sys, m) : m \in {n \in sys.mounts : HasMountLabel(sys, n, d, volumes)}} \ {Unknown}

-----------------------------------------------------------------------------
(* topology_chain: the parts of a mount that the header of a device names, *)
(* each with whether it is marked as the selected device.                  *)
Marked(sys, d, names) == {<<b, WholeDiskName(sys, b) = d>> : b \in names}

(* format_zfs_vdev: a leaf that is stacked on other devices is followed by *)
(* them, any other is marked itself.                                       *)
LeafNodes(sys, d, b) ==
    IF Folded(sys, LeafDisks(sys, b)) # {WholeDiskName(sys, b)}
    THEN {<<b, FALSE>>} \cup Marked(sys, d, LeafDisks(sys, b))
    ELSE {<<b, d \in Folded(sys, LeafDisks(sys, b))>>}

(* Fault: stacked members of a btrfs are named as they are.                *)
UnexpandedMembers(sys, btrfs) == btrfs

(* expand_btrfs_members                                                    *)
ExpandedMembers(sys, btrfs) ==
    UNION {IF StackedMembers(sys, b) = {} THEN {b} ELSE StackedMembers(sys, b) : b \in btrfs}

TopologyChain(sys, m, d, volumes) ==
    LET pools == PoolsOf(m, volumes)
        arrays == ArraysAt(volumes, m.fs.source)
        btrfs == BtrfsMembers(sys.mounts, m.fs.source)
    IN  CASE pools # {} ->
               [kind |-> "zfs", nodes |-> UNION {UNION {LeafNodes(sys, d, leaf.name) : leaf \in Leaves(pool)}
                                                  : pool \in pools}]
          [] pools = {} /\ arrays # {} ->
               [kind |-> "md", nodes |-> UNION {Marked(sys, d, Devices(array)) : array \in arrays}]
          [] pools = {} /\ arrays = {} /\ btrfs # {} ->
               [kind |-> "btrfs", nodes |-> Marked(sys, d, ExpandedMembers(sys, btrfs))]
          [] OTHER ->
               [kind |-> "plain", nodes |-> {<<b, b = d>> : b \in {m.fs.source}
                                               \cup ({WholeDiskName(sys, m.fs.source)} \cap {d})}]

(* detail_header: chains of mounts that are shown under the device.  A     *)
(* chain starts with the path of its mount.                                *)
DetailHeader(sys, d, volumes) ==
    LET shown == {m \in sys.mounts : IsAttributable(sys, m, d, volumes)}
    IN  [chains |-> {[mount |-> m, chain |-> TopologyChain(sys, m, d, volumes)]
                       : m \in FirstOf(ChainsShown, shown)},
         extra |-> LeftOut(ChainsShown, shown)]

-----------------------------------------------------------------------------
(* md_exception_summary: the array that is worst off, and how many others  *)
(* there are.                                                              *)
Inactive(array) == array.state # "active"
Missing(array) == (array.total > 0 /\ array.present < array.total) \/ array.down
Flagged(array) == \E m \in array.members : m.flag = "(F)"
Progressing(array) == array.progress # ""
Score(array) ==
    (IF Inactive(array) THEN 8 ELSE 0) + (IF Missing(array) THEN 4 ELSE 0)
    + (IF Flagged(array) THEN 2 ELSE 0) + (IF Progressing(array) THEN 1 ELSE 0)

MdExceptionSummary(sys, arrays) ==
    LET exceptions == {a \in arrays : Score(a) > 0}
        first == CHOOSE a \in exceptions : \A b \in exceptions : Score(b) <= Score(a)
        affected == Folded(sys, Devices(first))
    IN  IF exceptions = {} THEN {}
        ELSE {[array |-> first.name, progress |-> first.progress,
               affects |-> FirstOf(AffectedShown, affected), extra |-> LeftOut(AffectedShown, affected),
               others |-> Cardinality(exceptions) - 1]}

(* zfs_exception_summary                                                   *)
ZfsExceptionSummary(pools) == {pool.name : pool \in {p \in pools : p.health # "ONLINE"}}

(* volume_exception_summary, in the first line of the screen.              *)
VolumeExceptionSummary(sys, volumes) ==
    [md |-> MdExceptionSummary(sys, volumes.mdraid), zfs |-> ZfsExceptionSummary(volumes.zfs)]

-----------------------------------------------------------------------------
(* relationships: the edges a JSON consumer follows from a mount to disks. *)
(* Array and pool members point up, at what they are members of.           *)
MountNode(m) == <<"mount", m.fs.id, m.path>>
SourceNode(fs) == IF fs.type = "zfs" THEN <<"dataset">> \o fs.source ELSE <<fs.source>>
EdgesOf(sys, b) ==
    {<<"partition_of", <<b>>, <<sys.parent[c]>>>> : c \in {b} \cap DOMAIN sys.parent}
    \cup {<<"block_device_backed_by", <<b>>, <<d>>>> : d \in SysfsSlaves(sys, b)}
MountEdges(sys, m, volumes) ==
    LET blocks == IF m.fs.type = "zfs" THEN {}
                  ELSE {m.fs.source} \cup BtrfsMembers(sys.mounts, m.fs.source)
    IN  {<<"mount_backed_by", MountNode(m), SourceNode(m.fs)>>}
        \cup {<<"mount_backed_by", MountNode(m), <<b>>>> : b \in blocks}
        \cup (UNION {EdgesOf(sys, b) : b \in blocks})
        \cup {<<"zfs_dataset_of", SourceNode(m.fs), <<pool.name>>>> : pool \in PoolsOf(m, volumes)}
PoolEdges(sys, pool) ==
    {<<"zfs_member_of", <<leaf.name>>, <<pool.name>>>> : leaf \in Leaves(pool)}
    \cup UNION {EdgesOf(sys, leaf.name) : leaf \in Leaves(pool)}
Relationships(sys, mounts, volumes) ==
    (UNION {MountEdges(sys, m, volumes) : m \in mounts})
    \cup (UNION {{<<"raid_member_of", <<b>>, <<array.name>>>> : b \in Devices(array)}
                   : array \in volumes.mdraid})
    \cup UNION {PoolEdges(sys, pool) : pool \in volumes.zfs}

Downward == {"mount_backed_by", "partition_of", "block_device_backed_by", "zfs_dataset_of"}
Follow(edges, from) ==
    LET next(x) == {e[3] : e \in {f \in edges : f[1] \in Downward /\ f[2] = x}}
                   \cup {e[2] : e \in {f \in edges : f[1] \notin Downward /\ f[3] = x}}
        seen[n \in 0..8] == IF n = 0 THEN {from}
                            ELSE LET near == seen[n - 1] IN near \cup UNION {next(x) : x \in near}
    IN  seen[8]
===============================================================================
