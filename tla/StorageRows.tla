----------------------------- MODULE StorageRows -----------------------------
(***************************************************************************)
(* storage.rs: the rows of the Volumes view, one for each domain of free   *)
(* space.  resolve has the mounted file systems and the volumes that were  *)
(* last collected, and reads the blocks and the btrfs file systems as they *)
(* are now.                                                                *)
(*                                                                         *)
(* A mount is [fs, path]; a file system is [id, type, source, members,     *)
(* used], where the source is what the mount table names: a block, one of  *)
(* the members of a btrfs, or <<pool, dataset>>.                           *)
(***************************************************************************)
EXTENDS BlockGraph, ZpoolList, MdstatList

Unknown == <<>>
Pseudo == {"tmpfs", "overlay", "proc"}

(* pool_for_dataset: the pool is the first part of the source.             *)
PoolsOf(m, volumes) == {pool \in volumes.zfs : m.fs.type = "zfs" /\ pool.name = m.fs.source[1]}

(* filesystem_device_id: of what is at the path of a mount by now, or of   *)
(* the file system beneath when nothing is mounted there any more.  Each   *)
(* subvolume of a btrfs has its own, a path that cannot be read has none.  *)
FileSystemId(m) == IF m.fs.type = "btrfs" THEN <<m.fs.id, m.path>> ELSE <<m.fs.id>>
DeviceId(sys, m) ==
    LET there == {n \in sys.mounts : n.path = m.path}
    IN  IF m.path \in sys.unreadable THEN Unknown
        ELSE IF there = {} THEN <<"/">> ELSE FileSystemId(CHOOSE n \in there : TRUE)

Row(id, mounts, disks, counters) ==
    [id |-> id, mounts |-> mounts, disks |-> disks, counters |-> counters, latency |-> {}]

(* Leaves of a pool that hold data, by their names.                        *)
DataLeaves(pool) == {leaf.name : leaf \in {l \in Leaves(pool) : l.section \notin {"cache", "spare"}}}

(* A row for each pool that was listed, with the mounts of its datasets.   *)
PoolRows(sys, mounts, volumes) ==
    {Row(<<"zfs", pool.name>>, {m \in mounts : pool \in PoolsOf(m, volumes)},
         MemberDisks(sys, DataLeaves(pool)), CounterSources(sys, DataLeaves(pool)))
       : pool \in volumes.zfs}

(* Fault: the fallback takes the mounts of every pool again.               *)
EveryPoolRows(mounts, volumes) ==
    LET zfs == {m \in mounts : m.fs.type = "zfs"}
    IN  {Row(<<"zfs", name>>, {m \in zfs : m.fs.source[1] = name}, {}, {})
           : name \in {m.fs.source[1] : m \in zfs}}

(* A row for each pool that was not, when one of its datasets is mounted.  *)
Unlisted(mounts, volumes) == {m \in mounts : m.fs.type = "zfs" /\ PoolsOf(m, volumes) = {}}
UnlistedPoolRows(mounts, volumes) ==
    {Row(<<"zfs", name>>, {m \in Unlisted(mounts, volumes) : m.fs.source[1] = name}, {}, {})
       : name \in {m.fs.source[1] : m \in Unlisted(mounts, volumes)}}

(* A row for each btrfs of several devices, whichever of them is mounted.  *)
SpansDevices(sys, m) == m.fs.type = "btrfs" /\ Cardinality(BtrfsMembers(sys.mounts, m.fs.source)) > 1
BtrfsRows(sys, mounts) ==
    LET spanning == {m \in mounts : SpansDevices(sys, m)}
        members(id) == UNION {BtrfsMembers(sys.mounts, m.fs.source) : m \in {n \in spanning : n.fs.id = id}}
    IN  {Row(<<"btrfs", id>>, {m \in spanning : m.fs.id = id},
             MemberDisks(sys, members(id)), CounterSources(sys, members(id)))
           : id \in {m.fs.id : m \in spanning}}

(* md_array_for_source: the array that a block is, if it is one.           *)
ArraysAt(volumes, b) == {array \in volumes.mdraid : array.name = b}

(* Every other mount of a block device, grouped by the device id of the    *)
(* mounted file system, or by its source when that is unknown.  A mapper   *)
(* device inside an LVM volume gets no row.  The disks of an array are     *)
(* those of the members that were collected.                               *)
IsOrdinary(sys, m) ==
    /\ m.fs.type # "zfs" /\ ~SpansDevices(sys, m) /\ m.fs.type \notin Pseudo
    /\ m.fs.source \in sys.blocks
GroupKey(sys, m) ==
    IF DeviceId(sys, m) = Unknown THEN <<"src", m.fs.source>> ELSE <<"dev", DeviceId(sys, m)>>
OrdinaryRows(sys, mounts, volumes) ==
    LET ordinary == {m \in mounts : IsOrdinary(sys, m)}
        group(key) == {m \in ordinary : GroupKey(sys, m) = key}
        source(key) == (CHOOSE m \in group(key) : TRUE).fs.source
        names(b) == IF ArraysAt(volumes, b) = {} THEN {b}
                    ELSE UNION {Devices(array) : array \in ArraysAt(volumes, b)}
    IN  {Row(<<"fs", key>>, group(key), MemberDisks(sys, names(source(key))),
             CounterSources(sys, {source(key)}))
           : key \in {k \in {GroupKey(sys, m) : m \in ordinary} : source(k) \notin sys.internal}}

SwapRows(sys) ==
    {Row(<<"swap", b>>, {}, MemberDisks(sys, {b}), {b}) : b \in sys.swaps \cap sys.blocks}

(* Fault: only rows with mounts claim a disk.                              *)
AssignToMounted(rows) ==
    {[row EXCEPT !.latency =
        IF \E other \in rows \ {row} : other.mounts # {} /\ other.disks \cap row.disks # {}
        THEN {} ELSE row.disks] : row \in rows}

(* assign_latency_sources: a row that shares a disk with another has none. *)
AssignLatencySources(rows) ==
    {[row EXCEPT !.latency =
        IF \E other \in rows \ {row} : other.disks \cap row.disks # {}
        THEN {} ELSE row.disks] : row \in rows}

Resolve(sys, mounts, volumes) ==
    AssignLatencySources(PoolRows(sys, mounts, volumes) \cup UnlistedPoolRows(mounts, volumes)
                         \cup BtrfsRows(sys, mounts) \cup OrdinaryRows(sys, mounts, volumes)
                         \cup SwapRows(sys))
===============================================================================
