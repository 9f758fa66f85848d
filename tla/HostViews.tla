------------------------------ MODULE HostViews ------------------------------
(***************************************************************************)
(* A host whose storage changes, and the background thread that collects   *)
(* it (app.rs): the use of devices and the file systems often, arrays and  *)
(* pools seldom, rows after either.  What it computes from the parts of    *)
(* different age, and from /sys as it is at that moment, are the views of  *)
(* StorageRows and DeviceViews.                                            *)
(***************************************************************************)
EXTENDS DeviceViews

CONSTANTS
    Disks,        \* whole disks, always there
    Loops,        \* loop devices
    Stems,        \* whole device with a digit at its end -> its name without it
    ParentOf,     \* partition -> the disk it is on
    Mapped,       \* mapper device -> what it may be on
    InternalLvm,  \* mapper devices inside an LVM volume
    Arrays,       \* name of an md array -> the arrays of this name there may be
    FileSystems,  \* file systems that may be mounted
    Paths,        \* where one of them may be mounted
    PoolsKnown,   \* ZFS pools that may be imported
    Swaps,        \* swap partitions in use
    MaxMounts,    \* bound: mounts at a time
    MaxChanges    \* bound: changes of the host

(* What a stacked device may be assembled from.                            *)
MembersOf(array) == {array.members[i].device : i \in DOMAIN array.members}
Stackings ==
    [s \in DOMAIN Mapped \cup DOMAIN Arrays |->
        IF s \in DOMAIN Mapped THEN Mapped[s] ELSE {MembersOf(array) : array \in Arrays[s]}]

(* A file system of one device is on its source, one of several is a btrfs,*)
(* and one of a pool is a dataset of it.                                   *)
IsFileSystem(fs) ==
    IF fs.type = "zfs" THEN fs.source \in STRING \X STRING
    ELSE /\ fs.type \notin Pseudo /\ IsFiniteSet(fs.members) /\ fs.source \in fs.members
         /\ fs.type # "btrfs" => fs.members = {fs.source}
IsOneFileSystem(f, g) ==
    f.type = g.type /\ IF f.type = "zfs" THEN f.source = g.source ELSE f.members = g.members

(* The vdevs of a pool, from the top: a group comes before its members, and*)
(* they are in the section of the group.                                   *)
AnyVdev == [depth : Nat, name : STRING, type : GroupTypes \cup {"disk"}, section : STRING, alloc : Int]
IsPool(pool) ==
    LET vdevs == pool.vdevs
        isGroup(v) == v.type \in GroupTypes
    IN  /\ pool.name # ""
        /\ vdevs \in Seq(AnyVdev)
        /\ vdevs # <<>> => vdevs[1].depth = 0 /\ ~isGroup(Last(vdevs))
        /\ \A i \in 2..Len(vdevs) :
              /\ IF isGroup(vdevs[i - 1]) THEN vdevs[i].depth = vdevs[i - 1].depth + 1
                 ELSE vdevs[i].depth <= vdevs[i - 1].depth
              /\ vdevs[i].depth > 0 => vdevs[i].section = vdevs[i - 1].section

(* What mdadm can have made of a name.                                     *)
IsArray(array) ==
    /\ array.name # "" /\ array.slots \in Seq(BOOLEAN)
    /\ array.members \in Seq([device : STRING, flag : STRING]) \ {<<>>}

(* The devices there may be.                                               *)
Devnodes == Disks \cup Loops \cup DOMAIN ParentOf \cup DOMAIN Mapped \cup DOMAIN Arrays

(* No array is partitioned: the views disagree about its partitions.  The  *)
(* screen cuts the names of whole disks and loop devices only, to names    *)
(* that no device has.                                                     *)
ASSUME HostAssumption ==
    /\ IsFiniteSet(Disks) /\ IsFiniteSet(Loops) /\ IsFiniteSet(DOMAIN ParentOf)
    /\ IsFiniteSet(DOMAIN Mapped) /\ IsFiniteSet(DOMAIN Arrays)
    /\ \A p \in DOMAIN ParentOf : ParentOf[p] \in Disks
    /\ DOMAIN Mapped \cap DOMAIN Arrays = {}
    /\ (Disks \cup Loops \cup DOMAIN ParentOf) \cap (DOMAIN Mapped \cup DOMAIN Arrays) = {}
    /\ Disks \cap (Loops \cup DOMAIN ParentOf) = {}
    /\ DOMAIN Stems \subseteq (Disks \cup Loops) \ DOMAIN ParentOf
    /\ \A b \in DOMAIN Stems : Stems[b] \notin Devnodes
    /\ \A b \in DOMAIN Mapped : {} \notin Mapped[b]
    /\ InternalLvm \subseteq DOMAIN Mapped
    /\ \A b \in DOMAIN Arrays : \A array \in Arrays[b] : array.name = b /\ IsArray(array)
    /\ \A fs \in FileSystems : IsFileSystem(fs)
    /\ \A f, g \in FileSystems : f.id = g.id => IsOneFileSystem(f, g)
    /\ IsFiniteSet(PoolsKnown) /\ \A pool \in PoolsKnown : IsPool(pool)
    /\ \A pool \in PoolsKnown : pool.name \notin Devnodes
    /\ MaxMounts \in Nat /\ MaxChanges \in Nat

(* No device is more than four levels above the disks.  sysfs_slaves goes  *)
(* no deeper; only ViewsAgree depends on it.                               *)
FourLevels ==
    \E level \in [DOMAIN Stackings -> 1..4] :
        \A s \in DOMAIN Stackings : \A under \in Stackings[s] : \A c \in under \cap DOMAIN Stackings :
            level[c] < level[s]

VARIABLES
    host,         \* [slaves, mounts, imported, unreadable]
    changes,      \* changes so far
    at,           \* where the background thread is
    devices,      \* used bytes by device
    filesystems,  \* the mounts last collected
    volumes,      \* [mdraid, zfs] last collected
    rows,         \* the rows last resolved
    current       \* which of these were computed from the host as it is now

vars == <<host, changes, at, devices, filesystems, volumes, rows, current>>

-----------------------------------------------------------------------------
Blocks(h) == Disks \cup Loops \cup DOMAIN ParentOf \cup DOMAIN h.slaves

(* The host as /sys, /proc and statfs show it.                             *)
Sys(h) == [blocks |-> Blocks(h), parent |-> ParentOf, slaves |-> h.slaves, loops |-> Loops,
           stems |-> Stems, internal |-> InternalLvm,
           mounts |-> h.mounts, unreadable |-> h.unreadable, swaps |-> Swaps]

PoolDevices(pool) ==
    {pool.vdevs[i].name : i \in {j \in DOMAIN pool.vdevs : pool.vdevs[j].type = "disk"}}

(* The arrays that are assembled from what a host has under their names.   *)
Assembled(h) ==
    {CHOOSE array \in Arrays[b] : MembersOf(array) = h.slaves[b] : b \in DOMAIN h.slaves \cap DOMAIN Arrays}

(* A block has one user, a name one pool, a path one mount; datasets are   *)
(* mounted from imported pools, and nothing from an array that does not    *)
(* run.                                                                    *)
Claims(h) ==
    {<<"slave", s, h.slaves[s]>> : s \in DOMAIN h.slaves}
    \cup {<<"pool", pool.name, PoolDevices(pool)>> : pool \in h.imported}
    \cup {<<"fs", m.fs.id, m.fs.members>> : m \in {n \in h.mounts : n.fs.type # "zfs"}}
    \cup {<<"swap", b, {b}>> : b \in Swaps}
Consistent(h) ==
    /\ \A c, d \in Claims(h) : c[1] # d[1] \/ c[2] # d[2] => c[3] \cap d[3] = {}
    /\ \A c \in Claims(h) : c[3] \subseteq Blocks(h)
    /\ \A p, q \in h.imported : p.name = q.name => p = q
    /\ \A m \in h.mounts : m.fs.type = "zfs" =>
          \E pool \in h.imported : pool.name = m.fs.source[1]
    /\ \A array \in Assembled(h) : array.state = "active" \/ \A m \in h.mounts : array.name \notin m.fs.members
    /\ \A m, n \in h.mounts : m.path = n.path => m = n
    /\ IsFiniteSet(h.mounts) /\ Cardinality(h.mounts) <= MaxMounts

AllMounts == [fs : FileSystems, path : Paths]
Hosts ==
    LET assembled == UNION {{[s \in S |-> choice[s]] : choice \in
                                {c \in [S -> UNION {Stackings[t] : t \in S}] :
                                    \A s \in S : c[s] \in Stackings[s]}}
                              : S \in SUBSET DOMAIN Stackings}
    IN  {h \in [slaves : assembled, imported : SUBSET PoolsKnown, unreadable : {{}},
                mounts : {M \in SUBSET AllMounts : Cardinality(M) <= MaxMounts}] : Consistent(h)}

NoVolumes == [mdraid |-> {}, zfs |-> {}]

(* App::new collects everything before the thread starts; the host may be  *)
(* another one by the time a part of it is collected.                      *)
Init ==
    /\ host \in Hosts
    /\ changes = 0
    /\ at = "filesystems"
    /\ devices = [d \in {} |-> 0]
    /\ filesystems = {} /\ volumes = NoVolumes /\ rows = {}
    /\ current = {}

-----------------------------------------------------------------------------
(* Arrays are assembled and stopped, pools imported and exported, file     *)
(* systems mounted and unmounted, and a path may become unreadable.        *)
Change ==
    /\ changes < MaxChanges
    /\ changes' = changes + 1
    /\ \/ \E s \in DOMAIN Stackings \ DOMAIN host.slaves : \E under \in Stackings[s] :
             host' = [host EXCEPT !.slaves = [t \in DOMAIN @ \cup {s} |-> IF t = s THEN under ELSE @[t]]]
       \/ \E s \in DOMAIN host.slaves :
             host' = [host EXCEPT !.slaves = [t \in DOMAIN @ \ {s} |-> @[t]]]
       \/ \E pool \in PoolsKnown \ host.imported : host' = [host EXCEPT !.imported = @ \cup {pool}]
       \/ \E pool \in host.imported : host' = [host EXCEPT !.imported = @ \ {pool}]
       \/ \E m \in AllMounts \ host.mounts : host' = [host EXCEPT !.mounts = @ \cup {m}]
       \/ \E m \in host.mounts : host' = [host EXCEPT !.mounts = @ \ {m}]
       \/ \E path \in Paths \ host.unreadable : host' = [host EXCEPT !.unreadable = @ \cup {path}]
    /\ Consistent(host')
    /\ current' = {}
    /\ UNCHANGED <<at, devices, filesystems, volumes, rows>>

(* refresh_usage_with_volumes: what is mounted now, with the pools of the  *)
(* last collection.                                                        *)
RefreshUsage ==
    /\ at = "usage"
    /\ devices' = UsedByDevice(Sys(host), host.mounts, volumes)
    /\ current' = (current \ {"devices"}) \cup (IF "volumes" \in current THEN {"devices"} ELSE {})
    /\ at' = "filesystems"
    /\ UNCHANGED <<host, changes, filesystems, volumes, rows>>

CollectFilesystems ==
    /\ at = "filesystems"
    /\ filesystems' = host.mounts
    /\ current' = current \cup {"filesystems"}
    /\ at' = "rows"
    /\ UNCHANGED <<host, changes, devices, volumes, rows>>

(* The rows are those of the collected file systems, and when the volumes  *)
(* are as they are now, those of the host.                                 *)
RowsAre ==
    IF "filesystems" \notin current THEN {}
    ELSE {"rows"} \cup (IF "volumes" \in current THEN {"rows of the host"} ELSE {})

ResolveRows(from, to) ==
    /\ at = from
    /\ rows' = Resolve(Sys(host), filesystems, volumes)
    /\ current' = (current \ {"rows", "rows of the host"}) \cup RowsAre
    /\ at' = to
    /\ UNCHANGED <<host, changes, devices, filesystems, volumes>>

UsageNotDue ==
    /\ at = "usage"
    /\ at' = "volumes"
    /\ UNCHANGED <<host, changes, devices, filesystems, volumes, rows, current>>

(* linux_zfs: in JSON, or in text, where the pools have some order.        *)
Listed(pools) ==
    {ParseJson(pools)}
    \cup {ParseText(FlattenSeq([i \in DOMAIN order |-> TextOf(order[i])])) : order \in SetToSeqs(pools)}

(* linux_mdraid: what /proc/mdstat says of the assembled arrays.           *)
LinuxMdraid == ParseMdstat(MdstatOf(SetToSeq(Assembled(host))))

CollectVolumes ==
    /\ at = "volumes"
    /\ \E zfs \in Listed(host.imported) : volumes' = [mdraid |-> LinuxMdraid, zfs |-> zfs]
    /\ current' = current \cup {"volumes"}
    /\ at' = "devices"
    /\ UNCHANGED <<host, changes, devices, filesystems, rows>>

(* collect_with_volumes: the list of devices, with their use.              *)
CollectDevices ==
    /\ at = "devices"
    /\ devices' = UsedByDevice(Sys(host), host.mounts, volumes)
    /\ current' = (current \ {"devices"}) \cup (IF "volumes" \in current THEN {"devices"} ELSE {})
    /\ at' = "rows again"
    /\ UNCHANGED <<host, changes, filesystems, volumes, rows>>

VolumesNotDue ==
    /\ at = "volumes"
    /\ at' = "usage"
    /\ UNCHANGED <<host, changes, devices, filesystems, volumes, rows, current>>

Next ==
    \/ Change
    \/ RefreshUsage \/ CollectFilesystems \/ ResolveRows("rows", "volumes") \/ UsageNotDue
    \/ CollectVolumes \/ CollectDevices \/ ResolveRows("rows again", "usage") \/ VolumesNotDue

Spec == Init /\ [][Next]_vars

-----------------------------------------------------------------------------
(* A file system on nothing but a mapper device inside an LVM volume.      *)
IsInternal(m) ==
    m.fs.type # "zfs" /\ m.fs.members = {m.fs.source} /\ m.fs.source \in InternalLvm

(* Every mounted file system of a block device or a pool is in exactly one *)
(* row and no two rows have one id, however old the list of pools is: what *)
(* a mount reads and writes is shown once.  One on a device inside an LVM  *)
(* volume is in none.                                                      *)
MountedOnce ==
    "rows" \in current =>
        /\ \A r, q \in rows : r.id = q.id => r = q
        /\ \A m \in host.mounts :
              Cardinality({r \in rows : m \in r.mounts}) = IF IsInternal(m) THEN 0 ELSE 1

(* The blocks a row stands for, and the disks that are physically under    *)
(* them.  Caches and spares of a pool hold no data of it.                  *)
Vdevs(r) == UNION {{pool.vdevs[i] : i \in DOMAIN pool.vdevs}
                     : pool \in {p \in host.imported : r.id = <<"zfs", p.name>>}}
BlocksOf(r) ==
    (IF r.id[1] = "swap" THEN {r.id[2]} ELSE {})
    \cup {v.name : v \in {w \in Vdevs(r) : w.type = "disk" /\ w.section \notin {"cache", "spare"}}}
    \cup UNION {m.fs.members : m \in {n \in r.mounts : n.fs.type # "zfs"}}
DisksUnder(r) == UNION {Physical(Sys(host), b) : b \in BlocksOf(r)}
IdleDisks(r) ==
    UNION {Physical(Sys(host), v.name)
             : v \in {w \in Vdevs(r) : w.type = "disk" /\ w.section \in {"cache", "spare"}}}

(* A row that claims the requests of a disk is the only one with anything  *)
(* on it: no file system, pool or swap of another row reaches that disk    *)
(* through any stack of arrays, mapper devices and partitions.             *)
LatencyExclusive ==
    "rows of the host" \in current =>
        \A r \in rows : \A q \in rows \ {r} : r.latency \cap DisksUnder(q) = {}

(* The disks to which the edges of the JSON topology lead from a mount.    *)
Reached(m) ==
    {d \in Disks : <<d>> \in Follow(Relationships(Sys(host), host.mounts, volumes), MountNode(m))}

(* The disks whose names the screen does not cut; among them those under   *)
(* which it shows a mount and those under which it shows its files.        *)
Lettered == Disks \ DOMAIN Stems
ShownUnder(m) == {d \in Lettered : IsAttributable(Sys(host), m, d, volumes)}
FilesUnder(m) == {d \in Lettered : DeviceId(Sys(host), m) \in FilesystemIdsForIo(Sys(host), d, volumes)}

(* The chain of an array names its members and that of a plain file system *)
(* its source: neither is followed further.                                *)
NamedDirectly(m) ==
    {Whole(Sys(host), b) :
        b \in {m.fs.source} \cup UNION {MembersOf(array) : array \in {a \in Assembled(host) : a.name = m.fs.source}}}

(* The header of a disk counts the mounts that it does not name; a mount   *)
(* that it names is on the disk, which is marked in the chain.             *)
HeaderAgrees(d, m, isUnder) ==
    LET header == DetailHeader(Sys(host), d, volumes)
        named == {c.mount : c \in header.chains}
        isMarked(chain) == \E n \in chain.nodes : n[2]
        isFollowed(chain) == chain.kind \in {"zfs", "btrfs"}
    IN  /\ header.extra = Cardinality({n \in host.mounts : d \in ShownUnder(n)} \ named)
        /\ \A c \in header.chains : c.mount = m =>
              isUnder /\ (isMarked(c.chain) <=> isFollowed(c.chain) \/ d \in NamedDirectly(m))

(* Every way of following a mount down to disks comes to the same disks.   *)
(* Only the row of a pool is without its caches and spares, the header does*)
(* not mark what is further down than an array's members or the source of a*)
(* file system that is no btrfs, and nothing is said of what the screen    *)
(* shows under a disk whose name it cuts.                                  *)
ViewsAgree ==
    "rows of the host" \in current =>
        \A r \in rows : \A m \in r.mounts :
            LET under == DisksUnder(r) \cup IdleDisks(r)
            IN  /\ r.disks = DisksUnder(r)
                /\ Reached(m) = under
                /\ ShownUnder(m) = under \cap Lettered
                /\ FilesUnder(m) = IF DeviceId(Sys(host), m) = Unknown THEN {} ELSE under \cap Lettered
                /\ \A d \in Lettered : HeaderAgrees(d, m, d \in under)

(* The first line of the screen warns of what is wrong with the arrays and *)
(* pools of the last collection, and of nothing else: each is named or     *)
(* counted, the array that is named is as badly off as any, and the disks  *)
(* of one that still runs are named with it or counted, unless one of its  *)
(* members is a disk whose name the screen cuts.                           *)
Unsound(array) ==
    \/ array.state # "active" \/ array.progress # ""
    \/ \E i \in DOMAIN array.slots : ~array.slots[i]
    \/ \E i \in DOMAIN array.members : array.members[i].flag = "(F)"
ExceptionsAnnounced ==
    "volumes" \in current =>
        LET unsound == {array \in Assembled(host) : Unsound(array)}
            said == VolumeExceptionSummary(Sys(host), volumes)
        IN  /\ said.zfs = {pool.name : pool \in {p \in host.imported : p.health # "ONLINE"}}
            /\ said.md = {} <=> unsound = {}
            /\ \A line \in said.md : \E array \in unsound :
                  /\ line.array = array.name /\ line.progress = array.progress
                  /\ line.others = Cardinality(unsound) - 1
                  /\ array.state = "active" =>
                        /\ \A other \in unsound : other.state = "active"
                        /\ MembersOf(array) \cap DOMAIN Stems = {} =>
                              LET disks == {Whole(Sys(host), b) : b \in MembersOf(array)}
                              IN  /\ line.affects \subseteq disks
                                  /\ line.extra = Cardinality(disks \ line.affects)

(* What the outermost vdevs of a pool have allocated: each leaf of a mirror*)
(* has all of it, those of another group share it.                         *)
Allocated(pool) ==
    LET outer == {i \in DOMAIN pool.vdevs : pool.vdevs[i].depth = 0
                                            /\ pool.vdevs[i].section \notin {"cache", "spare"}}
        next(i) == {j \in DOMAIN pool.vdevs : j > i /\ pool.vdevs[j].depth = 0}
        leaves(i) == {j \in DOMAIN pool.vdevs : j > i /\ pool.vdevs[j].type = "disk"
                                               /\ \A k \in next(i) : j < k}
    IN  MapThenSumSet(LAMBDA i : IF pool.vdevs[i].type = "mirror"
                                 THEN pool.vdevs[i].alloc * Cardinality(leaves(i))
                                 ELSE pool.vdevs[i].alloc, outer)

(* The use of devices adds up: no byte of a file system or a pool is on two*)
(* devices, and what is lost is only the rest of dividing a file system    *)
(* over its disks.                                                         *)
UsageConserved ==
    "devices" \in current =>
        LET shown == MapThenSumSet(LAMBDA d : devices[d], DOMAIN devices)
            fs == UsedSources(host.mounts)
            used == MapThenSumSet(LAMBDA f : f.used, fs) + MapThenSumSet(Allocated, host.imported)
        IN  /\ shown <= used
            /\ used - shown <= MapThenSumSet(LAMBDA f : Cardinality(SourceDisks(Sys(host), f.source)) - 1, fs)
===============================================================================
