----------------------------- MODULE HostViewsMC -----------------------------
(***************************************************************************)
(* A small host: four disks, two of them with names that the screen cuts,  *)
(* an array that may be rebuilding, a mapper device that may be on it or on*)
(* a partition, one inside an LVM volume, a second array that may be on a  *)
(* mapper device, have lost a member or not run, file systems of each kind *)
(* and two pools.                                                          *)
(***************************************************************************)
EXTENDS HostViews, TLC

Partitions ==
    [p \in {"sda1", "sda2", "sda3", "sda4"} |-> "sda"] @@ [p \in {"sdb1", "sdb2", "sdb3", "sdb4"} |-> "sdb"]
    @@ "nvme0n1p1" :> "nvme0n1"
Cut == "nvme0n1" :> "nvme0n" @@ "nvme1n1" :> "nvme1n" @@ "loop0" :> "loop"
OnMapper == "dm0" :> {{"sda2"}, {"md0"}} @@ "dm1" :> {{"sda2"}}

Member(device, flag) == [device |-> device, flag |-> flag]
Array(name, state, slots, members, progress) ==
    [name |-> name, state |-> state, readonly |-> FALSE, level |-> "raid1", slots |-> slots,
     members |-> members, progress |-> progress]
SmallArrays ==
    "md0" :> {[Array("md0", "active", <<TRUE, TRUE>>, <<Member("sda1", ""), Member("sdb1", "")>>, "")
                 EXCEPT !.readonly = TRUE],
              Array("md0", "active", <<TRUE, FALSE>>, <<Member("nvme1n1", ""), Member("sda1", "")>>, "recovery")}
    @@ "md1" :> {Array("md1", "active", <<TRUE, FALSE>>, <<Member("dm0", ""), Member("nvme0n1p1", "(F)")>>, ""),
                 Array("md1", "inactive", <<TRUE>>, <<Member("sdb4", "")>>, "")}

On(id, type, source, members, used) ==
    [id |-> id, type |-> type, source |-> source, members |-> members, used |-> used]
SmallFileSystems ==
    {On("root", "ext4", "sda2", {"sda2"}, 5), On("array", "xfs", "md1", {"md1"}, 3),
     On("crypt", "btrfs", "dm0", {"dm0"}, 4), On("pair", "btrfs", "sda2", {"sda2", "dm0"}, 7),
     On("snap", "squashfs", "loop0", {"loop0"}, 2), On("real", "ext4", "dm1", {"dm1"}, 1),
     On("data", "zfs", <<"tank", "data">>, {}, 0), On("bulk", "zfs", <<"bulk", "bulk">>, {}, 0)}

Vdev(depth, name, type, section, alloc) ==
    [depth |-> depth, name |-> name, type |-> type, section |-> section, alloc |-> alloc]
Tank == [name |-> "tank", health |-> "ONLINE",
         vdevs |-> <<Vdev(0, "mirror-0", "mirror", "data", 4), Vdev(1, "dm0", "disk", "data", NoAlloc),
                     Vdev(1, "sdb1", "disk", "data", NoAlloc), Vdev(0, "sdb3", "disk", "logs", 3),
                     Vdev(0, "nvme0n1p1", "disk", "cache", 6)>>]
Bulk == [name |-> "bulk", health |-> "DEGRADED",
         vdevs |-> <<Vdev(0, "raidz1-0", "raidz", "data", 5), Vdev(1, "md0", "disk", "data", NoAlloc),
                     Vdev(1, "replacing-1", "replacing", "data", NoAlloc),
                     Vdev(2, "sda3", "disk", "data", NoAlloc), Vdev(2, "sda4", "disk", "data", NoAlloc)>>]
SmallPools == {Tank, Bulk}

ASSUME SmallStacks == FourLevels

Symmetry == Permutations(Paths)
===============================================================================
