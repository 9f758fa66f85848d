SPECIFICATION Spec
CONSTANTS
    Disks = {"sda", "sdb", "nvme0n1", "nvme1n1"}
    Loops = {"loop0"}
    Stems <- Cut
    ParentOf <- Partitions
    Mapped <- OnMapper
    InternalLvm = {"dm1"}
    Arrays <- SmallArrays
    FileSystems <- SmallFileSystems
    Paths = {a, b}
    PoolsKnown <- SmallPools
    Swaps = {"sdb2"}
    MaxMounts = 2
    ChainsShown = 1
    AffectedShown = 1
    MaxChanges = 2
SYMMETRY Symmetry
INVARIANTS
    MountedOnce
    LatencyExclusive
    ViewsAgree
    ExceptionsAnnounced
    UsageConserved
