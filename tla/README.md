# iodyne in TLA+

iodyne is a terminal monitor for disk I/O on Linux and macOS. It samples the counters of block
devices, adds per-request latency and per-file activity from eBPF programs where the kernel allows
them, and shows both per device and per volume, on a terminal or as a stream of JSON lines. This
directory models the part of it that has state or that decides what belongs to what: the eBPF
programs and the maps they share with userspace, the sampler, the ten-second window and the hot files
taken from it, the resolution of volumes, the stream, and the two threads of the terminal
application. Each module is translated from the source; `PROJECT.json` names for every definition the
lines it stands for.

Contents: [the system](#the-system), [the modules](#the-modules), [the runs](#the-runs),
[fairness](#fairness), [what is proved](#what-is-proved),
[where code and documentation disagree](#where-code-and-documentation-disagree),
[what is not modelled](#what-is-not-modelled), [plan](#plan), [how to run it](#how-to-run-it).

## The system

| Component | State | Operations | Interacts through | What is hard | What makes it correct |
| --- | --- | --- | --- | --- | --- |
| VFS accounting: `vfs_activity.bpf.c` (`record_vfs_file`), `batch.rs`, `ebpf.rs` (`read_vfs_counts`), `io.rs` (`poll_vfs_events`, `record_vfs_drain`, `sample_hot_files`) | `VFS_AGG`, `VFS_DROPS`, the drain's cursor and buffers, `pending_vfs*`, `previous_vfs_drops` | a probe per completed call; the paged drain; reading drops; the sample | a BPF hash map deleted from while probes hold pointers into it | probes on every CPU against lookup-and-delete; a page that fails after earlier pages were deleted; several drains per sample | no call counted or charged twice; drops reported once; what is lost is lost by a failure that is shown; drains end |
| VFS calls and paths: the rest of `vfs_activity.bpf.c`, `ebpf.rs` (`load_vfs_linux`, paths of a drain) | `PENDING_VFS_IO`, `PENDING_ITER_IO`, `VFS_PATHS` | entry and return of `vfs_read`, `vfs_write` and the iter functions; the path program | one slot per task and map; an LRU table of paths | nested calls, attachment of eight programs one by one, an empty path that is being resolved | a return records its own call; a row's path is there, and is its process's |
| Block latency: `disk_latency.bpf.c`, `ebpf.rs` (`snapshot`, `histogram_delta`) | `STARTS` (LRU), `HISTOGRAMS` (per CPU), the previous snapshot | issue, completion, attachment, snapshot | BPF maps; the request structure's address is the key | recycled requests, partial completions, requeues, two CPUs creating one counter, reading while counting, programs attached one after the other | each read or write measured once, from its own issue; each count reported once |
| FUSE attribution: `vfs_activity.bpf.c` 440-780, `ebpf.rs` (origins) | `ACTIVE_FUSE_REQUESTS`, `PENDING_FUSE_READS`, `FUSE_LOGICAL_WRITERS`, `FUSE_REQUESTER_IDENTITIES`, the origins in `VFS_AGG` | request selected, `/dev/fuse` read and its return, reply, requester waits, logical write (two halves) | maps keyed by worker, node and header pid | optional programs that may not attach, replies nobody sees, writeback long after the write, full and LRU maps | I/O is charged to its requester or to the daemon, never to another process |
| Activity window and hot files: `io.rs` 990-1450 | frames, totals, their span | push, trim, subtract, source lost; merge, rank, cut, complete from `/proc` | called by each drain and by each sample | totals kept by adding and subtracting parts in `f64`; processes that ended since the call | totals are the last ten seconds; the list is the hottest of them, with its contributors |
| Device and volume sampling: `io.rs` (`prime`, `set_volume_rows`, `sample`), `storage.rs` (`assign_latency_sources`) | previous totals, rings per device and volume, traced rings | sample, replace the rows | `/proc/diskstats`, the latency snapshot, rows from the background thread | devices and rows that come, go and are replaced; wrapping counters; reads that fail | ticks are exact; a volume is the sum of its sources; series aligned and of one set of sources |
| Storage resolution: `storage.rs`, `topology.rs` | none | `resolve`, `leaves`, `relationships` | sysfs, what discovery collected | partitions, arrays, mapper devices, the parts of LVM volumes, pools and multi-device btrfs over the same disks | a mount is in one row; requests of a disk are claimed by rows that share it with nothing |
| Discovery: `volumes.rs`, `devices.rs`, `btrfs.rs`, `filesystems.rs`, `mounts.rs`, `linux.rs`, `smart.rs`, `macos.rs`, `iokit.rs` | cached arrays and pools, SMART's timer | parsers of files and of other programs' output, used bytes per device | sysfs, `/proc`, `zpool`, `smartctl` | parts of an answer are of different age; a listing without nesting | used bytes are neither lost nor added twice |
| Terminal application: `app.rs`, selectors of `screen.rs` | the snapshot, selections, pause, overlay, quota | keys, tick, draw; the background thread | `Arc<Mutex<CollectorSnapshot>>` | two threads, indices into lists that are replaced | the selection follows what it is on; the screen shows what a key acts on, and catches up |
| Rendering: `screen.rs`, `ui/` | none | vertical layout, window on the rows, charts | the application's state, the size of the terminal | `u16` heights down to zero | the row that keys act on is drawn, nothing outside the area |
| JSONL stream: `jsonl.rs` | inventory, revision, device names | sample, refresh inventory, write | stdout | names and facts read at different times; a reader that leaves | a sample names an inventory that describes it |
| Settings: `config.rs` | one JSON file | load, save | the file | a file that is truncated and then written | what is saved is what is shown |
| Command line: `main.rs` | none | arguments, diagnostics report | | | |

The main loop (`app.rs` 378-407) draws, waits up to 100 ms for a key, and ticks. A tick takes the
background thread's snapshot, replaces the sampler's rows, drains the VFS table and, when the display
interval has passed, samples. So all userspace state of the collectors is touched by one thread; the
concurrency is with the kernel's programs, with the host, and with the background thread. The stream
(`jsonl.rs` 39-123) has no second thread, so its host changes between any two of its steps.

## The modules

State machines, each with an `...MC` module that instantiates it for TLC:

| Module | Models | State and actions |
| --- | --- | --- |
| `OpLedger` | abstract specification: what the accounting path promises about each completed call | `fate` of each call: open, counted, admitted, reported, or refused, seen, disclosed, or lost |
| `VfsAgg` | the accounting path; implements `OpLedger` under the mapping `Ledger` (a call's fate read off the counters it is in) | a probe is interleaved at each map helper call and at each of its two atomic additions (`Lookup...`, `Insert...`, `Relookup...`, `AddBytes`, `AddOps`, `CountDrop`); the collector drains page by page (`PageMore`, `PageLast`, `PageBusy`, `PageFails`), accounts, reads drops, samples |
| `VfsCalls` | a call from its entry to its return probe, and its file's path | tasks have stacks of calls; `Attach`, one program at a time, `AttachFails`, `AttachPath`; `Enter`, the path program in two halves (`PermitUnseen`, `PermitKnown`, `InsertSentinel`, which may evict; then `PublishPath` or `PathFails`), `Return`; a drain takes rows (`BeginDrain`) and looks their paths up (`LookupPath`, `LookupFails`) |
| `BlockLatency` | issue and completion programs, histograms, snapshots | the block layer reuses requests, completes them in parts and requeues them; a completion is interleaved at each helper call; the reader reads one counter at a time |
| `FuseAttribution` | who is charged for a FUSE daemon's I/O | tasks ask, wait and write in two halves; workers read, splice, reply, or end unseen, and their operations make entries of `VFS_AGG` that keep their first origin until drained; `hooks` is the set of programs the kernel let attach |
| `ActivityWindow`, `HotFiles` | `VfsActivityWindow`, and what a sample makes of its totals | a drain pushes a frame, trims, and updates the totals; the hot files are operators over the totals and over any `/proc` there may be at that moment |
| `IoSampler` | `prime`, `set_volume_rows`, `sample` | the kernel counts and devices come and go between the reads of one sample: `BeginSample`, `Diff`, `TakeTraced` |
| `HostViews` | a host that changes and the background thread that collects it | `Change`; `RefreshUsage`, `CollectFilesystems`, `CollectVolumes`, `CollectDevices` and `ResolveRows`, each of the host as it is at that step, or their timers not due |
| `JsonlStream` | `run_stream` | `CollectFilesystems`, `CollectVolumes`, `CollectDevices`, `CollectTopology`, `WriteInventory` or `KeepInventory`, `Sample`, `WriteSample`, `WriteFails`; `Change` and `Tick` between any two |
| `AppUi` | main loop, keys, settings file, background thread | `Draw`, `Key`/`NoKey`/`Quit`, a save in two halves (`OpenSettings`, `WriteSettings`), `Apply`, `SampleDue`/`SampleNotDue`, `DrawLast`; `RefreshUsage`, `RefreshMetadata`, their rows, `Publish`; `Change` of the host between any two |

Algorithms without state, as operators that the machines above use:

| Module | Models | Used by |
| --- | --- | --- |
| `BlockGraph` | partitions, slaves, leaves and member disks of a block device (`topology.rs`, `devices.rs`) | `StorageRows`, `DeviceViews` |
| `MdstatList` | the parser of `/proc/mdstat` and the lines it is given for a host's arrays | `StorageRows` |
| `Tally` | sums of natural numbers, as the number of their units | `IoSampler`, `ActivityWindow`, `HotFiles` |
| `ZpoolList` | both parsers of `zpool` (JSON, and the listing whose nesting is guessed) and what a pool's vdevs allocate | `StorageRows` |
| `StorageRows` | the rows of `resolve`, their members and counters, and which row gets a disk's latency | `DeviceViews`, `HostViews` |
| `DeviceViews` | used bytes by device, mounts attributed to devices by the screen, its topology lines and the line of exceptions, edges of the stream's topology | `HostViews` |
| `Screen` | heights: body, overview, window on the rows, detail, charts, member table | `AppUi` |

`VfsMapsProofs` (about `VfsAgg` and `FuseAttribution`), `VfsCallsProofs`, `BlockLatencyProofs`,
`HotFilesProofs`, `IoSamplerProofs`, `JsonlStreamProofs`, `AppUiProofs` and `HostViewsProofs` hold the
theorems; those about the rows of `StorageRows`, the parsers and the closures of `BlockGraph` are in
`HostViewsProofs`. `RowsOf` of `AppUi` is `Resolve` of `StorageRows` seen from the
screen: a row for each file system, and the members it has.

How data is abstracted:

- A counter is the *set* of the calls (or I/Os) it counts. The number the program holds is right
  exactly when no call is in two of the sets it adds up, so "counted twice" is a property of sets.
- In `VfsAgg` each call runs one probe, and its key (device, inode, process, origin) is chosen when it
  runs; paths and names are part of the key. `VfsCalls` has the calls around the probe and the paths,
  and of the table only which rows hold calls that no drain has taken.
- In `BlockLatency` a start value is which issue of which I/O wrote it; the bucket a latency falls in
  is left open. In `IoSampler` a histogram is its number of requests and a device's counters are its
  operations and its busy time, the latter modulo `Wrap`.
- `ActivityWindow` keeps the exact value of a total and whether the `f64` that holds it may differ by
  a rounding error. In `HotFiles` a key is what a call captured (file, process, thread, parent, whether
  a container and a path were seen).
- In `JsonlStream` what a device is (model, numbers, size) is one *fact* of it, and how mounts or
  arrays are one value. In `HostViews` a line of `zpool`'s listing is a record of its columns, one of
  `/proc/mdstat` its words, of which the parser sees what tells them apart, and a file system is its
  type, source, member devices and used bytes. A name that the screen cuts (`nvme0n1` to `nvme0n`) is in
  `Stems`, a mapper device of LVM whose name or uuid ends as those of hidden parts do in `InternalLvm`;
  where the screen cuts a sorted list short, the model has some fixed order, and no property depends on
  which one.
- In `AppUi` a device or volume is its place in the order of names, intervals are "due or not", one
  step of a thread is atomic between two points where the other thread or the host can matter, and the
  settings file is what was written, empty after it was truncated, or `Torn`. `Screen` counts lines.

What the models assume: every event of an attached tracepoint runs its program, and a return probe
fires for the calls entered after it was attached (a kernel that runs out of return instances is not
modelled); a per-CPU counter is read whole (its parts are different CPUs' and only grow); an LRU map
with fewer keys than `LruFloor` evicts nothing, and with more any set of other keys (the kernel's lists
are not modelled); a FUSE worker serves one request at a time and does its backing I/O itself; the
header pid of a request a task made is not zero; every call asks `security_file_permission` before it
calls on the file below; a path has one mount (over-mounts are excluded); no array is partitioned
(`HostAssumption`: the views disagree about those, see below). History variables record what the
properties speak of and no action reads them: `lastWrite`, `contended`, `unseen` in
`FuseAttribution`; `missed` and `crowded` in `BlockLatency` (an I/O whose issue was not seen, or
whose start or counter a full table lost); `lost` and the mark `owed` of a call in `VfsCalls` (a
path key that was evicted or used too early; a call that its probes are bound to count); `changed`
in `JsonlStream`; `current` in `HostViews`.

## The runs

`expect: pass` unless noted. Deadlock is checked except where the bounded instance really stops
(`IoSampler` after its last sample, `HotFiles` after the source is lost, `JsonlStream` and `AppUi`
after they end, `VfsCalls` after attaching failed).

| Run | Instance | Checks |
| --- | --- | --- |
| `agg_accounting` | 3 calls, 2 keys (one iodyne's own), 2 elements, 1 retry | `CountedOnce`, `ChargedOnce`, `DropsReportedOnce`, `SampleConsistent`, `ImplementsLedger`, and under fairness `DrainEnds`, `RecordedIsReported` |
| `agg_silent_loss` (violation) | 2 calls, 2 keys, 2 elements | `NoSilentLoss` |
| `vfs_calls` | a process whose calls on one file call on another, and the FUSE daemon that uses that file on its behalf; both kinds and directions; pending maps and path table with room for one | `CountsOwnCall`, `NamedWhenCounted`, `PathIsOwn` |
| `block` | 2 I/Os with up to 2 issues and 2 completions, 2 requests, 2 kinds and flushes, a start table that evicts at one entry, a histogram with room for two keys | `TracedMeasuredRight`, `CompletedIsCounted`, `ReportedOnce`, and under fairness `CountedIsReported` |
| `fuse` | 2 tasks of different processes, one of them with another pid in its requests than on the host, 2 workers, 1 node, room for one active request and one identity; every set of programs; entries of `VFS_AGG` are followed where the writer program is not attached (`OriginsWithoutWriters`, a constraint) | `RequesterCharged`, `OwnWork`, `WritebackNeverGuessed` |
| `hot_files` | 3 keys of 2 files, a window of 3 ticks, drains 1 to 3 ticks apart that age it by 2 at most, a list of one; every `/proc` of those processes, of whose descriptors the first is looked at (256 in the code) | `WindowIsRecent`, `HottestOfWindow`, `ContributorsShown` |
| `sampler` | 1 disk with 1 partition, 2 volumes, 4 layouts, a time counter that wraps at 4, 3 samples, 1 change, reads that fail | `TypeOK`, `TicksAreExact`, `VolumesAreExact`, `SeriesAligned`, `SeriesIsOwn` |
| `sampler_stale` (violation) | the same | `VolumeRequestsAreOfTick` |
| `host_views` | 4 disks, two of them (`nvme0n1`, `nvme1n1`) with names that the screen cuts, with 9 partitions, 2 arrays (rebuilding, degraded, with a failed member, read-only or inactive), 2 mapper devices, one of them inside an LVM volume, which may be stacked (array, mapper device, array), 8 file systems (ext4, xfs, btrfs on one and on two devices, squashfs on a loop, ZFS), 2 pools with mirror, raidz, log, cache and a device being replaced, swap; up to 2 mounts and 2 changes; one chain in a header and one disk of an array in its exception (`ChainsShown`, `AffectedShown`; 2 and 3 in the code) | `MountedOnce`, `LatencyExclusive`, `ViewsAgree`, `ExceptionsAnnounced`, `UsageConserved` |
| `jsonl` | a disk and a logical device, 2 facts, 2 states of mounts and of arrays, a refresh every 2 intervals, 2 samples, 2 changes | `StreamIsReadable`, `SamplesAreDescribed`, `OutdatedIsRecent` |
| `ui_keys` | 2 disks, 2 volumes, 2 layouts, 6 keys, `--intervals 2`, terminals of 4 and of 22 lines | `WholeSnapshots`, `KeysActOnShown`, `QuotaIsShown`, `SelectedIsDrawn`, `SettingsKept`, `SelectionKept` |
| `ui_live` | the same host, pause and settings | under fairness `ScreenCatchesUp` |

What the properties say:

- `CountedOnce`, `ChargedOnce`: two linked entries, a batch that was drained, the pending interval,
  the drop counter and the published samples never hold one call twice, although a probe may go on
  adding to an element that was deleted and reused. `DropsReportedOnce`: the baseline of the drop
  counter is exactly what has been or is about to be published.
- `ImplementsLedger`: reports and disclosures are final, and a *counted* call is lost only by a
  failed drain that turns the collector off. `RecordedIsReported`: it is published in the end.
- `SampleConsistent`: activity and admitted count of a sample come from the same drains, also when
  the collector fails between two of them. `DrainEnds`: a pass ends, although probes insert around
  its cursor and a page may be busy.
- `CountsOwnCall`: a return probe records the file and direction of its own call and, if the call's
  programs were attached, its entry found room and no call of its kind was made inside it, does record
  it. `NamedWhenCounted`: when a drain can take a row its path is published, or was lost, or is being
  resolved at that moment. `PathIsOwn`: it is a path by which the process that made the calls knows
  the file, whoever is charged.
- `TracedMeasuredRight`: a read or write is counted once, after its *final* completion, from its own
  latest issue, under its own device and direction. `CompletedIsCounted`: none that both programs saw
  is missing, unless a full table lost it. `ReportedOnce`: snapshots that read counter by counter
  report each count once. `CountedIsReported`: and eventually.
- `RequesterCharged`: what a worker does for a request is charged to its requester's process, to the
  requester's bare pid, or to the daemon; to the process once it waits, if neither map was full and no
  entry made before that is still in `VFS_AGG` (such an entry keeps the bare pid until it is drained).
  `OwnWork`: what it does for no request is its daemon's. `WritebackNeverGuessed`: writeback is charged
  to a process only if it alone wrote the node within the window, on nodes no two tasks ever wrote at
  once.
- `WindowIsRecent`: the totals are what the drains of the last ten seconds counted.
  `HottestOfWindow`: the list is the hottest files of that, each once with all of its processes.
  `ContributorsShown`: each of those processes is displayed, by itself or by its parent, with the
  container and the path that were captured, whatever `/proc` holds by then; where no path was, with
  one found among the descriptors that are scanned (`PROC_FD_SCAN_LIMIT`).
- `TicksAreExact`: a tick is what the disk did between two reads, across a wrap and never from before
  the first read. `VolumesAreExact`: a volume adds up the sources that have a baseline.
  `SeriesAligned`, `SeriesIsOwn`: throughput and latency series have entries for the same samples, and
  a volume's series was summed over the sources it has now.
- `MountedOnce`: each mount of a block device, of a pool or of a btrfs over several devices is in one
  row, however old the list of pools is; one of a mapper device inside an LVM volume (`IsInternal`) is
  in none. `LatencyExclusive`: a row that claims the requests of a disk is the only one with anything on
  that disk. `ViewsAgree`: the row of a mount, the devices under which the screen shows it and its files,
  the stream's topology and the stack as it is come to the same disks; the header of a disk names its
  mounts or counts them, and each chain it names is of a mount on that disk and marks it. What the
  screen shows is compared for the disks whose names it does not cut (`Lettered`).
  `ExceptionsAnnounced`: the first line of the screen warns of each array and pool that is not sound, by
  name or by a count, and of nothing else; the disks of the array it names are named or counted too, if
  that array runs and none of its members is a disk whose name is cut. `UsageConserved`: what
  file systems and pools use is on the devices once, but for the rest of a division. The last four
  hold once what they were computed from is of the host as it is, whatever was collected before.
- `StreamIsReadable`: records are numbered without a gap, begin with an inventory, and each sample
  names the revision of the last inventory before it, which differs from the one before.
  `SamplesAreDescribed`: that inventory has each device of the sample. `OutdatedIsRecent`: if it is not
  what the host is, the host changed since it was collected, and `TOPOLOGY_REFRESH` has not passed.
- `WholeSnapshots`: rows, filesystems and volumes of a snapshot were resolved together, although they
  are refreshed at their own times. `SelectionKept`: the selection stays on its device or volume while
  that is listed. `KeysActOnShown`: on a live screen the list and selection a key works on are those
  drawn. `SelectedIsDrawn`: on a terminal of any height the row that keys act on is among the drawn
  ones and its detail fits. `QuotaIsShown`: `--intervals n` ends after n samples with the last one
  drawn. `SettingsKept`: but for a save that is under way or failed, the file holds what is shown.
  `ScreenCatchesUp`: a live screen ends up with a host that has stopped changing.

Why the bounds are enough: the hazards need two probes on one key and a drain between two of their
steps (three calls, so a third can take the freed element), an element that is deleted and reused
(two elements), a call inside another's (two files), a table that is full (room for one), a request
that is recycled (two I/Os on two requests), a second process that writes (two tasks), a device that
disappears and returns or a row that changes between two samples and one sample after it (three
samples, with rings of two so that they overflow), a host that changes within a collection and again
after it (two changes), a frame that is dropped whole and one that is cut (a window of three ticks,
steps of one to three), and a list that shifts under an index (two elements). Terminals of 4 and 22
lines are the ones where a window first scrolls and where the detail is tabbed.

Two cases are beyond the instances and covered by theorems alone: `fuse` runs with `MaxTime = 1`, so an
entry older than the window does not occur in it (`NeverGuesses` holds for every window), and in
`vfs_calls` calls nest two deep and every file is on storage (`ReturnsCountOwn` holds for any nesting
and any set of files).

`Stamps` (samples are numbered modulo it), `MaxTime`, `MaxIssues`, `MaxParts`, `MaxIo`, `MaxChanges`,
`MaxSamples`, `MaxMounts`, and `MaxElapsed`/`MaxRate` are bounds of the model, not of the code.
`PendingSize`, `PathsSize`, `ActiveRoom`, `LruFloor`, `MaxHistogramKeys`, `RingLen`, `Refresh`,
`ChainsShown`, `AffectedShown` and `Limit` are sizes of the code, made small.

## Fairness

- `VfsAgg`: weak fairness of the collector (the main loop runs) and strong fairness of `Sample` (each
  pass may find the display interval not yet due, but time passes). None of the probes: the kernel
  owes nothing. `PageBusy` may repeat only `BUSY_RETRIES` times, which is why drains end.
- `BlockLatency`: weak fairness of the reader; the block layer may stop at any point.
- `AppUi`: weak fairness of both threads; strong fairness of a sample, a usage refresh and a metadata
  refresh being due, since each is a timer that the loop compares each time round. The background
  thread's calls to other programs are assumed to return: `smartctl` and `zpool` are run without a
  timeout, and one that hangs stops every refresh (listed under [plan](#plan)).
- The other modules have no liveness property.

## What is proved

TLAPS proves, for every value of the constants that satisfies the modules' `ASSUME`s:

| Module | Theorem | Statement | Argument |
| --- | --- | --- | --- |
| `VfsMapsProofs` | `TypeCorrect` | `[]TypeOK` | inductive; a probe that adds has an element |
| | `CountsOnce` | `[]CountedOnce` | `CountInv`: `CountedOnce` is not inductive, since a probe may add to any element it once looked up. It becomes so with `OneKeyPerElem` (no element is linked twice) and `UnfinishedUncounted` (a call that has not finished is in no counter, not even in a deleted element): then the addition is the call's first |
| | `ChargesOnce` | `[]ChargedOnce` | the same for bytes, which are added before the operation (`UnfinishedUncharged`) |
| | `DropsOnce`, `DrainsBounded` | `[]DropsReportedOnce`, `[]DrainBounded` | inductive with `TypeOK`, and with the bound carried from page to page |
| | `SamplesConsistent` | `[]SampleConsistent` | `PendingAdmitted`: what is merged plus what is accounted but not merged is what was admitted |
| | `Refinement` | `ImplementsLedger` | each action maps to a ledger step or a stutter, under `CountInv`, `DropsReportedOnce` and `DrainInv` |
| `VfsCallsProofs` | `CallsTypeCorrect` | `[]TypeOK` | inductive |
| | `ReturnsCountOwn` | `[]CountsOwnCall` | `CallInv`: a call that is owed was probed since its entry, what is pending was read below the innermost call, and an entry left behind by an inner call is its own; every fact speaks of all levels of a stack, so nesting may be of any depth |
| | `PathsAreOwn` | `[]PathIsOwn` | `TableIsOwn`: a path was published by a task of the process of its key |
| | `NamedBeforeDrained` | `[]NamedWhenCounted` | `NamedInv`, which carries a call's path from the permission to the return |
| `BlockLatencyProofs` | `BlockTypeCorrect` | `[]TypeOK` | inductive |
| | `MeasuresRight` | `[]TracedMeasuredRight` | `MeasureInv` (`Unshared`, `OwnStart`), with `CountedUnderKey`: no element and no live request is shared, and until a completion has read it the start of a read or write is its own |
| | `CountsCompleted` | `[]CompletedIsCounted` | `RecordInv` (`Recorded`), under `MeasureInv`: the start of an issue that was seen is there, and so is the counter a loser of the insertion looks up again |
| | `ReportsOnce` | `[]ReportedOnce` | `BaselineInv`: an iteration never reads less than the baseline it is compared with |
| | `FuseTypeCorrect` | `[]FuseTypeOK` | inductive; includes that a request is with one worker at most |
| | `ChargesRequester` | `[]RequesterCharged` | `ActiveIsServed` (a worker's entry is of the request it has, whatever was seen of its last one), `WaitingIsKnown`, and of the entries in `VFS_AGG` `OriginsOK` (the identity is of the pid in the key) and `NamelessIsEarly` (none without identity was made once the requester was known) |
| | `OwnWorkIsDaemons` | `[]OwnWork` | from `ActiveIsServed` |
| | `NeverGuesses` | `WritebackNeverGuessed` | `WritersInv`: on an uncontended node what a writer looked up is still what the map holds, the entry is the last write, and a write of another process is older than the window or made the entry ambiguous for as long |
| `IoSamplerProofs` | `CountersTyped`, `TicksExact` | `[]Typed`, `[]TicksAreExact` | `CountersInv`: a reading is the counters at boot plus what was done since, modulo the wrap, unless the device was replaced after it |
| | `VolumesExact` | `[]VolumesAreExact` | `ReadingsInv`: until it is taken, what was read of a source is what its baseline and its counters say; a sum over sources is a count of units, so equal families have equal sums |
| | `SamplerTyped` | `[]TypeOK` | `RestTyped`, with `VolumesInv`: no entry of a series is negative, and no ring is longer than `RingLen` |
| | `SeriesAreAligned` | `[]SeriesAligned` | `DisksInv`: the two rings of a disk are level, or one is ahead by the sample under way |
| | `SeriesOwn` | `[]SeriesIsOwn` | `VolumesInv`: a ring is cleared whenever the sources of its volume change |
| `HotFilesProofs` | `WindowTyped`, `WindowExact` | `[]TypeOK` (of `ActivityWindow`), `[]WindowIsRecent` | `WindowInv`: the frames cover the last ticks one after the other, each with the rate of its ticks (`Covers`), and each total is what those ticks counted. A push adds its ticks at the end (`PushedKeeps`), a turn of `trim_to` takes as many from the front of the frames as from the totals (`CutKeeps`), and its loop ends at the edge (`TrimKeeps`) |
| | `HottestAreShown` | `[]HottestOfWindow` | `Merged`: the rate of a merged entry is the sum over all keys of its file; `TopExists`: a cut of every size exists that leaves nothing above it, so the choice in `Hottest` is of one |
| | `ContributorsAreShown` | `[]ContributorsShown` | `MergedFrom`: what each entry leaves in the merged one; then step by step through `ResolvedPath`, `Collapsed` and `Annotated`, for any `/proc` |
| `JsonlStreamProofs` | `StreamReadable`, `SamplesDescribed`, `OutdatedRecent` | `[]` of the three properties of `jsonl` | `RecordsInv` (the last inventory written is the current one and in force), `NamesInv` (the names a sample was read with are those the inventory was collected for) and `DraftInv` (each part of a draft is of the host as it is unless that changed) |
| `AppUiProofs` | `TypeCorrect`, `SnapshotsAreWhole`, `SettingsAreKept`, `QuotaIsKept`, `KeysActOnTheShown`, `SelectionIsDrawn`, `SelectionIsKept` | `[]TypeOK` and the properties of `ui_keys` | invariants by the place of each thread; `SelectionIsKept` rests on lemmas about the place of an element in an ordered set, `SelectionIsDrawn` on the next two |
| | `EveryOverviewFits`, `EveryDetailFits` | for every height, number of rows, selection and number of members | arithmetic, case by case of the layout |
| `HostViewsProofs` | `HostInvHolds` | `[]HostInv` | inductive: the host is one that can be, and what `current` names was made of it as it is; rows are of *some* volumes, since those the thread had when it resolved them may have been collected again |
| | `MountedOnceHolds` | `[]MountedOnce` | `HostInv` with `EachMountInOneRow`, `MountsHaveDomains`, and `InternalLeftAside`: the group that gets no row is just the mounts of such a device |
| | `ExceptionsAnnouncedHolds` | `[]ExceptionsAnnounced` | `HostInv`: the collected arrays and pools are those of the host (`MdstatIsRead`, `PoolsAreListed`); `ArraysAreAnnounced`: the score of an array is positive just when it is unsound, and one that does not run scores above any that does. `FoldedMembers`: without a name that is cut, the fold of the screen is that of `/sys`; `CutOf`: a list cut at any length and the count of the rest lose nothing |
| | `LatencyExclusiveHolds`, `RowsHaveTheirDisksHolds` | `[]LatencyExclusive`; `[]RowsHaveTheirDisks`, the first part of `ViewsAgree` | `HostInv` with `LatencyOfOneRow`, `MembersArePhysical` and `UnderRow`: kind by kind of row, the names it is given are those of all that its mounts, its pool or its swap are on |
| | `ViewsAgreeHolds` | `FourLevels => (Spec => []ViewsAgree)` | `HostInv` with `RowOfMount` (the blocks of a row are those each of its mounts is on) and one lemma for each view: `ShownAreUnder`, `FilesAreUnder`, `ReachedAreUnder`, `HeaderOf`. `WaysDown`: four steps of `sysfs_slaves` end at the disks that are physically under a block; `LetteredWays`: so does the screen's own fold, as far as the names it does not cut; `FollowTakes`: `Follow` loses no edge on the way down |
| | `PoolsAreListed` | what `zpool` lists of any pools, in JSON or as text in any order, is read as one pool each with its name, its health, its disks and those of them that hold data | `TextIsRead`: line by line, `HasRead` says where each vdev read so far was put, although the depth is guessed from names; `JsonIsRead`: `PlaceTells`, a vdev is numbered among those of its depth, so no two have one place |
| | `EachMountInOneRow` | what `Resolve` (`StorageRows`) makes of any host, mounts and volumes, whatever their ages: every mount that has a domain is in one row, or in none when its group is on a mapper device inside an LVM volume, and no id is there twice. Assumes that no two collected pools have one name | `RowOfDomain`, `DomainHasRow`, `DomainHasOneRow`: the id of a row is the domain of each of its mounts; `LeftAsideHasNoRow` |
| | `LatencyOfOneRow` | of the same rows: no disk whose requests a row claims is among those of another | `ResolvedRows`: assigning latency changes nothing else of a row |
| | `MembersArePhysical` | the disks of any names are those physically under them. Assumes `Stacked`: finitely many blocks, no array partitioned, disks at the bottom (`HostIsStacked`: so is every host of `HostViews`) | `LastIsLeastClosed`: each of the steps of a closure either adds a block or has reached a closed set, so after as many as there are blocks it is the least closed set; the two closures, of slaves and of slaves and partitions, then differ by the disks of partitions |

Conditions left in statements are about facts outside the program: `PidsApart` (the pid in a task's
requests is no other task's there or on the host), `WritersKept`, `IdentitiesKept` (a table that was
not full). Without them the stronger half of the property is false and the weaker half still holds,
which is also checked with full tables. `DrainBounded` and the type invariants of `VfsAgg`,
`BlockLatency`, `FuseAttribution`, `VfsCalls`, `ActivityWindow` and `AppUi` are proved and in no run.

A sum is a number of units (`Tally`): its lemmas are those of finite sets, and no recursion has to be
unfolded. Where an argument is by induction (the turns of `trim_to`'s loop, the ends of frames, a cut
of each size), it is by the least counterexample: a set of natural numbers has a least element
(`LeastNatural`, from the library's well-foundedness of `<`), so the set of those for which a fact
fails is empty. The recursive function inside `TrimTo` is a `CHOOSE` of a function that satisfies its
equation; `TurnsExist` builds one, and `WalkExists` those inside `BlockLeaves`, `Physical` and `Follow`.
`WindowInv` was checked by TLC as an invariant of `hot_files` before it was proved. The assumptions
made for these proofs are that a host has finitely many block devices (`SamplerAssumption`) and that
there are finitely many keys (`KeysAssumption` of `HotFiles`: inode and process numbers have a
width).

`HostInv` speaks of volumes that are in no variable any more and of parsers, so TLC does not evaluate
it; what it implies is checked by `host_views`. Its proof rests on what two parsers make of lines that
some host has written. Both readers are recursive functions over a list of lines; `After` is what a
reader has after some lines, `AfterBoth` and `AfterFlattened` cut the list where the text has parts, and
`OneByOne` goes through the parts. Its assumptions are `HostAssumption` and `Consistent`, which say what
`/proc`, `zpool` and `mdadm` show of any host: the vdevs of a pool are listed from the top, a group
before its members, and those are in its section (`IsPool`); an array has a member and a name
(`IsArray`) and a mapper device something under it; a file system that is not a btrfs is on its source
alone (`IsFileSystem`), and mounts of one id are of one file system (`IsOneFileSystem`); no pool has the
name of a block; a block has one user, a path one mount, imported pools have different names, and
nothing is mounted from an array that does not run; what is stacked on other devices is an array or a
mapper device; the names that the screen cuts are those of whole disks and loop devices, and no device
has the name that is left. Hosts are finite. How deep devices are stacked matters to `ViewsAgree` only:
`sysfs_slaves` follows a stack four levels down, so `ViewsAgreeHolds` has the hypothesis `FourLevels`,
and below a deeper stack the views do part. `HostViewsMC` states that its instance satisfies it.

Only model-checked:

- Liveness (`DrainEnds`, `RecordedIsReported`, `CountedIsReported`, `ScreenCatchesUp`): temporal
  reasoning with fairness is beyond these proofs.
- `UsageConserved`: sums over sets (`MapThenSumSet`) are folds, and what they add up to for any set
  is an induction over data.

## Where code and documentation disagree

Two are kept as runs that find a violation:

- `agg_silent_loss`: a probe looks an entry up, the drain retrieves and deletes it, and the probe adds
  to the deleted entry. The call is in no sample and in no drop count, against the comment of
  `VFS_DROPS` (`vfs_activity.bpf.c` 178-179). The loss window is a few instructions per drain.
- `sampler_stale`: `sample_volume_io` adds the newest traced sample of each latency source, also of a
  disk that had no tick in this interval, so a member disk that went away is counted again in each
  interval until the row changes (`io.rs` 884-889, against 190).

The next are stated in the modules; adding the property to the configuration shows the trace:

| Property | Add to | What happens | Against |
| --- | --- | --- | --- |
| `DropsOnlyWhenFull` | `AggAll.cfg` | an insertion that lost to another probe, whose entry is then drained, is counted as a drop of a full table | `vfs_activity.bpf.c` 180 |
| `AllMeasuredRight` | `BlockAll.cfg` | issue is attached before completion; a start left in between is found by a flush that reuses the request, since `iodyne_block_issue` returns for a flush without deleting it | `ebpf/README.md` 37 |
| `RequesterChargedAcrossNamespaces` | `FuseAll.cfg` with `HeaderPid <- SameHeaderPid` | requesters of two pid namespaces with one header pid replace each other's identity | `vfs_activity.bpf.c` 742-743 |
| `ConflictsSuppress` (action property) | `FuseAll.cfg` | two processes write a node at once, both look the previous writer up before either stores: neither entry is ambiguous | `ebpf/README.md` 63-65 |
| `JoinKept` (action property) | `FuseAll.cfg` | after `read(2)` the return probe records the request again without its `fuse_req`, and a joined writeback becomes "pid zero" | `ebpf/README.md` 55-56, `ebpf.rs` 836-838 |
| `IdleKeysForgotten` | `HotFiles.cfg` | the total of an idle key keeps a rounding error, is not 0.0 and stays in the table | `io.rs` 999-1002 |
| `BusyTimeIsExact` | `SamplerAll.cfg` with `MaxChanges = 2` | the time counter of a replaced device went back and is taken for a wrap | `io.rs` 256 |
| `VolumesFallBack` | `SamplerAll.cfg` | without the probes each volume gets a series of empty traced samples, which the screen prefers | `README.md` 55-57 |
| `FrozenStaysFrozen` (action property) | `UiLive.cfg` | any key pressed while paused draws again, with what was collected meanwhile | `README.md` 164 |

The others were met while modelling and are outside the instances, or outside the models:

- A request is queued, and can be served, before its task waits and is remembered. What is recorded of
  it until then makes an entry of `VFS_AGG` without an identity. If the task's pid is the same on the
  host, later operations have the same key, and until the entry is drained they too are shown as
  "pid N (unresolved)" (`vfs_activity.bpf.c` 612-615: a hit does not write the origin).
- A pid in a request that is on the host the pid of another task is the same key too, so in the
  interval in which the one is unresolved its operations and those of the other share an entry, and
  go where the first of them went. `PidsApart` excludes it.
- A btrfs on one device with two subvolumes mounted, and a mount whose `stat` fails beside another of
  its device, give two rows for one allocation domain, against `storage.rs` 1. For a path that is
  mounted over, `stat` answers for the upper file system, so the lower mount joins its row.
- `storage.rs` 500-510 leaves out what is mounted from a mapper device that it takes for a part of an
  LVM volume (`_real`, `_cow`, ... 911-941; test `lvm_internal_mappings_do_not_become_filesystem_rows`,
  1383-1397): such a mount is in no row, though its device and its disks show it.
- `whole_disk_name` of `screen.rs` (3645-3693) knows `nvme0n1p3` and `mmcblk0p1`, but a whole disk goes
  on to its last lines (3682-3690), where digits are stripped: `nvme0n1` becomes `nvme0n`, `mmcblk0`
  becomes `mmcblk`. So ext4 on LUKS or LVM on `nvme0n1p3` is not shown under `nvme0n1` (3561-3563,
  3593-3598), although its row has that disk; two namespaces with one stem are not told apart where both
  sides are folded; and the exception of an array of whole `nvme` disks reads "affects nvme0n" (796).
  `WholeDiskName` models it; the properties compare the screen on the other disks.
- A header names two chains and counts the rest ("+n mounts", 3005-3009), an exception names three disks
  and counts the rest (800-806).
- An array that is not active has no level in `/proc/mdstat`, and one that is read-only has
  `(auto-read-only)` before it: `parse_mdstat` takes the second word for the level whatever it is
  (`volumes.rs` 775-776), so the former loses its first member to it and the latter is shown with that
  word as its level.
- A partition of an array (`md0p1`) and the disks under it are both claimed, and with a mapper device on
  it the views disagree; `HostAssumption` excludes partitioned arrays.
- The header of a disk (`screen.rs` 3133-3145 and 3165-3179) names the members of an array, or the
  source of a plain file system, and follows neither: if those are stacked, no node of the chain is
  marked as the selected disk (`NamedDirectly` in `ViewsAgree`). A stack of more than four levels is cut
  by `sysfs_slaves` (`devices.rs` 398-431), and what is mounted from it is not shown under its disks.
- `member_disks` skips cache and spare vdevs, which the screen does show: another row may claim the
  requests of a disk that serves as a cache.
- Arrays and pools are cached, so whether a row has a disk to itself may be wrong until they are
  refreshed.
- `rbd0`, `bcache0`, `zd16` and `nbd0` lose their digits as well, so their partitions and what is stacked
  on them are outside the instances (`loop0` is inside).
- `screen.rs` 1676 counts one member too few in "+n more members". The aggregate of `screen.rs`
  547-567 counts mapper devices and what is under them, against the comment at 526-530, and adds
  histories by their age. `workload_view` merges series that leave out unavailable samples.
- `collapse_hot_file_processes` (`io.rs` 1326-1337) counts contributors by entry, where 73-77 speaks of
  processes. `resolve_hot_file_paths` reads `metadata` and then the link of a descriptor that may have
  been closed and reused in between.
- A call of the same kind inside a storage call, or a full pending map, loses the outer call's count
  and counts no drop. A file of btrfs or of another file system with an anonymous device number is
  never admitted by `vfs_key_for_file` (328-340). The comment at `vfs_activity.bpf.c` 802-804 says that
  the path program runs after the entry probe has created the count's key; keys are created at the
  return.
- A terminal that is resized while paused is not drawn until a key is pressed (`app.rs` 383-400).

## What is not modelled

- The buckets of the kernel's hash tables: a page of a drain takes any part of the table, so `ENOSPC`
  with no entry, which `batch.rs` 135 treats as an error, does not occur. Per-CPU parts of a counter;
  the BTF and kernel checks before programs are loaded; the container cache and status strings.
- Renames, hard links and the reuse of an inode number while its path is in the table; the reuse of a
  pid between a call and the drain that looks it up (`ebpf.rs` 588).
- Rates, awaits, percentiles and the aggregates of histories, which are computed from the modelled
  values and keep no state.
- The parsers of `lvs`, `smartctl` and model names; `macos.rs` and `iokit.rs`: what they
  report is input.
- Text, colours, widths and the drawing of charts; keys that change the sampling interval, the units
  and the detail tab; the CPU history; the command line and the diagnostics report. In `AppUi` the
  settings overlay swallows the other keys as the code does.

## Plan

Done, in the order of what is hardest to test: the kernel maps shared with userspace (`VfsAgg`,
`BlockLatency`, `FuseAttribution`, `VfsCalls`), the sampler and the window, storage and its views, the
stream, and the threads of the application with their screen and settings. Left:

1. The reuse of a pid or an inode between a call and the drain, in `VfsCalls` and `HotFiles`.
2. The background thread with a program that hangs.
3. The aggregate of `screen.rs` 525-676 and the buckets of a latency, as operators checked against a
   reference definition.

## How to run it

    tlc -config AggAll.cfg VfsAggMC.tla
    tlapm VfsMapsProofs.tla

`PROJECT.json` lists every run with its module and configuration, a faulty variant of a definition for
each property (an operator placed before the definition it replaces), and the source lines of each
definition.
