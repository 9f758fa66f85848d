----------------------------- MODULE JsonlStream -----------------------------
(***************************************************************************)
(* jsonl.rs: the stream of records that iodyne writes without a terminal.  *)
(* An inventory says what the host is; each sample names the revision of   *)
(* the inventory that holds for it, and its devices only by their names,   *)
(* so a reader joins the two.  An inventory is collected in parts while    *)
(* the host changes, and only when the names of the devices changed or the *)
(* last one is TOPOLOGY_REFRESH old.                                       *)
(*                                                                         *)
(* A device is its fact: the model, numbers and size that /sys has for it. *)
(* The record written is complete, or the reader is gone and it is lost.   *)
(***************************************************************************)
EXTENDS Naturals, Sequences, FiniteSets

CONSTANTS
    Names,      \* names in /proc/diskstats that are displayed as disks
    Logical,    \* those of them that the device collector does not list
    Facts,      \* what a device may be
    Unknown,    \* for a device that is gone
    Stacks,     \* how mounts and arrays may be
    Refresh,    \* TOPOLOGY_REFRESH, in sampling intervals
    Limit,      \* --intervals
    MaxChanges  \* bound: changes of the host

ASSUME StreamAssumption ==
    /\ Logical \subseteq Names /\ Unknown \notin Facts
    /\ Refresh \in Nat \ {0} /\ Limit \in Nat /\ MaxChanges \in Nat

VARIABLES
    host,       \* [disks, mounts, arrays] as they are now
    changes,    \* changes so far
    at,         \* what run_stream does next
    names,      \* prev_totals: the names in the last counters read
    ticks,      \* latest_intervals: those that were in the ones before too
    probes,     \* the eBPF collectors are active
    known,      \* sampled_device_names
    draft,      \* the inventory being collected
    inventory, revision, sequence, samples,
    elapsed,    \* intervals since last_topology_refresh, at most Refresh
    due,        \* an interval has passed since the last sample
    written,    \* the records that reached the reader
    \* History, for the properties.
    changed     \* the host changed since the last collection began

collector == <<names, ticks, probes>>
stream == <<known, draft, inventory, revision, sequence, samples, written>>
vars == <<host, changes, at, collector, stream, elapsed, due, changed>>

-----------------------------------------------------------------------------
Hosts == [disks : UNION {[D -> Facts] : D \in SUBSET Names}, mounts : Stacks, arrays : Stacks]

(* collect_with_volumes, and an entry for each sampled name it lacks.      *)
DeviceFacts(h, sampled) ==
    [n \in (DOMAIN h.disks \ Logical) \cup sampled |->
        IF n \in DOMAIN h.disks THEN h.disks[n] ELSE Unknown]

(* collector_statuses                                                      *)
Statuses == <<names # {}, probes>>

(* The inventory of a host that does not change meanwhile.                 *)
InventoryOf(h) ==
    [mounts |-> h.mounts, volumes |-> h.arrays, devices |-> DeviceFacts(h, names),
     topology |-> <<h.mounts, h.arrays, h.arrays>>, collectors |-> Statuses]

Empty == [mounts |-> Unknown, volumes |-> Unknown, devices |-> <<>>, topology |-> <<>>,
          collectors |-> <<>>]

InventoryRecord(r, inv) ==
    [type |-> "inventory", sequence |-> sequence, revision |-> r, inventory |-> inv]
SampleRecord ==
    [type |-> "sample", sequence |-> sequence, revision |-> revision, devices |-> ticks,
     outdated |-> inventory # InventoryOf(host), changed |-> changed, age |-> elapsed]

(* run_stream, and IoCollector::prime: the counters may be unreadable.     *)
Init ==
    /\ host \in Hosts
    /\ changes = 0
    /\ at = "filesystems"
    /\ names \in {DOMAIN host.disks, {}}
    /\ ticks = {} /\ probes \in BOOLEAN
    /\ known = {} /\ draft = Empty /\ inventory = Empty
    /\ revision = 0 /\ sequence = 0 /\ samples = 0
    /\ elapsed = 0 /\ due = FALSE
    /\ written = <<>> /\ changed = FALSE

-----------------------------------------------------------------------------
(* Devices come, go and are replaced under their names; file systems are   *)
(* mounted and arrays assembled.                                           *)
Change ==
    /\ changes < MaxChanges
    /\ \/ \E disks \in (UNION {[D -> Facts] : D \in SUBSET Names}) \ {host.disks} :
             host' = [host EXCEPT !.disks = disks]
       \/ \E mounts \in Stacks \ {host.mounts} : host' = [host EXCEPT !.mounts = mounts]
       \/ \E arrays \in Stacks \ {host.arrays} : host' = [host EXCEPT !.arrays = arrays]
    /\ changes' = changes + 1
    /\ changed' = TRUE
    /\ UNCHANGED <<at, collector, stream, elapsed, due>>

(* The loop sleeps, collects, or waits for the reader; between counters and*)
(* their record it does not.                                               *)
Tick ==
    /\ at # "sample"
    /\ ~due \/ elapsed < Refresh
    /\ due' = TRUE
    /\ elapsed' = IF elapsed < Refresh THEN elapsed + 1 ELSE elapsed
    /\ UNCHANGED <<host, changes, at, collector, stream, changed>>

-----------------------------------------------------------------------------
(* collect_inventory                                                       *)
CollectFilesystems ==
    /\ at = "filesystems"
    /\ draft' = [Empty EXCEPT !.mounts = host.mounts]
    /\ changed' = FALSE
    /\ at' = "volumes"
    /\ UNCHANGED <<host, changes, collector, known, inventory, revision, sequence,
                   samples, written, elapsed, due>>

CollectVolumes ==
    /\ at = "volumes"
    /\ draft' = [draft EXCEPT !.volumes = host.arrays]
    /\ at' = "devices"
    /\ UNCHANGED <<host, changes, collector, known, inventory, revision, sequence,
                   samples, written, elapsed, due, changed>>

CollectDevices ==
    /\ at = "devices"
    /\ draft' = [draft EXCEPT !.devices = DeviceFacts(host, names)]
    /\ at' = "topology"
    /\ UNCHANGED <<host, changes, collector, known, inventory, revision, sequence,
                   samples, written, elapsed, due, changed>>

CollectTopology ==
    /\ at = "topology"
    /\ draft' = [draft EXCEPT !.topology = <<draft.mounts, draft.volumes, host.arrays>>,
                              !.collectors = Statuses]
    /\ at' = "inventory"
    /\ UNCHANGED <<host, changes, collector, known, inventory, revision, sequence,
                   samples, written, elapsed, due, changed>>

(* Fault: any refresh is a revision.                                       *)
IsRevisedAlways == TRUE

(* refreshed != inventory, or the first of all.                            *)
IsRevised == revision = 0 \/ draft # inventory

(* write_record                                                            *)
Write(record) ==
    /\ written' = Append(written, record)
    /\ sequence' = sequence + 1

(* The reader is gone: run ends, and a broken pipe is no error.            *)
WriteFails ==
    /\ at \in {"inventory", "sample"}
    /\ at = "inventory" => IsRevised
    /\ at' = "ended"
    /\ UNCHANGED <<host, changes, collector, stream, elapsed, due, changed>>

WriteInventory ==
    /\ at = "inventory" /\ IsRevised
    /\ inventory' = draft
    /\ revision' = revision + 1
    /\ Write(InventoryRecord(revision + 1, draft))
    /\ known' = names
    /\ elapsed' = 0
    /\ at' = IF revision = 0 THEN "sleep" ELSE "sample"
    /\ UNCHANGED <<host, changes, collector, draft, samples, due, changed>>

KeepInventory ==
    /\ at = "inventory" /\ ~IsRevised
    /\ known' = names
    /\ elapsed' = 0
    /\ at' = "sample"
    /\ UNCHANGED <<host, changes, collector, draft, inventory, revision, sequence,
                   samples, written, due, changed>>

-----------------------------------------------------------------------------
(* Faults: the names are counted, and the age of the inventory is ignored. *)
RefreshDueByCount(current) == Cardinality(current) # Cardinality(known) \/ elapsed >= Refresh
RefreshDueByName(current) == current # known

(* current_device_names != sampled_device_names || TOPOLOGY_REFRESH        *)
RefreshDue(current) == current # known \/ elapsed >= Refresh

(* IoCollector::sample: the counters may be unreadable, and the probes fail*)
(* for good.                                                               *)
Sample ==
    /\ at = "sleep" /\ due
    /\ due' = FALSE
    /\ names' \in {DOMAIN host.disks, {}}
    /\ ticks' = names' \cap names
    /\ probes' \in {probes, FALSE}
    /\ changed' = (changed \/ probes' # probes)
    /\ at' = IF RefreshDue(names') THEN "filesystems" ELSE "sample"
    /\ UNCHANGED <<host, changes, stream, elapsed>>

WriteSample ==
    /\ at = "sample"
    /\ Write(SampleRecord)
    /\ samples' = samples + 1
    /\ at' = IF samples' >= Limit THEN "ended" ELSE "sleep"
    /\ UNCHANGED <<host, changes, collector, known, draft, inventory, revision,
                   elapsed, due, changed>>

Next ==
    \/ Change \/ Tick
    \/ CollectFilesystems \/ CollectVolumes \/ CollectDevices \/ CollectTopology
    \/ WriteFails \/ WriteInventory \/ KeepInventory
    \/ Sample \/ WriteSample

Spec == Init /\ [][Next]_vars

-----------------------------------------------------------------------------
Inventories == {k \in 1..Len(written) : written[k].type = "inventory"}

(* k is the inventory that a reader has at record i.                       *)
InForce(k, i) ==
    /\ k \in Inventories /\ k <= i
    /\ \A j \in (k + 1)..i : written[j].type = "sample"

(* The stream can be read back: the records are numbered without a gap,    *)
(* the first is an inventory, each sample names the revision of the last   *)
(* inventory before it, and revisions are numbered without a gap and differ*)
(* from the one before them.                                               *)
StreamIsReadable ==
    /\ \A i \in 1..Len(written) :
          /\ written[i].sequence = i - 1
          /\ \E k \in 1..i : InForce(k, i) /\ written[k].revision = written[i].revision
    /\ \A i, k \in Inventories : i < k /\ InForce(i, k - 1) =>
          /\ written[k].revision = written[i].revision + 1
          /\ written[k].inventory # written[i].inventory

(* Every device of a sample is described in the inventory that the sample  *)
(* refers to, although the device may have come after the last inventory   *)
(* or gone while one was collected.                                        *)
SamplesAreDescribed ==
    \A i \in 1..Len(written) : written[i].type = "sample" =>
        \E k \in 1..i : /\ InForce(k, i)
                        /\ written[i].devices \subseteq DOMAIN written[k].inventory.devices

(* A sample whose inventory is not what the host is, because a device was  *)
(* replaced under its name or mounts and arrays changed, is written less   *)
(* than TOPOLOGY_REFRESH after an inventory, and what is wrong has changed *)
(* since the collection of that one began.                                 *)
OutdatedIsRecent ==
    \A i \in 1..Len(written) : written[i].type = "sample" /\ written[i].outdated =>
        written[i].changed /\ written[i].age < Refresh
===============================================================================
