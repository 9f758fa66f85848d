------------------------------ MODULE IoSampler ------------------------------
(***************************************************************************)
(* One sampling interval of IoCollector (collect/io.rs, sample): read the  *)
(* cumulative counters of the block devices, subtract the previous ones,   *)
(* take the per-request histograms the eBPF collector has, and add both up *)
(* per volume.  The kernel goes on counting, and devices go away and come  *)
(* back under the same name, between any two of these reads; the volume    *)
(* rows are replaced between samples by what the background thread found.  *)
(*                                                                         *)
(* A device's counters are its operations, which never wrap, and its busy  *)
(* time, which does: u32 milliseconds, here modulo Wrap.  A histogram is   *)
(* the number of requests in it.  BlockLatency is about what the eBPF side *)
(* counts; here it is `traced`, the requests the next snapshot will return. *)
(***************************************************************************)
EXTENDS Integers, Sequences, FiniteSets, Tally

CONSTANTS
    Disks,       \* names of whole disks: /sys/block entries
    Parts,       \* names of partitions
    Volumes,     \* ids of volume rows
    Layouts,     \* the rows storage::resolve may find: volume -> [members, counters]
    Wrap,        \* DISKSTATS_TIME_WRAP_MODULUS_NS
    RingLen,     \* RING_LEN and LATENCY_WINDOW, both 60
    Boot,        \* counters a device may have when the program starts: [ops, busy]
    Times,       \* busy time of an operation
    MayFail,     \* whether /proc/diskstats may be unreadable
    MaxIo,       \* bound: operations of a device within an interval
    MaxChanges,  \* bound: devices that go away or come
    MaxSamples   \* bound: samples taken

Sources == Disks \cup Parts

ASSUME SamplerAssumption ==
    /\ Disks \cap Parts = {} /\ IsFiniteSet(Sources)
    /\ Wrap \in Nat \ {0} /\ RingLen \in Nat \ {0}
    /\ MayFail \in BOOLEAN /\ MaxIo \in Nat /\ MaxChanges \in Nat /\ MaxSamples \in Nat
    /\ Boot \subseteq [ops : Nat, busy : 0..(Wrap - 1)] /\ Times \subseteq Nat
    /\ \A rows \in Layouts :
          /\ DOMAIN rows \subseteq Volumes
          /\ \A v \in DOMAIN rows :
                rows[v].members \subseteq Disks /\ rows[v].counters \subseteq Sources

VARIABLES
    device,   \* per source: [present, ops, busy, traced]
    pc,       \* where `sample` is: "idle", "diff" or "traced"
    totals,   \* local: what read_totals returned, then the totals before that
    prev,     \* prev_totals
    latest,   \* latest_intervals: per disk [ops, busy]
    history,  \* per disk, a ring of the samples it has an entry for
    probe,    \* whether latency_probe has its maps
    traced,   \* traced_history: per disk, a ring of [at, n]
    rows,     \* volume_rows: per volume [counters, latency]
    volume,   \* volume_io: [latest, history, traced]
    samples,  \* samples so far
    changes,  \* devices that went away or came so far
    since,    \* for the properties: what a source did since the last read_totals
    interval, \* ... and between the last two
    took      \* ... and the requests the last snapshot returned per disk

kernel == <<device, changes, since>>
sampler == <<pc, totals, prev, latest, history, probe, traced, samples, interval, took>>
vars == <<kernel, sampler, rows, volume>>

Counters == [ops : Nat, busy : 0..(Wrap - 1)]
Row == [counters : SUBSET Sources, latency : SUBSET Disks]
Done == [ops : Nat, busy : 0..(Wrap - 1), replaced : BOOLEAN, measured : BOOLEAN]

Nothing == [k \in {} |-> 0]
NothingDone == [ops |-> 0, busy |-> 0, replaced |-> FALSE, measured |-> FALSE]

Partial(f, keys, values) ==
    DOMAIN f \subseteq keys /\ \A k \in DOMAIN f : f[k] \in values

(* One type invariant: no delta is negative, and rings keep their length.  *)
TypeOK ==
    /\ device \in [Sources -> [present : BOOLEAN, ops : Nat, busy : 0..(Wrap - 1),
                               traced : Nat]]
    /\ pc \in {"idle", "diff", "traced"}
    /\ Partial(totals, Sources, Counters)
    /\ Partial(prev, Sources, Counters)
    /\ Partial(latest, Disks, Counters)
    /\ Partial(history, Disks, Seq([at : Nat]))
    /\ probe \in BOOLEAN
    /\ Partial(traced, Disks, Seq([at : Nat, n : Nat]))
    /\ Partial(rows, Volumes, Row)
    /\ Partial(volume.latest, Volumes, [ops : Nat, of : Row])
    /\ Partial(volume.history, Volumes, Seq([at : Nat, of : Row]))
    /\ Partial(volume.traced, Volumes, Seq([at : Nat, n : Nat]))
    /\ samples \in 0..MaxSamples /\ changes \in 0..MaxChanges
    /\ since \in [Sources -> Done] /\ interval \in [Sources -> Done]
    /\ took \in [Disks -> Nat]
    /\ \A d \in DOMAIN history : Len(history[d]) <= RingLen
    /\ \A v \in DOMAIN volume.history : Len(volume.history[v]) <= RingLen

-----------------------------------------------------------------------------
Restricted(f, keys) == [k \in DOMAIN f \cap keys |-> f[k]]

Ring(rings, k) == IF k \in DOMAIN rings THEN rings[k] ELSE <<>>

(* A ring that grows by one before it is cut.                              *)
PushedLate(rings, k, entry) ==
    Append(IF Len(Ring(rings, k)) > RingLen THEN Tail(rings[k]) ELSE Ring(rings, k),
           entry)

(* push_ring, into the ring a key has or a new one.                        *)
Pushed(rings, k, entry) ==
    Append(IF Len(Ring(rings, k)) = RingLen THEN Tail(rings[k]) ELSE Ring(rings, k),
           entry)

(* A counter that went back counts nothing.                                *)
TimeDeltaClamped(current, was) == IF current >= was THEN current - was ELSE 0

(* wrapping_time_delta: a counter that went back is taken to have wrapped. *)
TimeDelta(current, was) ==
    IF current >= was THEN current - was ELSE current + Wrap - was

(* interval_metrics: operations saturate at zero.                          *)
Delta(current, was) ==
    [ops  |-> IF current.ops >= was.ops THEN current.ops - was.ops ELSE 0,
     busy |-> TimeDelta(current.busy, was.busy)]

(* diskstats_totals_linux: whole disks, and the partitions a row counts.   *)
(* An unreadable file is an empty one.                                     *)
Readable(layout) ==
    {s \in Sources : /\ device[s].present
                     /\ \/ s \in Disks
                        \/ \E v \in DOMAIN layout : s \in layout[v].counters}
ReadTotals(layout) ==
    [s \in Readable(layout) |-> [ops |-> device[s].ops, busy |-> device[s].busy]]

Init ==
    /\ \E boot \in [Sources -> Boot], present \in SUBSET Sources :
          device = [s \in Sources |-> [present |-> s \in present, ops |-> boot[s].ops,
                                       busy |-> boot[s].busy, traced |-> 0]]
    /\ pc = "idle" /\ totals = Nothing
    /\ prev = ReadTotals(Nothing)        \* prime
    /\ latest = Nothing /\ history = Nothing
    /\ probe \in BOOLEAN /\ traced = Nothing
    /\ rows = Nothing
    /\ volume = [latest |-> Nothing, history |-> Nothing, traced |-> Nothing]
    /\ samples = 0 /\ changes = 0
    /\ since = [s \in Sources |-> NothingDone]
    /\ interval = [s \in Sources |-> NothingDone]
    /\ took = [d \in Disks |-> 0]

-----------------------------------------------------------------------------
Wrapped(time) == IF time < Wrap THEN time ELSE time - Wrap

(* The kernel completes an operation.  A device is not busy for a whole    *)
(* wrap of its counter within an interval.                                 *)
Io(s, time) ==
    /\ device[s].present
    /\ since[s].ops < MaxIo
    /\ since[s].busy + time < Wrap
    /\ device' = [device EXCEPT ![s].ops = @ + 1, ![s].busy = Wrapped(@ + time),
                                ![s].traced = IF probe /\ s \in Disks THEN @ + 1 ELSE @]
    /\ since' = [since EXCEPT ![s].ops = @ + 1, ![s].busy = @ + time]
    /\ UNCHANGED <<changes, sampler, rows, volume>>

(* A device goes away, and another one may get its name: counters start    *)
(* again at zero.  Histogram keys outlive it.                              *)
Remove(s) ==
    /\ device[s].present /\ changes < MaxChanges
    /\ changes' = changes + 1
    /\ device' = [device EXCEPT ![s].present = FALSE]
    /\ since' = [since EXCEPT ![s].replaced = TRUE]
    /\ UNCHANGED <<sampler, rows, volume>>

Add(s) ==
    /\ ~device[s].present /\ changes < MaxChanges
    /\ changes' = changes + 1
    /\ device' = [device EXCEPT ![s].present = TRUE, ![s].ops = 0, ![s].busy = 0]
    /\ since' = [since EXCEPT ![s].replaced = TRUE]
    /\ UNCHANGED <<sampler, rows, volume>>

-----------------------------------------------------------------------------
(* assign_latency_sources: a volume has per-request latency only when none *)
(* of its disks is also another volume's.                                  *)
LatencySources(layout, v) ==
    IF \E d \in layout[v].members, w \in DOMAIN layout \ {v} : d \in layout[w].members
    THEN {} ELSE layout[v].members

(* A series is kept as long as the volume's id is.                         *)
SameId(layout, v) == v \in DOMAIN rows

(* set_volume_rows, from apply_background_snapshot: series of volumes that *)
(* are gone, or are made of other devices now, are dropped.                *)
SameSources(layout, v) == v \in DOMAIN rows /\ rows[v] = layout[v]

SetRows ==
    /\ pc = "idle"
    /\ \E found \in Layouts :
          LET layout == [v \in DOMAIN found |->
                            [counters |-> found[v].counters,
                             latency  |-> LatencySources(found, v)]]
              same == {v \in DOMAIN layout : SameSources(layout, v)}
          IN  /\ rows' = layout
              /\ volume' = [latest  |-> Restricted(volume.latest, DOMAIN layout),
                            history |-> Restricted(volume.history, same),
                            traced  |-> Restricted(volume.traced,
                                            {v \in same : layout[v].latency # {}})]
    /\ UNCHANGED <<kernel, sampler>>

(* sample: the interval has passed, and the counters are read.             *)
BeginSample ==
    /\ pc = "idle" /\ samples < MaxSamples
    /\ \E read \in {ReadTotals(rows)} \cup (IF MayFail THEN {Nothing} ELSE {}) :
          /\ totals' = read
          /\ interval' = [s \in Sources |-> [since[s] EXCEPT !.measured =
                             s \in DOMAIN prev /\ s \in DOMAIN read]]
    /\ samples' = samples + 1
    /\ since' = [s \in Sources |-> NothingDone]
    /\ pc' = "diff"
    /\ UNCHANGED <<device, changes, prev, latest, history, probe, traced, rows,
                   volume, took>>

(* A disk without a baseline starts from zero.                             *)
HasTickUnprimed(d) == d \in DOMAIN totals

(* sample: a tick for every disk that has a baseline and is still in /sys. *)
HasTick(d) == d \in DOMAIN totals /\ d \in DOMAIN prev

Baseline(d) == IF d \in DOMAIN prev THEN prev[d] ELSE [ops |-> 0, busy |-> 0]

Diff ==
    /\ pc = "diff"
    /\ LET ticks == {d \in Disks : HasTick(d) /\ device[d].present}
           delta == [d \in ticks |-> Delta(totals[d], Baseline(d))]
       IN  /\ latest' = delta
           /\ history' = [d \in DOMAIN history \cup ticks |->
                IF d \in ticks
                THEN Pushed(history, d, [at |-> samples])
                ELSE history[d]]
    /\ totals' = prev
    /\ prev' = totals
    /\ pc' = "traced"
    /\ UNCHANGED <<kernel, probe, traced, rows, volume, samples, interval, took>>

-----------------------------------------------------------------------------
(* A source without a baseline starts from zero.                           *)
SourceOpsUnprimed(s) ==
    IF s \in DOMAIN prev
    THEN Delta(prev[s], IF s \in DOMAIN totals THEN totals[s]
                        ELSE [ops |-> 0, busy |-> 0]).ops
    ELSE 0

(* sample_volume_io: counters of the sources that were in both reads, and  *)
(* the newest histogram of each disk.                                      *)
SourceOps(s) ==
    IF s \in DOMAIN prev /\ s \in DOMAIN totals
    THEN Delta(prev[s], totals[s]).ops ELSE 0

Newest(rings, d) ==
    IF Ring(rings, d) = <<>> THEN 0 ELSE rings[d][Len(rings[d])].n

VolumeOps(v) == Tally([s \in rows[v].counters |-> SourceOps(s)])
VolumeTraced(rings, v) == Tally([d \in rows[v].latency |-> Newest(rings, d)])

SampledVolumes(rings) ==
    LET withTrace == {v \in DOMAIN rows : rows[v].latency # {}}
    IN  [latest  |-> [v \in DOMAIN rows |-> [ops |-> VolumeOps(v), of |-> rows[v]]],
         history |-> [v \in DOMAIN volume.history \cup DOMAIN rows |->
              IF v \in DOMAIN rows
              THEN Pushed(volume.history, v, [at |-> samples, of |-> rows[v]])
              ELSE volume.history[v]],
         traced  |-> [v \in withTrace |->
              Pushed(volume.traced, v, [at |-> samples, n |-> VolumeTraced(rings, v)])]]

(* Disks without a request in the interval get no sample.                  *)
TracedBusy == {d \in DOMAIN latest : device[d].traced > 0}

(* Every disk with a tick gets a sample, be it an empty one.               *)
TracedDisks == DOMAIN latest

(* sample_traced_latency, then sample_volume_io.  Without its maps, or when *)
(* the snapshot fails, the collector has no traced series.  A snapshot takes *)
(* what the maps hold; what is under a device that left /sys is dropped.   *)
TakeTraced ==
    /\ pc = "traced"
    /\ \/ /\ probe
          /\ LET n(d) == IF device[d].present THEN device[d].traced ELSE 0
                 rings == [d \in DOMAIN traced \cup TracedDisks |->
                     IF d \in TracedDisks
                     THEN Pushed(traced, d, [at |-> samples, n |-> n(d)])
                     ELSE traced[d]]
             IN  /\ traced' = rings
                 /\ volume' = SampledVolumes(rings)
                 /\ took' = [d \in Disks |-> IF d \in DOMAIN latest THEN n(d) ELSE 0]
                 /\ device' = [s \in Sources |-> [device[s] EXCEPT !.traced = 0]]
          /\ UNCHANGED probe
       \/ /\ probe' = FALSE
          /\ traced' = Nothing
          /\ volume' = SampledVolumes(Nothing)
          /\ took' = [d \in Disks |-> 0]
          /\ UNCHANGED device
    /\ totals' = Nothing
    /\ pc' = "idle"
    /\ UNCHANGED <<changes, prev, latest, history, rows, samples, since, interval>>

(* device_sample: the record of a disk in the JSONL stream puts together the*)
(* counters of the interval and the newest rates and histogram there are.  *)
DeviceSample(d) ==
    [raw |-> latest[d], rates |-> Ring(history, d)[Len(Ring(history, d))].at,
     histogram |-> Ring(traced, d) # <<>>, requests |-> Newest(traced, d)]

Kernel == \E s \in Sources : (\E time \in Times : Io(s, time)) \/ Remove(s) \/ Add(s)

Next == Kernel \/ SetRows \/ BeginSample \/ Diff \/ TakeTraced

Spec == Init /\ [][Next]_vars

-----------------------------------------------------------------------------
Ats(ring) == [i \in DOMAIN ring |-> ring[i].at]

(* Every tick is what its disk did between two reads: never the operations *)
(* from before it was first read, and exactly its operations and its busy  *)
(* time, across a wrap of the time counter, unless another device got the  *)
(* name meanwhile; then no more operations than were done.                 *)
TicksAreExact ==
    pc # "diff" =>
        \A d \in DOMAIN latest :
            /\ latest[d].ops <= interval[d].ops
            /\ ~interval[d].replaced =>
                  latest[d] = [ops |-> interval[d].ops, busy |-> interval[d].busy]

(* `ops' is what those of the sources did that were in both reads.         *)
AddsUp(ops, of) ==
    LET known == {s \in of : interval[s].measured}
        done(sources) == Tally([s \in sources |-> interval[s].ops])
    IN  /\ ops <= done(of)
        /\ (\A s \in known : ~interval[s].replaced) => ops = done(known)

(* A volume's operations are those of its sources in the same interval: a  *)
(* partition that a new row admits to the read, or a disk that came back,  *)
(* adds nothing until it has a baseline.                                   *)
VolumesAreExact ==
    pc = "idle" =>
        \A v \in DOMAIN volume.latest :
            AddsUp(volume.latest[v].ops, volume.latest[v].of.counters)

(* The rows of the screen line up: the latency series of a disk has an     *)
(* entry for the same samples as its throughput series, although devices   *)
(* come and go and reads fail, and so have the two series of a volume,     *)
(* although its row is replaced.  So the newest entries that are put in one*)
(* record of a disk are all of the interval it is about.                   *)
SeriesAligned ==
    pc = "idle" =>
        /\ \A d \in DOMAIN latest : DeviceSample(d) =
              [raw |-> latest[d], rates |-> samples, histogram |-> probe, requests |-> took[d]]
        /\ probe => \A d \in DOMAIN history :
              d \in DOMAIN traced /\ Ats(traced[d]) = Ats(history[d])
        /\ \A v \in DOMAIN volume.traced :
              /\ v \in DOMAIN volume.history
              /\ Ats(volume.traced[v]) = Ats(volume.history[v])

(* A volume's series never mixes devices: each entry was summed over the   *)
(* sources the volume has now.                                             *)
SeriesIsOwn ==
    \A v \in DOMAIN volume.history :
        /\ v \in DOMAIN rows
        /\ \A i \in DOMAIN volume.history[v] : volume.history[v][i].of = rows[v]

(* The requests that volumes counted in the last sample.                   *)
VolumeRequests ==
    LET n(v) == IF volume.traced[v][Len(volume.traced[v])].at = samples
                THEN volume.traced[v][Len(volume.traced[v])].n ELSE 0
    IN  Tally([v \in DOMAIN volume.traced |-> n(v)])
TookRequests == Tally(took)

-----------------------------------------------------------------------------
(* io.rs says of an interval's raw values "Exact counter deltas observed   *)
(* for one block device interval".  The busy time is not, when a device was *)
(* replaced by one of the same name within the interval: counters that went *)
(* back to zero are taken for a wrap.                                      *)
BusyTimeIsExact ==
    pc # "diff" => \A d \in DOMAIN latest : latest[d].busy <= interval[d].busy

(* io.rs says a traced sample is "Per-request latency counts captured      *)
(* during one collector tick".  A volume's is not: it takes the newest     *)
(* sample each disk has, and that of a disk without a tick is from an      *)
(* earlier interval, counted again in each one until the row is replaced.  *)
VolumeRequestsAreOfTick == pc = "idle" => VolumeRequests <= TookRequests

(* README: without the probes "the latency display is derived from         *)
(* aggregate samples", and reconcile_traced_history drops the traced series *)
(* of the disks.  The volumes have one all the same, of empty samples, and *)
(* the screen prefers it to the await it could show.                       *)
VolumesFallBack == pc = "idle" /\ ~probe => volume.traced = Nothing
=============================================================================
