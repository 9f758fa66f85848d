------------------------------- MODULE VfsAgg -------------------------------
(***************************************************************************)
(* The VFS accounting path from the kernel probe to a published sample.    *)
(*                                                                         *)
(* Kernel side (vfs_activity.bpf.c, record_vfs_file): a completed VFS call *)
(* charges its bytes and its operation to the entry of its key in VFS_AGG, *)
(* or counts itself in VFS_DROPS.  Probes run on every CPU and are         *)
(* interleaved at each map helper call and each atomic add.                *)
(*                                                                         *)
(* User side (batch.rs, ebpf.rs, io.rs): every pass of the main loop       *)
(* drains the table page by page (lookup-and-delete), accounts what it     *)
(* drained, reads the drop counter and, when the display interval is due,  *)
(* publishes a sample.                                                     *)
(*                                                                         *)
(* A counter is represented by the set of the operations it counts: adding *)
(* 1 (or the call's bytes) is adding the operation to the set.  The number *)
(* the code holds is the cardinality, which is right exactly when no       *)
(* operation is in two of the sets that are summed.                        *)
(***************************************************************************)
EXTENDS Naturals, FiniteSets

CONSTANTS
  Ops,          (* completed VFS calls, each run by a probe of its own      *)
  Keys,         (* aggregation keys (device, inode, tgid, origin)           *)
  SelfKeys,     (* keys userspace resolves to iodyne's own process          *)
  Elems,        (* preallocated elements of VFS_AGG: MAX_VFS_AGG_ENTRIES    *)
  NoElem,       (* no element                                               *)
  NoKey,        (* no key: the call has not been classified                 *)
  BusyRetries   (* BUSY_RETRIES of batch.rs                                 *)

ASSUME KeysAssumption == SelfKeys \subseteq Keys /\ NoKey \notin Keys
ASSUME ElemsAssumption == IsFiniteSet(Elems) /\ NoElem \notin Elems
ASSUME RetriesAssumption == BusyRetries \in Nat

VARIABLES
  pc,           (* where the probe of each operation is                     *)
  key,          (* agg_key of each operation                                *)
  ptr,          (* the element record_vfs_file looked up                    *)
  slot,         (* VFS_AGG: the element linked under each key               *)
  val,          (* the value stored in each element, linked or not          *)
  drops,        (* VFS_DROPS                                                *)
  upc,          (* where the main loop's pass is                            *)
  scan,         (* keys in the buckets the drain's cursor has not passed    *)
  attempt,      (* EBUSY results of the current lookup                      *)
  batchKeys,    (* keys of the entries drained in this pass                 *)
  batch,        (* their values                                             *)
  status,       (* vfs_status                                               *)
  admitted,     (* pending_vfs_admitted                                     *)
  pendingDrops, (* pending_vfs_drops                                        *)
  previousDrops,(* previous_vfs_drops                                       *)
  pending,      (* pending_vfs                                              *)
  latest,       (* the sample published last                                *)
  told          (* everything the published samples have reported           *)

kernelVars == <<pc, key, ptr, slot, val, drops>>
drainVars == <<scan, attempt, batchKeys, batch>>
collectorVars == <<status, admitted, pendingDrops, previousDrops, pending>>
sampleVars == <<latest, told>>
vars == <<kernelVars, upc, drainVars, collectorVars, sampleVars>>

Value == [bytes : SUBSET Ops, ops : SUBSET Ops]
Zero == [bytes |-> {}, ops |-> {}]
NoActivity == [k \in Keys |-> Zero]

(***************************************************************************)
(* MAX_VFS_AGG_ENTRIES bounds the table and what one pass may drain.       *)
(***************************************************************************)
MaxEntries == Cardinality(Elems)

Linked == {k \in Keys : slot[k] # NoElem}
Free == Elems \ {slot[k] : k \in Linked}

Init ==
  /\ pc = [o \in Ops |-> "idle"]
  /\ key = [o \in Ops |-> NoKey]
  /\ ptr = [o \in Ops |-> NoElem]
  /\ slot = [k \in Keys |-> NoElem]
  /\ val = [e \in Elems |-> Zero]
  /\ drops = {}
  /\ upc = "idle"
  /\ scan = {}
  /\ attempt = 0
  /\ batchKeys = {}
  /\ batch = NoActivity
  /\ status = "active"
  /\ admitted = {}
  /\ pendingDrops = {}
  /\ previousDrops = {}
  /\ pending = NoActivity
  /\ latest = [active |-> TRUE, admitted |-> {}, dropped |-> {},
               activity |-> NoActivity]
  /\ told = [admitted |-> {}, dropped |-> {}, bytes |-> {}, ops |-> {}]

-----------------------------------------------------------------------------
(* The probe: record_vfs_file                                              *)

userVars == <<upc, drainVars, collectorVars, sampleVars>>

(* iodyne's own calls and calls on files that are not storage are ignored. *)
Ignore(o) ==
  /\ pc[o] = "idle"
  /\ pc' = [pc EXCEPT ![o] = "ignored"]
  /\ UNCHANGED <<key, ptr, slot, val, drops, userVars>>

(* The first lookup finds the entry of the key and keeps a pointer to it.  *)
LookupFound(o, k) ==
  /\ pc[o] = "idle"
  /\ slot[k] # NoElem
  /\ pc' = [pc EXCEPT ![o] = "addBytes"]
  /\ key' = [key EXCEPT ![o] = k]
  /\ ptr' = [ptr EXCEPT ![o] = slot[k]]
  /\ UNCHANGED <<slot, val, drops, userVars>>

LookupMissing(o, k) ==
  /\ pc[o] = "idle"
  /\ slot[k] = NoElem
  /\ pc' = [pc EXCEPT ![o] = "insert"]
  /\ key' = [key EXCEPT ![o] = k]
  /\ UNCHANGED <<ptr, slot, val, drops, userVars>>

(* BPF_NOEXIST insertion of an entry that already counts the operation.    *)
Insert(o) ==
  /\ pc[o] = "insert"
  /\ slot[key[o]] = NoElem
  /\ \E e \in Free :
       /\ slot' = [slot EXCEPT ![key[o]] = e]
       /\ val' = [val EXCEPT ![e] = [bytes |-> {o}, ops |-> {o}]]
  /\ pc' = [pc EXCEPT ![o] = "done"]
  /\ UNCHANGED <<key, ptr, drops, userVars>>

(* The insertion fails: another probe inserted the key, or no element is   *)
(* free.                                                                   *)
InsertFails(o) ==
  /\ pc[o] = "insert"
  /\ slot[key[o]] # NoElem \/ Free = {}
  /\ pc' = [pc EXCEPT ![o] = "relookup"]
  /\ UNCHANGED <<key, ptr, slot, val, drops, userVars>>

RelookupFound(o) ==
  /\ pc[o] = "relookup"
  /\ slot[key[o]] # NoElem
  /\ pc' = [pc EXCEPT ![o] = "addBytes"]
  /\ ptr' = [ptr EXCEPT ![o] = slot[key[o]]]
  /\ UNCHANGED <<key, slot, val, drops, userVars>>

RelookupMissing(o) ==
  /\ pc[o] = "relookup"
  /\ slot[key[o]] = NoElem
  /\ pc' = [pc EXCEPT ![o] = "drop"]
  /\ UNCHANGED <<key, ptr, slot, val, drops, userVars>>

CountDrop(o) ==
  /\ pc[o] = "drop"
  /\ drops' = drops \cup {o}
  /\ pc' = [pc EXCEPT ![o] = "done"]
  /\ UNCHANGED <<key, ptr, slot, val, userVars>>

(* vfs_agg_add: two atomic additions through the pointer.  The element may *)
(* have been deleted, or deleted and linked under another key, meanwhile.  *)
AddBytes(o) ==
  /\ pc[o] = "addBytes"
  /\ val' = [val EXCEPT ![ptr[o]].bytes = @ \cup {o}]
  /\ pc' = [pc EXCEPT ![o] = "addOps"]
  /\ UNCHANGED <<key, ptr, slot, drops, userVars>>

AddOps(o) ==
  /\ pc[o] = "addOps"
  /\ val' = [val EXCEPT ![ptr[o]].ops = @ \cup {o}]
  /\ pc' = [pc EXCEPT ![o] = "done"]
  /\ UNCHANGED <<key, ptr, slot, drops, userVars>>

Probe(o) ==
  \/ Ignore(o)
  \/ \E k \in Keys : LookupFound(o, k) \/ LookupMissing(o, k)
  \/ Insert(o)
  \/ InsertFails(o)
  \/ RelookupFound(o)
  \/ RelookupMissing(o)
  \/ CountDrop(o)
  \/ AddBytes(o)
  \/ AddOps(o)

-----------------------------------------------------------------------------
(* The main loop: poll_vfs_events, then sample                             *)

(* poll_vfs_events with an active collector starts draining from the first *)
(* bucket.                                                                 *)
BeginDrain ==
  /\ upc = "idle"
  /\ status = "active"
  /\ upc' = "drain"
  /\ scan' = Keys
  /\ attempt' = 0
  /\ batchKeys' = {}
  /\ batch' = NoActivity
  /\ UNCHANGED <<kernelVars, collectorVars, sampleVars>>

SkipDrain ==
  /\ upc = "idle"
  /\ status # "active"
  /\ upc' = "sample"
  /\ pending' = NoActivity
  /\ UNCHANGED <<kernelVars, drainVars, status, admitted, pendingDrops,
                 previousDrops, sampleVars>>

(* Fault: BPF_MAP_LOOKUP_BATCH, which leaves the entries in the table.     *)
LookupEntries(V) == slot' = slot

(* A lookup passes over the buckets of V and deletes the entries there.    *)
DeleteEntries(V) ==
  slot' = [k \in Keys |-> IF k \in V THEN NoElem ELSE slot[k]]

(* A lookup returns no more entries than there is room left for.           *)
Fits(V) == Cardinality(batchKeys \cup (V \cap Linked)) <= MaxEntries

Take(V) ==
  /\ batchKeys' = batchKeys \cup (V \cap Linked)
  /\ batch' = [k \in Keys |-> IF k \in V \cap Linked THEN val[slot[k]]
                              ELSE batch[k]]

(* The entries so far are the result of the drain: the cursor passed every *)
(* bucket, or the pass has drained as many entries as it may.              *)
PageLast(V) ==
  /\ upc = "drain"
  /\ Fits(V)
  /\ V = scan \/ Cardinality(batchKeys \cup (V \cap Linked)) = MaxEntries
  /\ Take(V)
  /\ DeleteEntries(V)
  /\ scan' = {}
  /\ attempt' = 0
  /\ upc' = "account"
  /\ UNCHANGED <<pc, key, ptr, val, drops, collectorVars, sampleVars>>

(* A page that is not the last one: a success, or EBUSY / ENOSPC after     *)
(* some entries.  The next lookup goes on from the returned cursor.        *)
PageMore(V) ==
  /\ upc = "drain"
  /\ Fits(V)
  /\ V # scan
  /\ Cardinality(batchKeys \cup (V \cap Linked)) < MaxEntries
  /\ V \cap Linked # {}
  /\ Take(V)
  /\ DeleteEntries(V)
  /\ scan' = scan \ V
  /\ attempt' = 0
  /\ UNCHANGED <<pc, key, ptr, val, drops, upc, collectorVars, sampleVars>>

(* Fault: the attempts start over instead of running out.                  *)
PageBusyForever ==
  /\ upc = "drain"
  /\ attempt' = IF attempt < BusyRetries THEN attempt + 1 ELSE 0
  /\ UNCHANGED <<kernelVars, upc, scan, batchKeys, batch, collectorVars,
                 sampleVars>>

(* retry_busy: EBUSY before any entry, and an attempt is left.             *)
PageBusy ==
  /\ upc = "drain"
  /\ attempt < BusyRetries
  /\ attempt' = attempt + 1
  /\ UNCHANGED <<kernelVars, upc, scan, batchKeys, batch, collectorVars,
                 sampleVars>>

(* Fault: the entries of a failed drain are dropped and polling goes on.   *)
PageFailsSilently(V) ==
  /\ upc = "drain"
  /\ DeleteEntries(V)
  /\ scan' = {}
  /\ attempt' = 0
  /\ batchKeys' = {}
  /\ batch' = NoActivity
  /\ upc' = "sample"
  /\ UNCHANGED <<pc, key, ptr, val, drops, collectorVars, sampleVars>>

(* The drain fails: any other error, EBUSY on the last attempt, an         *)
(* oversized page or one without progress.  Whatever was drained is lost,  *)
(* the collector is off for good, and the poll clears its pending view.    *)
PageFails(V) ==
  /\ upc = "drain"
  /\ DeleteEntries(V)
  /\ status' = "unavailable"
  /\ pending' = NoActivity
  /\ scan' = {}
  /\ attempt' = 0
  /\ batchKeys' = {}
  /\ batch' = NoActivity
  /\ upc' = "sample"
  /\ UNCHANGED <<pc, key, ptr, val, drops, admitted, pendingDrops,
                 previousDrops, sampleVars>>

AllOps(f) == UNION {f[k].ops : k \in Keys}
AllBytes(f) == UNION {f[k].bytes : k \in Keys}

(* Fault: iodyne's own activity is skipped before it is admitted.          *)
AccountAfterFilter ==
  /\ upc = "account"
  /\ admitted' = admitted \cup UNION {batch[k].ops : k \in Keys \ SelfKeys}
  /\ batch' = [k \in Keys |-> IF k \in SelfKeys THEN Zero ELSE batch[k]]
  /\ batchKeys' = {}
  /\ upc' = "drops"
  /\ UNCHANGED <<kernelVars, scan, attempt, status, pendingDrops,
                 previousDrops, pending, sampleVars>>

(* Fault: the last drain of an interval counts as admitted, not all of them.*)
AccountLastDrain ==
  /\ upc = "account"
  /\ admitted' = AllOps(batch)
  /\ batch' = [k \in Keys |-> IF k \in SelfKeys THEN Zero ELSE batch[k]]
  /\ batchKeys' = {}
  /\ upc' = "drops"
  /\ UNCHANGED <<kernelVars, scan, attempt, status, pendingDrops,
                 previousDrops, pending, sampleVars>>

(* read_vfs_counts after the drain: every drained operation is admitted,   *)
(* then iodyne's own activity is left out of the deltas.                   *)
Account ==
  /\ upc = "account"
  /\ admitted' = admitted \cup AllOps(batch)
  /\ batch' = [k \in Keys |-> IF k \in SelfKeys THEN Zero ELSE batch[k]]
  /\ batchKeys' = {}
  /\ upc' = "drops"
  /\ UNCHANGED <<kernelVars, scan, attempt, status, pendingDrops,
                 previousDrops, pending, sampleVars>>

(* record_vfs_drain: merge the deltas into the display interval's.         *)
RecordDrain ==
  /\ pending' = [k \in Keys |-> [bytes |-> pending[k].bytes \cup batch[k].bytes,
                                 ops |-> pending[k].ops \cup batch[k].ops]]
  /\ batch' = NoActivity

(* Fault: the cumulative counter is reported instead of its increase.      *)
ReadDropsTotal ==
  /\ upc = "drops"
  /\ pendingDrops' = pendingDrops \cup drops
  /\ previousDrops' = drops
  /\ RecordDrain
  /\ upc' = "sample"
  /\ UNCHANGED <<kernelVars, scan, attempt, batchKeys, status, admitted,
                 sampleVars>>

(* vfs_snapshot reads VFS_DROPS last; a failed read changes nothing.       *)
ReadDrops ==
  /\ upc = "drops"
  /\ pendingDrops' = pendingDrops \cup (drops \ previousDrops)
  /\ previousDrops' = drops
  /\ RecordDrain
  /\ upc' = "sample"
  /\ UNCHANGED <<kernelVars, scan, attempt, batchKeys, status, admitted,
                 sampleVars>>

ReadDropsFails ==
  /\ upc = "drops"
  /\ RecordDrain
  /\ upc' = "sample"
  /\ UNCHANGED <<kernelVars, scan, attempt, batchKeys, status, admitted,
                 pendingDrops, previousDrops, sampleVars>>

(* The display interval has not elapsed (or this was the priming poll).    *)
NotDue ==
  /\ upc = "sample"
  /\ upc' = "idle"
  /\ UNCHANGED <<kernelVars, drainVars, collectorVars, sampleVars>>

(* Fault: the published activity stays in the pending view.                *)
SampleKeepsPending ==
  /\ upc = "sample"
  /\ LET activity == IF status = "active" THEN pending ELSE NoActivity
     IN  /\ latest' = [active |-> status = "active", admitted |-> admitted,
                       dropped |-> pendingDrops, activity |-> activity]
         /\ told' = [admitted |-> told.admitted \cup admitted,
                     dropped |-> told.dropped \cup pendingDrops,
                     bytes |-> told.bytes \cup AllBytes(activity),
                     ops |-> told.ops \cup AllOps(activity)]
  /\ admitted' = {}
  /\ pendingDrops' = {}
  /\ upc' = "idle"
  /\ UNCHANGED <<kernelVars, drainVars, status, previousDrops, pending>>

(* sample_hot_files: the counters are taken whatever the status is.        *)
Sample ==
  /\ upc = "sample"
  /\ LET activity == IF status = "active" THEN pending ELSE NoActivity
     IN  /\ latest' = [active |-> status = "active", admitted |-> admitted,
                       dropped |-> pendingDrops, activity |-> activity]
         /\ told' = [admitted |-> told.admitted \cup admitted,
                     dropped |-> told.dropped \cup pendingDrops,
                     bytes |-> told.bytes \cup AllBytes(activity),
                     ops |-> told.ops \cup AllOps(activity)]
  /\ admitted' = {}
  /\ pendingDrops' = {}
  /\ pending' = NoActivity
  /\ upc' = "idle"
  /\ UNCHANGED <<kernelVars, drainVars, status, previousDrops>>

Collector ==
  \/ BeginDrain
  \/ SkipDrain
  \/ \E V \in SUBSET scan : PageLast(V) \/ PageMore(V) \/ PageFails(V)
  \/ PageBusy
  \/ Account
  \/ ReadDrops
  \/ ReadDropsFails
  \/ NotDue
  \/ Sample

Next == (\E o \in Ops : Probe(o)) \/ Collector

(* The main loop keeps running, and time passes: an interval is always     *)
(* eventually due.  Nothing is assumed of the probes.                      *)
Fairness == WF_vars(Collector) /\ SF_vars(Sample)

Spec == Init /\ [][Next]_vars
FairSpec == Spec /\ Fairness

-----------------------------------------------------------------------------
(* Properties                                                              *)

Calls == {"idle", "ignored", "insert", "relookup", "drop", "addBytes",
          "addOps", "done"}

(* Every variable holds a value of its type; a probe past its first lookup *)
(* has a key, and one that adds has an element to add to.                  *)
TypeOK ==
  /\ pc \in [Ops -> Calls]
  /\ key \in [Ops -> Keys \cup {NoKey}]
  /\ ptr \in [Ops -> Elems \cup {NoElem}]
  /\ slot \in [Keys -> Elems \cup {NoElem}]
  /\ val \in [Elems -> Value]
  /\ drops \in SUBSET Ops
  /\ upc \in {"idle", "drain", "account", "drops", "sample"}
  /\ scan \in SUBSET Keys
  /\ attempt \in 0..BusyRetries
  /\ batchKeys \in SUBSET Keys
  /\ batch \in [Keys -> Value]
  /\ status \in {"active", "unavailable"}
  /\ admitted \in SUBSET Ops
  /\ pendingDrops \in SUBSET Ops
  /\ previousDrops \in SUBSET Ops
  /\ pending \in [Keys -> Value]
  /\ latest \in [active : BOOLEAN, admitted : SUBSET Ops,
                  dropped : SUBSET Ops, activity : [Keys -> Value]]
  /\ told \in [admitted : SUBSET Ops, dropped : SUBSET Ops,
                bytes : SUBSET Ops, ops : SUBSET Ops]
  /\ \A o \in Ops : pc[o] \in {"insert", "relookup"} => key[o] \in Keys
  /\ \A o \in Ops : pc[o] \in {"addBytes", "addOps"} => ptr[o] \in Elems

Disjoint(S, T) == S \cap T = {}

(* Operations are counted once: two entries of the table, the entries      *)
(* drained, the admitted count, the drop counter and the samples already   *)
(* published never count the same operation, even though probes add to     *)
(* entries that the drain deletes under them.                              *)
CountedOnce ==
  /\ \A k, l \in Linked : k # l => Disjoint(val[slot[k]].ops, val[slot[l]].ops)
  /\ \A k \in Linked : Disjoint(val[slot[k]].ops,
                                admitted \cup told.admitted \cup drops)
  /\ upc \in {"drain", "account"} =>
       \A k \in Keys :
         /\ Disjoint(batch[k].ops, admitted \cup told.admitted \cup drops)
         /\ \A l \in Linked : Disjoint(batch[k].ops, val[slot[l]].ops)
         /\ \A l \in Keys \ {k} : Disjoint(batch[k].ops, batch[l].ops)
  /\ Disjoint(admitted, told.admitted \cup drops)
  /\ Disjoint(told.admitted, drops)

(* The inductive invariant behind CountedOnce: no element is linked twice, *)
(* and a call that has not finished recording itself is in no count yet,   *)
(* not even in an element that has been deleted.                           *)
OneKeyPerElem == \A k, l \in Linked : k # l => slot[k] # slot[l]

UnfinishedUncounted ==
  \A o \in Ops : pc[o] # "done" =>
    /\ o \notin drops \cup admitted \cup told.admitted
    /\ \A k \in Keys : o \notin batch[k].ops
    /\ \A e \in Elems : o \notin val[e].ops

CountInv == TypeOK /\ OneKeyPerElem /\ UnfinishedUncounted /\ CountedOnce

(* The bytes of a call are charged once: an entry still linked, one just   *)
(* drained, the pending view and the published samples never charge the    *)
(* same call's bytes twice, and never the bytes of a call counted as       *)
(* dropped.                                                                *)
ChargedOnce ==
  /\ \A k, l \in Linked : k # l =>
       Disjoint(val[slot[k]].bytes, val[slot[l]].bytes)
  /\ \A k \in Linked, l \in Keys : Disjoint(val[slot[k]].bytes,
       batch[l].bytes \cup pending[l].bytes \cup told.bytes \cup drops)
  /\ \A k, l \in Keys : Disjoint(batch[k].bytes,
       pending[l].bytes \cup told.bytes \cup drops)
  /\ \A k, l \in Keys : k # l =>
       /\ Disjoint(batch[k].bytes, batch[l].bytes)
       /\ Disjoint(pending[k].bytes, pending[l].bytes)
  /\ \A k \in Keys : Disjoint(pending[k].bytes, told.bytes \cup drops)
  /\ Disjoint(told.bytes, drops)

(* The same for bytes, which are added before the operation is counted.    *)
UnfinishedUncharged ==
  \A o \in Ops :
    /\ pc[o] \notin {"addOps", "done"} =>
         /\ o \notin told.bytes
         /\ \A k \in Keys : o \notin batch[k].bytes \cup pending[k].bytes
         /\ \A e \in Elems : o \notin val[e].bytes
    /\ pc[o] # "done" => o \notin drops

(* Each drop is reported in one sample: the drops read so far are those of *)
(* the published samples and those the next one will report.               *)
DropsReportedOnce ==
  /\ Disjoint(pendingDrops, told.dropped)
  /\ previousDrops = pendingDrops \cup told.dropped
  /\ previousDrops \subseteq drops

(* A published sample's activity and its admitted count come from the same *)
(* drains: while the collector is active every admitted operation is in    *)
(* the activity, unless it belongs to an entry of iodyne's own.            *)
SampleConsistent ==
  /\ AllOps(latest.activity) \subseteq latest.admitted
  /\ latest.active /\ SelfKeys = {} => latest.admitted = AllOps(latest.activity)

(* What makes samples consistent: the deltas merged so far, and those the  *)
(* drain has accounted but not merged, are exactly what has been admitted. *)
PendingAdmitted ==
  /\ \A k \in Keys : pending[k].ops \subseteq admitted
  /\ upc = "drops" => \A k \in Keys : batch[k].ops \subseteq admitted
  /\ status = "active" /\ SelfKeys = {} =>
       \A o \in admitted : \E k \in Keys :
         o \in pending[k].ops \/ (upc = "drops" /\ o \in batch[k].ops)

(* "Userspace atomically retrieves and deletes at most 8,192 entries on    *)
(* each main-loop pass" (ebpf/README.md:47), however many entries probes   *)
(* insert behind and ahead of the cursor.                                  *)
DrainBounded == Cardinality(batchKeys) <= MaxEntries

(* Every drain ends: bounded retries, and no page without progress, even   *)
(* while probes keep inserting.                                            *)
DrainEnds == upc = "drain" ~> upc # "drain"

(* An operation counted in the table is eventually in a published admitted *)
(* count, or the collector has reported itself unavailable.                *)
RecordedIsReported ==
  \A o \in Ops :
    (\E k \in Linked : o \in val[slot[k]].ops)
      ~> (o \in told.admitted \/ status = "unavailable")

(* "losing attribution is acceptable, silently presenting an incomplete    *)
(* sample as complete is not" (vfs_activity.bpf.c:178): while the collector*)
(* is active a recorded call is counted somewhere or counted as dropped.   *)
NoSilentLoss ==
  status = "active" =>
    \A o \in Ops : pc[o] = "done" =>
      \/ o \in drops \cup admitted \cup told.admitted \cup AllOps(batch)
      \/ \E k \in Linked : o \in val[slot[k]].ops

(* "Counts operations that could not be recorded because the table was     *)
(* full" (vfs_activity.bpf.c:180): a table with an element for every key   *)
(* drops nothing.                                                          *)
DropsOnlyWhenFull == Cardinality(Elems) >= Cardinality(Keys) => drops = {}

-----------------------------------------------------------------------------
(* What becomes of a call, as the abstract ledger sees it.                 *)

InTable(o) == \E k \in Linked : o \in val[slot[k]].ops
InBatch(o) == upc \in {"drain", "account"} /\ o \in AllOps(batch)

FateOf(o) ==
  IF o \in told.dropped THEN "disclosed"
  ELSE IF o \in pendingDrops THEN "seen"
  ELSE IF o \in drops THEN "refused"
  ELSE IF o \in told.admitted THEN "reported"
  ELSE IF o \in admitted THEN "admitted"
  ELSE IF InTable(o) \/ InBatch(o) THEN "counted"
  ELSE IF pc[o] = "done" THEN "lost"
  ELSE "open"

Ledger == INSTANCE OpLedger WITH
  fate <- [o \in Ops |-> FateOf(o)],
  on <- status = "active"

(* A drain is under way only while the collector is active, and has taken  *)
(* nothing from the buckets ahead of its cursor.                           *)
DrainInv ==
  /\ upc \in {"drain", "account"} => status = "active"
  /\ upc = "drain" => \A k \in scan : batch[k].ops = {}

(* The accounting path implements the ledger: at most once, reports and    *)
(* disclosures are final, counted calls are lost only by a failed drain.   *)
ImplementsLedger == Ledger!Spec
=============================================================================
