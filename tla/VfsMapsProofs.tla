---------------------------- MODULE VfsMapsProofs ----------------------------
(***************************************************************************)
(* What the maps of the VFS programs guarantee.  The counters of           *)
(* VFS_COUNTS, VFS_DROPS and their collection (VfsAgg), for every set of   *)
(* calls, keys and elements; then the maps that attribute FUSE requests    *)
(* (FuseAttribution), for any number of tasks, workers and files, and for  *)
(* any clock.                                                              *)
(***************************************************************************)
EXTENDS VfsAgg, FuseAttribution, FiniteSetTheorems, TLAPS

(* The initial values have their types.                                    *)
LEMMA TypeInit == Init => TypeOK
BY KeysAssumption, ElemsAssumption, RetriesAssumption
   DEF Init, TypeOK, Calls, Value, Zero, NoActivity

(* Every variable of the accounting path always holds a value of its type, *)
(* so no probe adds through a pointer it never looked up.                  *)
THEOREM TypeCorrect == Spec => []TypeOK
<1>1. Init => TypeOK
  BY TypeInit
<1>2. TypeOK /\ [Next]_vars => TypeOK'
  <2> SUFFICES ASSUME TypeOK, [Next]_vars PROVE TypeOK'
    OBVIOUS
  <2> USE KeysAssumption, ElemsAssumption, RetriesAssumption
  <2>1. ASSUME NEW o \in Ops, Probe(o) PROVE TypeOK'
    <3>1. CASE Ignore(o)
      BY <3>1 DEF TypeOK, Calls, Ignore, userVars, drainVars, collectorVars, sampleVars
    <3>2. ASSUME NEW k \in Keys, LookupFound(o, k) PROVE TypeOK'
      BY <3>2 DEF TypeOK, Calls, LookupFound, userVars, drainVars, collectorVars, sampleVars
    <3>3. ASSUME NEW k \in Keys, LookupMissing(o, k) PROVE TypeOK'
      BY <3>3 DEF TypeOK, Calls, LookupMissing, userVars, drainVars, collectorVars, sampleVars
    <3>4. CASE Insert(o)
      BY <3>4 DEF TypeOK, Calls, Insert, Free, Linked, Value, userVars, drainVars, collectorVars, sampleVars
    <3>5. CASE InsertFails(o)
      BY <3>5 DEF TypeOK, Calls, InsertFails, userVars, drainVars, collectorVars, sampleVars
    <3>6. CASE RelookupFound(o)
      BY <3>6 DEF TypeOK, Calls, RelookupFound, userVars, drainVars, collectorVars, sampleVars
    <3>7. CASE RelookupMissing(o)
      BY <3>7 DEF TypeOK, Calls, RelookupMissing, userVars, drainVars, collectorVars, sampleVars
    <3>8. CASE CountDrop(o)
      BY <3>8 DEF TypeOK, Calls, CountDrop, userVars, drainVars, collectorVars, sampleVars
    <3>9. CASE AddBytes(o)
      BY <3>9 DEF TypeOK, Calls, AddBytes, Value, userVars, drainVars, collectorVars, sampleVars
    <3>10. CASE AddOps(o)
      <4>1. val' \in [Elems -> Value]
        BY <3>10 DEF TypeOK, AddOps, Value
      <4> QED
        BY <3>10, <4>1 DEF TypeOK, Calls, AddOps, userVars, drainVars, collectorVars, sampleVars
    <3> QED
      BY <2>1, <3>1, <3>2, <3>3, <3>4, <3>5, <3>6, <3>7, <3>8, <3>9, <3>10 DEF Probe
  <2>2. CASE BeginDrain
    BY <2>2 DEF TypeOK, BeginDrain, Value, Zero, NoActivity, kernelVars, collectorVars, sampleVars
  <2>3. CASE SkipDrain
    BY <2>3 DEF TypeOK, SkipDrain, Value, Zero, NoActivity, kernelVars, drainVars, sampleVars
  <2>4. ASSUME NEW V \in SUBSET scan, PageLast(V) PROVE TypeOK'
    BY <2>4 DEF TypeOK, PageLast, Take, DeleteEntries, Linked, collectorVars, sampleVars
  <2>5. ASSUME NEW V \in SUBSET scan, PageMore(V) PROVE TypeOK'
    BY <2>5 DEF TypeOK, PageMore, Take, DeleteEntries, Linked, collectorVars, sampleVars
  <2>6. ASSUME NEW V \in SUBSET scan, PageFails(V) PROVE TypeOK'
    BY <2>6 DEF TypeOK, PageFails, DeleteEntries, Value, Zero, NoActivity, sampleVars
  <2>7. CASE PageBusy
    BY <2>7 DEF TypeOK, PageBusy, kernelVars, collectorVars, sampleVars
  <2>8. CASE Account
    BY <2>8 DEF TypeOK, Account, AllOps, Value, Zero, kernelVars, sampleVars
  <2>9. CASE ReadDrops
    BY <2>9 DEF TypeOK, ReadDrops, RecordDrain, Value, Zero, NoActivity, kernelVars, sampleVars
  <2>10. CASE ReadDropsFails
    BY <2>10 DEF TypeOK, ReadDropsFails, RecordDrain, Value, Zero, NoActivity, kernelVars, sampleVars
  <2>11. CASE NotDue
    BY <2>11 DEF TypeOK, NotDue, kernelVars, drainVars, collectorVars, sampleVars
  <2>12. CASE Sample
    BY <2>12 DEF TypeOK, Sample, AllOps, AllBytes, Value, Zero, NoActivity, kernelVars, drainVars
  <2>13. CASE UNCHANGED vars
    BY <2>13 DEF TypeOK, vars, kernelVars, drainVars, collectorVars, sampleVars
  <2> QED
    BY <2>1, <2>2, <2>3, <2>4, <2>5, <2>6, <2>7, <2>8, <2>9, <2>10, <2>11, <2>12, <2>13
       DEF Next, Collector
<1> QED
  BY <1>1, <1>2, PTL DEF Spec

(* Reading a set-union of counters at one key.                             *)
LEMMA AllOpsMember ==
  ASSUME NEW f, NEW o
  PROVE  o \in AllOps(f) <=> \E k \in Keys : o \in f[k].ops
BY DEF AllOps

(* The inductive invariant: besides being counted once, calls that have    *)
(* not finished are counted nowhere and no element has two keys.           *)
LEMMA CountInvariant == Spec => []CountInv
<1> USE DEF Disjoint
<1>1. Init => CountInv
  BY TypeInit DEF Init, CountInv, OneKeyPerElem, UnfinishedUncounted, CountedOnce, Linked,
     Zero, NoActivity
<1>2. CountInv /\ TypeOK' /\ [Next]_vars => CountInv'
  <2> SUFFICES ASSUME CountInv, TypeOK', [Next]_vars
               PROVE  OneKeyPerElem' /\ UnfinishedUncounted' /\ CountedOnce'
    BY DEF CountInv
  <2> USE DEF CountInv
  <2>1. ASSUME NEW o \in Ops, Probe(o)
        PROVE  OneKeyPerElem' /\ UnfinishedUncounted' /\ CountedOnce'
    <3>1. CASE Ignore(o) \/ InsertFails(o) \/ RelookupFound(o) \/ RelookupMissing(o)
              \/ \E k \in Keys : LookupFound(o, k) \/ LookupMissing(o, k)
      <4>1. /\ UNCHANGED <<slot, val, drops, userVars>>
            /\ pc' = [pc EXCEPT ![o] = pc'[o]] /\ pc[o] # "done"
        BY <3>1 DEF Ignore, InsertFails, RelookupFound, RelookupMissing,
           LookupFound, LookupMissing, TypeOK
      <4> QED
        BY <4>1 DEF OneKeyPerElem, UnfinishedUncounted, CountedOnce, Linked, TypeOK,
           userVars, drainVars, collectorVars, sampleVars
    <3>2. CASE Insert(o)
      <4>1. PICK e \in Free :
              /\ slot' = [slot EXCEPT ![key[o]] = e]
              /\ val' = [val EXCEPT ![e] = [bytes |-> {o}, ops |-> {o}]]
        BY <3>2 DEF Insert
      <4>2. OneKeyPerElem'
        BY <3>2, <4>1 DEF Insert, OneKeyPerElem, Free, Linked, TypeOK
      <4>3. UnfinishedUncounted'
        BY <3>2, <4>1 DEF Insert, UnfinishedUncounted, Free, TypeOK, userVars, drainVars, collectorVars, sampleVars
      <4>4. CountedOnce'
        BY <3>2, <4>1 DEF Insert, UnfinishedUncounted, CountedOnce, Free, Linked, TypeOK, userVars, drainVars, collectorVars, sampleVars
      <4> QED BY <4>2, <4>3, <4>4
    <3>3. CASE CountDrop(o)
      BY <3>3 DEF CountDrop, OneKeyPerElem, UnfinishedUncounted, CountedOnce, Linked, TypeOK, userVars, drainVars, collectorVars, sampleVars
    <3>4. CASE AddBytes(o)
      BY <3>4 DEF AddBytes, OneKeyPerElem, UnfinishedUncounted, CountedOnce, Linked, TypeOK, Value, userVars, drainVars, collectorVars, sampleVars
    <3>5. CASE AddOps(o)
      <4>1. OneKeyPerElem'
        BY <3>5 DEF AddOps, OneKeyPerElem, Linked
      <4>2. UnfinishedUncounted'
        BY <3>5 DEF AddOps, UnfinishedUncounted, TypeOK, Value, userVars, drainVars, collectorVars, sampleVars
      <4>3. CountedOnce'
        BY <3>5 DEF AddOps, OneKeyPerElem, UnfinishedUncounted, CountedOnce, Linked, TypeOK, Value, userVars, drainVars, collectorVars, sampleVars
      <4> QED BY <4>1, <4>2, <4>3
    <3> QED
      BY <2>1, <3>1, <3>2, <3>3, <3>4, <3>5 DEF Probe
  <2>2. CASE BeginDrain
    BY <2>2 DEF BeginDrain, OneKeyPerElem, UnfinishedUncounted, CountedOnce, Linked, Zero, NoActivity,
       kernelVars, collectorVars, sampleVars
  <2>3. CASE SkipDrain
    BY <2>3 DEF SkipDrain, OneKeyPerElem, UnfinishedUncounted, CountedOnce, Linked,
       kernelVars, drainVars, sampleVars
  <2>4. ASSUME NEW V \in SUBSET scan, PageLast(V)
        PROVE  OneKeyPerElem' /\ UnfinishedUncounted' /\ CountedOnce'
    <4> QED BY <2>4 DEF PageLast, Take, DeleteEntries, OneKeyPerElem, UnfinishedUncounted, CountedOnce, Linked,
       TypeOK, collectorVars, sampleVars
  <2>5. ASSUME NEW V \in SUBSET scan, PageMore(V)
        PROVE  OneKeyPerElem' /\ UnfinishedUncounted' /\ CountedOnce'
    <4> QED BY <2>5 DEF PageMore, Take, DeleteEntries, OneKeyPerElem, UnfinishedUncounted, CountedOnce, Linked,
       TypeOK, collectorVars, sampleVars
  <2>6. ASSUME NEW V \in SUBSET scan, PageFails(V)
        PROVE  OneKeyPerElem' /\ UnfinishedUncounted' /\ CountedOnce'
    BY <2>6 DEF PageFails, DeleteEntries, OneKeyPerElem, UnfinishedUncounted, CountedOnce, Linked,
       TypeOK, Zero, NoActivity, sampleVars
  <2>7. CASE PageBusy
    BY <2>7 DEF PageBusy, OneKeyPerElem, UnfinishedUncounted, CountedOnce, Linked,
       kernelVars, collectorVars, sampleVars
  <2>8. CASE Account
    BY <2>8, AllOpsMember DEF Account, OneKeyPerElem, UnfinishedUncounted, CountedOnce, Linked,
       TypeOK, Zero, kernelVars, sampleVars
  <2>9. CASE ReadDrops
    BY <2>9 DEF ReadDrops, RecordDrain, OneKeyPerElem, UnfinishedUncounted, CountedOnce, Linked,
       Zero, NoActivity, kernelVars, sampleVars
  <2>10. CASE ReadDropsFails
    BY <2>10 DEF ReadDropsFails, RecordDrain, OneKeyPerElem, UnfinishedUncounted, CountedOnce, Linked,
       Zero, NoActivity, kernelVars, sampleVars
  <2>11. CASE NotDue
    BY <2>11 DEF NotDue, OneKeyPerElem, UnfinishedUncounted, CountedOnce, Linked,
       kernelVars, drainVars, collectorVars, sampleVars
  <2>12. CASE Sample
    BY <2>12 DEF Sample, OneKeyPerElem, UnfinishedUncounted, CountedOnce, Linked,
       kernelVars, drainVars
  <2>13. CASE UNCHANGED vars
    BY <2>13 DEF OneKeyPerElem, UnfinishedUncounted, CountedOnce, Linked, vars,
       kernelVars, drainVars, collectorVars, sampleVars
  <2> QED
    BY <2>1, <2>2, <2>3, <2>4, <2>5, <2>6, <2>7, <2>8, <2>9, <2>10, <2>11, <2>12, <2>13
       DEF Next, Collector
<1> QED
  BY <1>1, <1>2, TypeCorrect, PTL DEF Spec

(* No call is ever counted twice: the counters userspace adds up never     *)
(* overlap, so the numbers it publishes are numbers of distinct calls.     *)
THEOREM CountsOnce == Spec => []CountedOnce
<1>1. CountInv => CountedOnce
  BY DEF CountInv
<1> QED
  BY <1>1, CountInvariant, PTL

(* Frames: what a probe's step and a collector's step leave alone.         *)
LEMMA ProbeFrame ==
  ASSUME NEW o \in Ops, Probe(o)
  PROVE  UNCHANGED <<upc, scan, attempt, batchKeys, batch, status, admitted,
                     pendingDrops, previousDrops, pending, latest, told>>
BY DEF Probe, Ignore, LookupFound, LookupMissing, Insert, InsertFails, RelookupFound,
   RelookupMissing, CountDrop, AddBytes, AddOps, userVars, drainVars, collectorVars,
   sampleVars

(* A drop is reported in exactly one sample, and only drops that probes    *)
(* counted are reported.                                                   *)
THEOREM DropsOnce == Spec => []DropsReportedOnce
<1>1. Init => DropsReportedOnce
  BY DEF Init, DropsReportedOnce, Disjoint
<1>2. TypeOK /\ DropsReportedOnce /\ [Next]_vars => DropsReportedOnce'
  <2> SUFFICES ASSUME TypeOK, DropsReportedOnce, [Next]_vars PROVE DropsReportedOnce'
    OBVIOUS
  <2>1. ASSUME NEW o \in Ops, Probe(o) PROVE DropsReportedOnce'
    <3>1. drops \subseteq drops'
      BY <2>1 DEF Probe, Ignore, LookupFound, LookupMissing, Insert, InsertFails,
         RelookupFound, RelookupMissing, CountDrop, AddBytes, AddOps
    <3> QED BY <2>1, <3>1, ProbeFrame DEF DropsReportedOnce
  <2>2. CASE ReadDrops
    BY <2>2 DEF ReadDrops, DropsReportedOnce, Disjoint, kernelVars, sampleVars
  <2>3. CASE Sample
    BY <2>3 DEF Sample, DropsReportedOnce, Disjoint, kernelVars
  <2>4. ASSUME NEW V \in SUBSET scan, PageLast(V) \/ PageMore(V) \/ PageFails(V)
        PROVE  DropsReportedOnce'
    BY <2>4 DEF PageLast, PageMore, PageFails, DropsReportedOnce, collectorVars, sampleVars
  <2>5. CASE BeginDrain \/ SkipDrain \/ PageBusy \/ Account \/ ReadDropsFails \/ NotDue
    BY <2>5 DEF BeginDrain, SkipDrain, PageBusy, Account, ReadDropsFails, NotDue,
       DropsReportedOnce, kernelVars, collectorVars, sampleVars
  <2>6. CASE UNCHANGED vars
    BY <2>6 DEF DropsReportedOnce, vars, kernelVars, collectorVars, sampleVars
  <2> QED
    BY <2>1, <2>2, <2>3, <2>4, <2>5, <2>6 DEF Next, Collector
<1> QED
  BY <1>1, <1>2, TypeCorrect, PTL DEF Spec

(* The activity of a sample and its admitted count agree.                  *)
THEOREM SamplesConsistent == Spec => []SampleConsistent
<1> DEFINE Inv == PendingAdmitted /\ SampleConsistent
<1>1. Init => Inv
  BY AllOpsMember DEF Init, PendingAdmitted, SampleConsistent, NoActivity, Zero
<1>2. TypeOK /\ Inv /\ [Next]_vars => Inv'
  <2> SUFFICES ASSUME TypeOK, Inv, [Next]_vars PROVE Inv'
    OBVIOUS
  <2>1. ASSUME NEW o \in Ops, Probe(o) PROVE Inv'
    BY <2>1, ProbeFrame DEF PendingAdmitted, SampleConsistent, AllOps
  <2>2. CASE Account
    <3>1. PendingAdmitted'
      BY <2>2, AllOpsMember DEF Account, PendingAdmitted, TypeOK, Value, Zero
    <3> QED BY <2>2, <3>1 DEF Account, SampleConsistent, sampleVars, AllOps
  <2>3. CASE Sample
    <3> DEFINE activity == IF status = "active" THEN pending ELSE NoActivity
    <3>1. /\ latest' = [active |-> status = "active", admitted |-> admitted,
                        dropped |-> pendingDrops, activity |-> activity]
          /\ admitted' = {} /\ pending' = NoActivity /\ upc' = "idle" /\ upc = "sample"
      BY <2>3 DEF Sample
    <3>2. PendingAdmitted'
      BY <3>1 DEF PendingAdmitted, NoActivity, Zero
    <3>3. \A k \in Keys : activity[k].ops \subseteq admitted
      BY DEF PendingAdmitted, NoActivity, Zero
    <3>4. status = "active" /\ SelfKeys = {} =>
            \A o \in admitted : \E k \in Keys : o \in activity[k].ops
      BY <3>1 DEF PendingAdmitted
    <3>5. AllOps(activity) \subseteq admitted
      BY <3>3, AllOpsMember
    <3>6. status = "active" /\ SelfKeys = {} => admitted = AllOps(activity)
      BY <3>4, <3>5, AllOpsMember
    <3>7. /\ latest'.activity = activity /\ latest'.admitted = admitted
          /\ latest'.active = (status = "active")
      BY <3>1
    <3>8. AllOps(latest.activity)' = AllOps(activity)
      BY <3>7 DEF AllOps
    <3> QED BY <3>2, <3>5, <3>6, <3>7, <3>8 DEF SampleConsistent
  <2>4. ASSUME UNCHANGED <<pending, admitted, status, latest>>,
               upc # "drops", upc' # "drops"
        PROVE  Inv'
    BY <2>4 DEF PendingAdmitted, SampleConsistent, AllOps
  <2>5. ASSUME NEW V \in SUBSET scan, PageFails(V) PROVE Inv'
    BY <2>5 DEF PageFails, PendingAdmitted, SampleConsistent, AllOps, NoActivity, Zero,
       sampleVars
  <2>6. CASE ReadDrops \/ ReadDropsFails
    <3>1. /\ RecordDrain /\ upc = "drops" /\ upc' = "sample"
          /\ UNCHANGED <<status, admitted, latest>>
      BY <2>6 DEF ReadDrops, ReadDropsFails, sampleVars
    <3>2. \A k \in Keys : pending'[k].ops = pending[k].ops \cup batch[k].ops
      BY <3>1 DEF RecordDrain
    <3>3. PendingAdmitted'
      BY <3>1, <3>2 DEF PendingAdmitted
    <3> QED BY <3>1, <3>3 DEF SampleConsistent, AllOps
  <2>7. CASE BeginDrain \/ PageBusy \/ NotDue
             \/ \E V \in SUBSET scan : PageLast(V) \/ PageMore(V)
    BY <2>4, <2>7 DEF BeginDrain, PageBusy, PageLast, PageMore, NotDue,
       collectorVars, sampleVars
  <2>9. CASE UNCHANGED vars
    BY <2>9 DEF PendingAdmitted, SampleConsistent, AllOps, vars, drainVars, collectorVars,
       sampleVars
  <2>8. CASE SkipDrain
    BY <2>8 DEF SkipDrain, PendingAdmitted, SampleConsistent, AllOps, NoActivity, Zero,
       sampleVars
  <2> QED
    BY <2>1, <2>2, <2>3, <2>5, <2>6, <2>7, <2>8, <2>9 DEF Next, Collector
<1> QED
  BY <1>1, <1>2, TypeCorrect, PTL DEF Spec

(* The same for the bytes that a set of counters charges.                  *)
LEMMA AllBytesMember ==
  ASSUME NEW f, NEW o
  PROVE  o \in AllBytes(f) <=> \E k \in Keys : o \in f[k].bytes
BY DEF AllBytes

(* The bytes of a call are charged at most once, and never when the call   *)
(* was counted as dropped.                                                 *)
THEOREM ChargesOnce == Spec => []ChargedOnce
<1> DEFINE Inv == OneKeyPerElem /\ UnfinishedUncharged /\ ChargedOnce
<1> USE DEF Disjoint
<1>1. Init => Inv
  BY DEF Init, OneKeyPerElem, UnfinishedUncharged, ChargedOnce, Linked, Zero, NoActivity
<1>2. TypeOK /\ TypeOK' /\ Inv /\ [Next]_vars => Inv'
  <2> SUFFICES ASSUME TypeOK, TypeOK', Inv, [Next]_vars
               PROVE  OneKeyPerElem' /\ UnfinishedUncharged' /\ ChargedOnce'
    OBVIOUS
  <2>1. ASSUME NEW o \in Ops, Probe(o)
        PROVE  OneKeyPerElem' /\ UnfinishedUncharged' /\ ChargedOnce'
    <3>1. CASE Ignore(o) \/ InsertFails(o) \/ RelookupFound(o) \/ RelookupMissing(o)
              \/ \E k \in Keys : LookupFound(o, k) \/ LookupMissing(o, k)
      <4>1. /\ UNCHANGED <<slot, val, drops, userVars>>
            /\ pc' = [pc EXCEPT ![o] = pc'[o]] /\ pc[o] \notin {"addOps", "done"}
        BY <3>1 DEF Ignore, InsertFails, RelookupFound, RelookupMissing,
           LookupFound, LookupMissing, TypeOK
      <4> QED
        BY <4>1 DEF OneKeyPerElem, UnfinishedUncharged, ChargedOnce, Linked, TypeOK,
           userVars, drainVars, collectorVars, sampleVars
    <3>2. CASE Insert(o)
      <4>1. PICK e \in Free :
              /\ slot' = [slot EXCEPT ![key[o]] = e]
              /\ val' = [val EXCEPT ![e] = [bytes |-> {o}, ops |-> {o}]]
        BY <3>2 DEF Insert
      <4>2. OneKeyPerElem'
        BY <3>2, <4>1 DEF Insert, OneKeyPerElem, Free, Linked, TypeOK
      <4>3. UnfinishedUncharged'
        BY <3>2, <4>1 DEF Insert, UnfinishedUncharged, Free, TypeOK, userVars, drainVars, collectorVars, sampleVars
      <4>4. ChargedOnce'
        BY <3>2, <4>1 DEF Insert, UnfinishedUncharged, ChargedOnce, Free, Linked, TypeOK,
           userVars, drainVars, collectorVars,
           sampleVars
      <4> QED BY <4>2, <4>3, <4>4
    <3>3. CASE CountDrop(o)
      BY <3>3 DEF CountDrop, OneKeyPerElem, UnfinishedUncharged, ChargedOnce, Linked, TypeOK,
         userVars, drainVars, collectorVars, sampleVars
    <3>4. CASE AddBytes(o)
      <4>1. OneKeyPerElem'
        BY <3>4 DEF AddBytes, OneKeyPerElem, Linked
      <4>2. UnfinishedUncharged'
        BY <3>4 DEF AddBytes, UnfinishedUncharged, TypeOK, Value, userVars, drainVars, collectorVars, sampleVars
      <4>3. /\ UNCHANGED <<slot, drops, batch, pending, told>>
            /\ o \notin told.bytes \cup drops
            /\ \A k \in Keys : o \notin batch[k].bytes \cup pending[k].bytes
            /\ \A k \in Linked : o \notin val[slot[k]].bytes
        BY <3>4 DEF AddBytes, UnfinishedUncharged, Linked, TypeOK, userVars, drainVars, collectorVars,
           sampleVars
      <4>4. \A k \in Linked :
              \/ slot[k] = ptr[o] /\ val'[slot[k]].bytes = val[slot[k]].bytes \cup {o}
              \/ slot[k] # ptr[o] /\ val'[slot[k]].bytes = val[slot[k]].bytes
        BY <3>4 DEF AddBytes, Linked, TypeOK, Value
      <4>5. ASSUME NEW k \in Linked, NEW l \in Linked, k # l
            PROVE  Disjoint(val'[slot[k]].bytes, val'[slot[l]].bytes)
        <5>1. slot[k] # slot[l]
          BY <4>5 DEF OneKeyPerElem
        <5>2. Disjoint(val[slot[k]].bytes, val[slot[l]].bytes)
          BY <4>5 DEF ChargedOnce
        <5>3. o \notin val[slot[k]].bytes /\ o \notin val[slot[l]].bytes
          BY <4>3
        <5> QED BY <4>4, <5>1, <5>2, <5>3
      <4>6. ASSUME NEW k \in Linked, NEW l \in Keys
            PROVE  Disjoint(val'[slot[k]].bytes,
                     batch[l].bytes \cup pending[l].bytes \cup told.bytes \cup drops)
        <5>1. Disjoint(val[slot[k]].bytes,
                batch[l].bytes \cup pending[l].bytes \cup told.bytes \cup drops)
          BY DEF ChargedOnce
        <5>2. o \notin batch[l].bytes \cup pending[l].bytes \cup told.bytes \cup drops
          BY <4>3
        <5> QED BY <4>4, <5>1, <5>2
      <4>7. Linked' = Linked
        BY <4>3 DEF Linked
      <4>8. ChargedOnce'
        BY <4>3, <4>5, <4>6, <4>7 DEF ChargedOnce
      <4> QED BY <4>1, <4>2, <4>8
    <3>5. CASE AddOps(o)
      BY <3>5 DEF AddOps, OneKeyPerElem, UnfinishedUncharged, ChargedOnce, Linked, TypeOK,
         Value, userVars, drainVars, collectorVars, sampleVars
    <3> QED
      BY <2>1, <3>1, <3>2, <3>3, <3>4, <3>5 DEF Probe
  <2>2. CASE BeginDrain
    BY <2>2 DEF BeginDrain, OneKeyPerElem, UnfinishedUncharged, ChargedOnce, Linked, Zero,
       NoActivity, kernelVars, collectorVars, sampleVars
  <2>3. CASE SkipDrain
    BY <2>3 DEF SkipDrain, OneKeyPerElem, UnfinishedUncharged, ChargedOnce, Linked, Zero,
       NoActivity, kernelVars, drainVars, sampleVars
  <2>4. ASSUME NEW V \in SUBSET scan, PageLast(V) \/ PageMore(V)
        PROVE  OneKeyPerElem' /\ UnfinishedUncharged' /\ ChargedOnce'
    <3>1. /\ Take(V) /\ DeleteEntries(V)
          /\ UNCHANGED <<pc, val, drops, pending, told>>
      BY <2>4 DEF PageLast, PageMore, collectorVars, sampleVars
    <3>2. OneKeyPerElem' /\ UnfinishedUncharged'
      BY <3>1 DEF Take, DeleteEntries, OneKeyPerElem, UnfinishedUncharged, Linked, TypeOK
    <3>3. ChargedOnce'
      BY <3>1 DEF Take, DeleteEntries, ChargedOnce, Linked, TypeOK
    <3> QED BY <3>2, <3>3
  <2>5. ASSUME NEW V \in SUBSET scan, PageFails(V)
        PROVE  OneKeyPerElem' /\ UnfinishedUncharged' /\ ChargedOnce'
    BY <2>5 DEF PageFails, DeleteEntries, OneKeyPerElem, UnfinishedUncharged, ChargedOnce,
       Linked, TypeOK, Zero, NoActivity, sampleVars
  <2>6. CASE PageBusy \/ NotDue
    BY <2>6 DEF PageBusy, NotDue, OneKeyPerElem, UnfinishedUncharged, ChargedOnce, Linked,
       kernelVars, drainVars, collectorVars, sampleVars
  <2>7. CASE Account
    BY <2>7 DEF Account, OneKeyPerElem, UnfinishedUncharged, ChargedOnce, Linked, Zero,
       kernelVars, sampleVars
  <2>8. CASE ReadDrops \/ ReadDropsFails
    <3>1. /\ \A k \in Keys : pending'[k].bytes = pending[k].bytes \cup batch[k].bytes
          /\ \A k \in Keys : batch'[k].bytes = {}
          /\ UNCHANGED <<pc, slot, val, drops, told>>
      BY <2>8 DEF ReadDrops, ReadDropsFails, RecordDrain, NoActivity, Zero, kernelVars,
         sampleVars
    <3>2. OneKeyPerElem' /\ UnfinishedUncharged'
      BY <3>1 DEF OneKeyPerElem, UnfinishedUncharged, Linked
    <3>3. ChargedOnce'
      BY <3>1 DEF ChargedOnce, Linked
    <3> QED BY <3>2, <3>3
  <2>9. CASE Sample
    <3> DEFINE activity == IF status = "active" THEN pending ELSE NoActivity
    <3>1. /\ told'.bytes = told.bytes \cup AllBytes(activity)
          /\ pending' = NoActivity
          /\ UNCHANGED <<pc, slot, val, drops, batch>>
      BY <2>9 DEF Sample, kernelVars, drainVars
    <3>2. \A o \in told'.bytes : o \in told.bytes \/ \E k \in Keys : o \in pending[k].bytes
      <4>1. \A o : o \in AllBytes(activity) => \E k \in Keys : o \in pending[k].bytes
        BY AllBytesMember DEF NoActivity, Zero
      <4> QED BY <3>1, <4>1
    <3>3. \A k \in Keys : pending'[k].bytes = {}
      BY <3>1 DEF NoActivity, Zero
    <3>4. OneKeyPerElem' /\ UnfinishedUncharged'
      BY <3>1, <3>2, <3>3 DEF OneKeyPerElem, UnfinishedUncharged, Linked
    <3>5. ChargedOnce'
      BY <3>1, <3>2, <3>3 DEF ChargedOnce, Linked
    <3> QED BY <3>4, <3>5
  <2>10. CASE UNCHANGED vars
    BY <2>10 DEF OneKeyPerElem, UnfinishedUncharged, ChargedOnce, Linked, vars,
       kernelVars, drainVars, collectorVars, sampleVars
  <2> QED
    BY <2>1, <2>2, <2>3, <2>4, <2>5, <2>6, <2>7, <2>8, <2>9, <2>10 DEF Next, Collector
<1> QED
  BY <1>1, <1>2, TypeCorrect, PTL DEF Spec

(* A pass never drains more entries than the table can hold, whatever is   *)
(* inserted behind and ahead of its cursor.                                *)
THEOREM DrainsBounded == Spec => []DrainBounded
<1>1. MaxEntries \in Nat /\ Cardinality({}) = 0
  BY ElemsAssumption, FS_CardinalityType, FS_EmptySet DEF MaxEntries
<1>2. Init => DrainBounded
  BY <1>1 DEF Init, DrainBounded
<1>3. DrainBounded /\ [Next]_vars => DrainBounded'
  <2> SUFFICES ASSUME DrainBounded, [Next]_vars
               PROVE  DrainBounded'
    OBVIOUS
  <2>1. batchKeys' = batchKeys \/ batchKeys' = {}
          \/ \E V \in SUBSET scan : PageLast(V) \/ PageMore(V)
    BY ProbeFrame DEF Next, Collector, BeginDrain, SkipDrain, PageFails, PageBusy, Account,
       ReadDrops, ReadDropsFails, NotDue, Sample, vars, drainVars
  <2>2. ASSUME NEW V \in SUBSET scan, PageLast(V) \/ PageMore(V)
        PROVE  DrainBounded'
    BY <2>2 DEF PageLast, PageMore, Fits, Take, DrainBounded, MaxEntries
  <2> QED BY <1>1, <2>1, <2>2 DEF DrainBounded, MaxEntries
<1> QED
  BY <1>2, <1>3, PTL DEF Spec

-----------------------------------------------------------------------------
(* VfsAgg implements OpLedger: every step of the accounting path is a step *)
(* of the ledger, or leaves every call's fate as it was.                   *)


(* What a drain has taken and what it has not passed yet never overlap.    *)
LEMMA DrainInvariant == Spec => []DrainInv
<1>1. Init => DrainInv
  BY DEF Init, DrainInv
<1>2. TypeOK /\ DrainInv /\ [Next]_vars => DrainInv'
  <2> SUFFICES ASSUME TypeOK, DrainInv, [Next]_vars PROVE DrainInv'
    OBVIOUS
  <2>1. ASSUME NEW o \in Ops, Probe(o) PROVE DrainInv'
    BY <2>1, ProbeFrame DEF DrainInv
  <2>2. ASSUME NEW V \in SUBSET scan, PageLast(V) \/ PageMore(V) PROVE DrainInv'
    BY <2>2 DEF PageLast, PageMore, Take, DrainInv, TypeOK, collectorVars
  <2>3. CASE BeginDrain
    BY <2>3 DEF BeginDrain, DrainInv, NoActivity, Zero, collectorVars
  <2>4. CASE PageBusy \/ UNCHANGED vars
    BY <2>4 DEF PageBusy, DrainInv, vars, drainVars, collectorVars
  <2>5. upc' \notin {"drain", "account"} => DrainInv'
    BY DEF DrainInv
  <2> QED
    BY <2>1, <2>2, <2>3, <2>4, <2>5 DEF Next, Collector, SkipDrain, PageFails, Account,
       ReadDrops, ReadDropsFails, NotDue, Sample
<1> QED
  BY <1>1, <1>2, TypeCorrect, PTL DEF Spec

(* The initial states of the accounting path are those of the ledger.      *)
LEMMA LedgerInit == Init => Ledger!Init
BY AllOpsMember DEF Init, Ledger!Init, FateOf, InTable, InBatch, Linked

(* What the fate of a call depends on.                                     *)
LEMMA FateFrame ==
  ASSUME NEW p \in Ops,
         UNCHANGED <<told, pendingDrops, drops, admitted>>,
         (InTable(p) \/ InBatch(p))' <=> (InTable(p) \/ InBatch(p)),
         pc'[p] = "done" <=> pc[p] = "done"
  PROVE  FateOf(p)' = FateOf(p)
BY DEF FateOf

(* Whether the table counts a call depends on the table alone.             *)
LEMMA InTableFrame ==
  ASSUME UNCHANGED <<slot, val>>, NEW p \in Ops
  PROVE  InTable(p)' <=> InTable(p)
BY DEF InTable, Linked

(* Whether the drain holds a call depends on the drain alone.              *)
LEMMA InBatchFrame ==
  ASSUME UNCHANGED <<upc, batch>>, NEW p \in Ops
  PROVE  InBatch(p)' <=> InBatch(p)
BY DEF InBatch, AllOps

(* A step that leaves each fate and the status alone is a stuttering step. *)
LEMMA LedgerStutter ==
  ASSUME status' = status, \A p \in Ops : FateOf(p)' = FateOf(p)
  PROVE  UNCHANGED <<[o \in Ops |-> FateOf(o)], status = "active">>
OBVIOUS

(* A probe's step records, refuses or misses its call, or stutters.        *)
LEMMA ProbeStep ==
  ASSUME TypeOK, CountInv, DropsReportedOnce, NEW o \in Ops, Probe(o)
  PROVE  [Ledger!Next]_<<[p \in Ops |-> FateOf(p)], status = "active">>
<1> USE DEF CountInv
<1>0. status' = status /\ UNCHANGED <<upc, batch, told, admitted, pendingDrops>>
  BY ProbeFrame
<1>1. CASE Ignore(o) \/ InsertFails(o) \/ RelookupFound(o) \/ RelookupMissing(o)
          \/ \E k \in Keys : LookupFound(o, k) \/ LookupMissing(o, k)
  <2>1. /\ UNCHANGED <<slot, val, drops>>
        /\ \A p \in Ops : pc'[p] = "done" <=> pc[p] = "done"
    BY <1>1 DEF Ignore, InsertFails, RelookupFound, RelookupMissing,
       LookupFound, LookupMissing, TypeOK
  <2> QED BY <1>0, <2>1, FateFrame, InTableFrame, InBatchFrame, LedgerStutter
<1>2. CASE AddBytes(o)
  <2>1. /\ UNCHANGED <<slot, drops>>
        /\ \A p \in Ops : pc'[p] = "done" <=> pc[p] = "done"
        /\ \A k \in Linked : val'[slot[k]].ops = val[slot[k]].ops
    BY <1>2 DEF AddBytes, TypeOK, Value, Linked
  <2>2. \A p \in Ops : InTable(p)' <=> InTable(p)
    BY <2>1 DEF InTable, Linked
  <2> QED BY <1>0, <2>1, <2>2, FateFrame, InBatchFrame, LedgerStutter
<1>3. ASSUME pc[o] # "done", pc'[o] = "done", drops' = drops,
             \A p \in Ops \ {o} : pc'[p] = pc[p] /\ (InTable(p)' <=> InTable(p))
      PROVE  Ledger!Next
  <2>1. FateOf(o) = "open"
    <3>1. /\ o \notin drops \cup admitted \cup told.admitted
          /\ o \notin told.dropped \cup pendingDrops
      BY <1>3 DEF UnfinishedUncounted, DropsReportedOnce
    <3>2. ~ InTable(o)
      BY <1>3 DEF UnfinishedUncounted, InTable, Linked, TypeOK
    <3>3. ~ InBatch(o)
      BY <1>3, AllOpsMember DEF UnfinishedUncounted, InBatch
    <3> QED BY <1>3, <3>1, <3>2, <3>3 DEF FateOf
  <2>2. FateOf(o)' \in {"counted", "lost"}
    <3>1. /\ o \notin drops \cup admitted \cup told.admitted
          /\ o \notin told.dropped \cup pendingDrops
      BY <1>3 DEF UnfinishedUncounted, DropsReportedOnce
    <3> QED BY <1>0, <1>3, <3>1 DEF FateOf
  <2>3. \A p \in Ops \ {o} : FateOf(p)' = FateOf(p)
    BY <1>0, <1>3, FateFrame, InBatchFrame
  <2> DEFINE fate == [p \in Ops |-> FateOf(p)]
  <2>4. fate' = [p \in Ops |-> IF p \in {o} THEN FateOf(o)' ELSE fate[p]]
    BY <2>3
  <2>5. (status = "active")' = (status = "active")
    BY <1>0
  <2>6. Ledger!Record(o) \/ Ledger!Miss(o)
    BY <2>1, <2>2, <2>4, <2>5 DEF Ledger!Record, Ledger!Miss, Ledger!Move
  <2> QED BY <2>6 DEF Ledger!Next
<1>4. CASE Insert(o)
  <2>1. PICK e \in Free :
          /\ slot' = [slot EXCEPT ![key[o]] = e]
          /\ val' = [val EXCEPT ![e] = [bytes |-> {o}, ops |-> {o}]]
    BY <1>4 DEF Insert
  <2>2. \A p \in Ops \ {o} : InTable(p)' <=> InTable(p)
    BY <1>4, <2>1 DEF Insert, Free, InTable, Linked, TypeOK
  <2>3. pc[o] # "done" /\ pc'[o] = "done" /\ drops' = drops
        /\ \A p \in Ops \ {o} : pc'[p] = pc[p]
    BY <1>4 DEF Insert, TypeOK
  <2> QED BY <1>3, <2>2, <2>3
<1>5. CASE AddOps(o)
  <2>1. \A p \in Ops \ {o} : InTable(p)' <=> InTable(p)
    BY <1>5 DEF AddOps, InTable, Linked, TypeOK, Value
  <2>2. pc[o] # "done" /\ pc'[o] = "done" /\ drops' = drops
        /\ \A p \in Ops \ {o} : pc'[p] = pc[p]
    BY <1>5 DEF AddOps, TypeOK
  <2> QED BY <1>3, <2>1, <2>2
<1>6. CASE CountDrop(o)
  <2>1. /\ UNCHANGED <<slot, val>> /\ drops' = drops \cup {o}
        /\ pc[o] # "done" /\ pc'[o] = "done"
        /\ \A p \in Ops \ {o} : pc'[p] = pc[p]
    BY <1>6 DEF CountDrop, TypeOK
  <2>2. /\ o \notin drops \cup admitted \cup told.admitted
        /\ o \notin told.dropped \cup pendingDrops
    BY <2>1 DEF UnfinishedUncounted, DropsReportedOnce
  <2>3. ~ InTable(o)
    BY <2>1 DEF UnfinishedUncounted, InTable, Linked, TypeOK
  <2>4. ~ InBatch(o)
    BY <2>1, AllOpsMember DEF UnfinishedUncounted, InBatch
  <2>5. FateOf(o) = "open" /\ FateOf(o)' = "refused"
    BY <1>0, <2>1, <2>2, <2>3, <2>4 DEF FateOf
  <2>6. \A p \in Ops \ {o} : FateOf(p)' = FateOf(p)
    BY <1>0, <2>1, InTableFrame, InBatchFrame DEF FateOf
  <2> DEFINE fate == [p \in Ops |-> FateOf(p)]
  <2>7. fate' = [p \in Ops |-> IF p \in {o} THEN "refused" ELSE fate[p]]
    BY <2>5, <2>6
  <2>8. (status = "active")' = (status = "active")
    BY <1>0
  <2>9. Ledger!Refuse(o)
    BY <2>5, <2>7, <2>8 DEF Ledger!Refuse, Ledger!Move
  <2> QED BY <2>9 DEF Ledger!Next
<1> QED
  BY <1>1, <1>2, <1>4, <1>5, <1>6 DEF Probe

(* A page moves entries from the table to the drain: their calls stay      *)
(* counted, so the ledger does not see the step.                           *)
LEMMA PageStutters ==
  ASSUME TypeOK, CountInv, DrainInv, NEW V \in SUBSET scan,
         PageLast(V) \/ PageMore(V)
  PROVE  UNCHANGED <<[p \in Ops |-> FateOf(p)], status = "active">>
<1>1. /\ Take(V) /\ DeleteEntries(V) /\ upc = "drain" /\ upc' \in {"drain", "account"}
      /\ UNCHANGED <<pc, val, drops, admitted, pendingDrops, told, status>>
  BY DEF PageLast, PageMore, collectorVars, sampleVars
<1>2. ASSUME NEW p \in Ops
      PROVE  (InTable(p) \/ InBatch(p))' <=> (InTable(p) \/ InBatch(p))
  <2>1. InBatch(p) <=> \E k \in Keys : p \in batch[k].ops
    BY <1>1, AllOpsMember DEF InBatch
  <2>2. InBatch(p)' <=> \E k \in Keys : p \in batch'[k].ops
    BY <1>1, AllOpsMember DEF InBatch, AllOps
  <2>3. \A k \in Keys : batch'[k].ops =
          IF k \in V \cap Linked THEN val[slot[k]].ops ELSE batch[k].ops
    BY <1>1 DEF Take
  <2>4. \A k \in V : batch[k].ops = {}
    BY <1>1 DEF DrainInv
  <2>5. InTable(p)' <=> \E k \in Linked \ V : p \in val[slot[k]].ops
    BY <1>1 DEF InTable, Linked, DeleteEntries
  <2>6. V \cap Linked \subseteq Keys
    BY DEF Linked
  <2> QED BY <2>1, <2>2, <2>3, <2>4, <2>5, <2>6 DEF InTable
<1> QED BY <1>1, <1>2, FateFrame, LedgerStutter

(* A step of the collector is the ledger's Collect, Fail, See or Publish,  *)
(* or stutters.                                                            *)
LEMMA CollectorStep ==
  ASSUME TypeOK, CountInv, DropsReportedOnce, DrainInv, Collector
  PROVE  [Ledger!Next]_<<[p \in Ops |-> FateOf(p)], status = "active">>
<1> USE DEF CountInv
<1> DEFINE fate == [p \in Ops |-> FateOf(p)]
<1>1. ASSUME NEW V \in SUBSET scan, PageLast(V) \/ PageMore(V)
      PROVE  UNCHANGED <<fate, status = "active">>
  BY <1>1, PageStutters
<1>2. CASE BeginDrain \/ SkipDrain \/ PageBusy \/ NotDue \/ ReadDropsFails
  <2>1. /\ UNCHANGED <<pc, slot, val, drops, admitted, pendingDrops, told, status>>
        /\ \A p \in Ops : InBatch(p)' <=> InBatch(p)
    BY <1>2 DEF BeginDrain, SkipDrain, PageBusy, NotDue, ReadDropsFails, InBatch, AllOps,
       NoActivity, Zero, kernelVars, drainVars, collectorVars, sampleVars
  <2> QED BY <2>1, FateFrame, InTableFrame, LedgerStutter
<1>3. ASSUME NEW V \in SUBSET scan, PageFails(V) PROVE Ledger!Next
  <2>1. /\ upc = "drain" /\ upc' = "sample" /\ status' = "unavailable"
        /\ DeleteEntries(V)
        /\ UNCHANGED <<pc, val, drops, admitted, pendingDrops, told>>
    BY <1>3 DEF PageFails, sampleVars
  <2>2. \A p \in Ops : ~ InBatch(p)' /\ (InTable(p)' => InTable(p))
    BY <2>1 DEF InBatch, InTable, Linked, DeleteEntries
  <2>3. \A p \in Ops : InTable(p) \/ InBatch(p) => pc[p] = "done"
    BY AllOpsMember DEF InTable, InBatch, UnfinishedUncounted, Linked, TypeOK
  <2>4. \A p \in Ops : \/ FateOf(p)' = FateOf(p)
                       \/ FateOf(p) = "counted" /\ FateOf(p)' = "lost"
    BY <2>1, <2>2, <2>3 DEF FateOf
  <2> DEFINE S == {p \in Ops : FateOf(p)' # FateOf(p)}
  <2>5. fate' = [p \in Ops |-> IF p \in S THEN "lost" ELSE fate[p]]
    BY <2>4
  <2>6. \A p \in S : fate[p] = "counted"
    BY <2>4
  <2>7. status = "active" /\ (status = "active")' = FALSE
    BY <2>1 DEF DrainInv
  <2>8. Ledger!Fail(S)
    BY <2>5, <2>6, <2>7 DEF Ledger!Fail, Ledger!Move
  <2> QED BY <2>8 DEF Ledger!Next
<1>4. CASE Account
  <2>1. /\ upc = "account" /\ upc' = "drops" /\ admitted' = admitted \cup AllOps(batch)
        /\ UNCHANGED <<pc, slot, val, drops, pendingDrops, told, status>>
    BY <1>4 DEF Account, kernelVars, sampleVars
  <2>2. \A p \in Ops : ~ InBatch(p)' /\ (InTable(p)' <=> InTable(p))
    BY <2>1, InTableFrame DEF InBatch
  <2>3. \A p \in Ops : p \in AllOps(batch) =>
          p \notin drops \cup admitted \cup told.admitted /\ ~ InTable(p)
    BY <2>1, AllOpsMember DEF CountedOnce, Disjoint, InTable
  <2>4. told.dropped \cup pendingDrops \subseteq drops
    BY DEF DropsReportedOnce
  <2>5. \A p \in Ops : FateOf(p)' = IF p \in AllOps(batch) THEN "admitted" ELSE FateOf(p)
    BY <2>1, <2>2, <2>3, <2>4 DEF FateOf, InBatch
  <2>6. \A p \in Ops : p \in AllOps(batch) => FateOf(p) = "counted"
    BY <2>1, <2>3, <2>4 DEF FateOf, InBatch
  <2> DEFINE S == Ops \cap AllOps(batch)
  <2>7. fate' = [p \in Ops |-> IF p \in S THEN "admitted" ELSE fate[p]]
    BY <2>5
  <2>8. \A p \in S : fate[p] = "counted"
    BY <2>6
  <2>9. status = "active" /\ (status = "active")' = TRUE
    BY <2>1 DEF DrainInv
  <2>10. Ledger!Collect(S)
    BY <2>7, <2>8, <2>9 DEF Ledger!Collect, Ledger!Move
  <2> QED BY <2>10 DEF Ledger!Next
<1>5. CASE ReadDrops
  <2>1. /\ upc = "drops" /\ upc' = "sample"
        /\ pendingDrops' = pendingDrops \cup (drops \ previousDrops)
        /\ UNCHANGED <<pc, slot, val, drops, admitted, told, status>>
    BY <1>5 DEF ReadDrops, kernelVars, sampleVars
  <2>2. \A p \in Ops : ~ InBatch(p) /\ ~ InBatch(p)' /\ (InTable(p)' <=> InTable(p))
    BY <2>1, InTableFrame DEF InBatch
  <2>3. \A p \in Ops : FateOf(p)' = IF FateOf(p) = "refused" THEN "seen" ELSE FateOf(p)
    BY <2>1, <2>2 DEF FateOf, DropsReportedOnce
  <2> DEFINE S == {p \in Ops : fate[p] = "refused"}
  <2>4. fate' = [p \in Ops |-> IF p \in S THEN "seen" ELSE fate[p]]
    BY <2>3
  <2>5. (status = "active")' = (status = "active")
    BY <2>1
  <2>6. Ledger!See
    BY <2>4, <2>5 DEF Ledger!See, Ledger!Move
  <2> QED BY <2>6 DEF Ledger!Next
<1>6. CASE Sample
  <2>1. /\ upc = "sample" /\ upc' = "idle" /\ admitted' = {} /\ pendingDrops' = {}
        /\ told'.admitted = told.admitted \cup admitted
        /\ told'.dropped = told.dropped \cup pendingDrops
        /\ UNCHANGED <<pc, slot, val, drops, status>>
    BY <1>6 DEF Sample, kernelVars
  <2>2. \A p \in Ops : ~ InBatch(p) /\ ~ InBatch(p)' /\ (InTable(p)' <=> InTable(p))
    BY <2>1, InTableFrame DEF InBatch
  <2>3. \A p \in Ops : FateOf(p)' = CASE FateOf(p) = "admitted" -> "reported"
                                     [] FateOf(p) = "seen" -> "disclosed"
                                     [] OTHER -> FateOf(p)
    BY <2>1, <2>2 DEF FateOf
  <2>4. fate' = [p \in Ops |-> CASE fate[p] = "admitted" -> "reported"
                                 [] fate[p] = "seen" -> "disclosed"
                                 [] OTHER -> fate[p]]
    BY <2>3
  <2>5. (status = "active")' = (status = "active")
    BY <2>1
  <2>6. Ledger!Publish
    BY <2>4, <2>5 DEF Ledger!Publish
  <2> QED BY <2>6 DEF Ledger!Next
<1> QED
  BY <1>1, <1>2, <1>3, <1>4, <1>5, <1>6 DEF Collector

(* Every behaviour of the accounting path is a behaviour of the ledger.    *)
THEOREM Refinement == Spec => ImplementsLedger
<1>1. TypeOK /\ CountInv /\ DropsReportedOnce /\ DrainInv /\ [Next]_vars
        => [Ledger!Next]_<<[o \in Ops |-> FateOf(o)], status = "active">>
  <2> SUFFICES ASSUME TypeOK, CountInv, DropsReportedOnce, DrainInv, [Next]_vars
               PROVE  [Ledger!Next]_<<[o \in Ops |-> FateOf(o)], status = "active">>
    OBVIOUS
  <2>1. CASE UNCHANGED vars
    <3>1. \A p \in Ops : FateOf(p)' = FateOf(p)
      BY <2>1, FateFrame, InTableFrame, InBatchFrame DEF vars, kernelVars, drainVars,
         collectorVars, sampleVars
    <3> QED BY <2>1, <3>1, LedgerStutter DEF vars, collectorVars
  <2> QED BY <2>1, ProbeStep, CollectorStep DEF Next
<1> QED
  BY <1>1, LedgerInit, TypeCorrect, CountInvariant, DropsOnce, DrainInvariant, PTL
     DEF Spec, Ledger!Spec, ImplementsLedger

-----------------------------------------------------------------------------
(* The maps                                                                *)

(* An LRU update stores its entry and at most loses others.                *)
LEMMA LruShape ==
  ASSUME NEW f, NEW k, NEW v, NEW g \in LruResults(f, k, v)
  PROVE  /\ k \in DOMAIN g /\ g[k] = v
         /\ DOMAIN g \subseteq DOMAIN f \cup {k}
         /\ \A x \in DOMAIN g \ {k} : x \in DOMAIN f /\ g[x] = f[x]
<1>1. PICK E \in SUBSET (DOMAIN f \ {k}) : g = With(Without(f, E), k, v)
  BY DEF LruResults
<1> QED BY <1>1 DEF With, Without

(* With room for every key it loses nothing.                               *)
LEMMA LruKeeps ==
  ASSUME NEW f, NEW k, NEW v, NEW g \in LruResults(f, k, v),
         NEW S, IsFiniteSet(S), k \in S, DOMAIN f \subseteq S,
         Cardinality(S) <= LruFloor
  PROVE  DOMAIN g = DOMAIN f \cup {k}
<1>1. PICK E \in SUBSET (DOMAIN f \ {k}) :
        /\ g = With(Without(f, E), k, v)
        /\ E # {} => k \notin DOMAIN f /\ Cardinality(DOMAIN f) >= LruFloor
  BY DEF LruResults
<1>2. E = {}
  <2> SUFFICES ASSUME E # {} PROVE FALSE
    OBVIOUS
  <2>1. DOMAIN f \subseteq S \ {k}
    BY <1>1
  <2>2. IsFiniteSet(S \ {k}) /\ Cardinality(S \ {k}) = Cardinality(S) - 1
    BY FS_RemoveElement
  <2>3. Cardinality(DOMAIN f) <= Cardinality(S \ {k})
    BY <2>1, <2>2, FS_Subset
  <2>4. IsFiniteSet(DOMAIN f) /\ Cardinality(DOMAIN f) \in Nat /\ Cardinality(S) \in Nat
    BY <2>1, <2>2, FS_Subset, FS_CardinalityType
  <2> QED BY <1>1, <2>2, <2>3, <2>4, SizesAssumption
<1> QED BY <1>1, <1>2 DEF With, Without

(* begin_fuse_request changes the worker's own entry only.                 *)
LEMMA BeginRequestShape ==
  ASSUME NEW w \in Workers, NEW r, NEW b \in BOOLEAN, DOMAIN active \subseteq Workers,
         BeginRequest(w, r, b)
  PROVE  /\ DOMAIN active' \subseteq Workers
         /\ \A v \in Workers \ {w} :
              /\ v \in DOMAIN active' <=> v \in DOMAIN active
              /\ v \in DOMAIN active => active'[v] = active[v]
         /\ w \in DOMAIN active => w \in DOMAIN active'
         /\ w \in DOMAIN active' => active'[w] = Origin(r, b)
  BY DEF BeginRequest, With

(* With room for every worker it never fails.                              *)
LEMMA BeginRequestStores ==
  ASSUME NEW w \in Workers, NEW r, NEW b \in BOOLEAN, DOMAIN active \subseteq Workers,
         Cardinality(Workers) <= ActiveRoom, BeginRequest(w, r, b)
  PROVE  w \in DOMAIN active' /\ active'[w] = Origin(r, b)
<1>1. w \in DOMAIN active \/ Cardinality(DOMAIN active) < ActiveRoom
  <2> SUFFICES ASSUME w \notin DOMAIN active PROVE Cardinality(DOMAIN active) < ActiveRoom
    OBVIOUS
  <2>1. IsFiniteSet(Workers \ {w}) /\ Cardinality(Workers \ {w}) = Cardinality(Workers) - 1
    BY FS_RemoveElement, SizesAssumption
  <2>2. DOMAIN active \subseteq Workers \ {w}
    OBVIOUS
  <2>3. Cardinality(DOMAIN active) <= Cardinality(Workers \ {w})
    BY <2>1, <2>2, FS_Subset
  <2>4. IsFiniteSet(DOMAIN active) /\ Cardinality(DOMAIN active) \in Nat
        /\ Cardinality(Workers) \in Nat
    BY <2>1, <2>2, FS_Subset, FS_CardinalityType, SizesAssumption
  <2> QED BY <2>1, <2>3, <2>4, SizesAssumption
<1> QED BY <1>1 DEF BeginRequest, With

(* The origin a request begins with has its type.                          *)
LEMMA OriginType ==
  ASSUME NEW r \in Requests, NEW b \in BOOLEAN,
         \A n \in DOMAIN writers : writers[n].task \in Tasks
  PROVE  Origin(r, b) \in Origins
<1>1. CASE r \in Tasks
  <2>1. HeaderPid[r] \in HeaderPids
    BY <1>1 DEF HeaderPids
  <2> QED BY <1>1, <2>1 DEF Origin, Origins
<1>2. CASE r \notin Tasks /\ r \in Nodes /\ b /\ Joinable(r)
  BY <1>2 DEF Origin, Origins, Joinable
<1>3. CASE r \notin Tasks /\ ~(r \in Nodes /\ b /\ Joinable(r))
  BY <1>3 DEF Origin, Origins
<1> QED BY <1>1, <1>2, <1>3

(* It leaves the map with its type.                                        *)
LEMMA BeginRequestType ==
  ASSUME MapsOK, NEW w \in Workers, NEW r \in Requests, NEW b \in BOOLEAN,
         BeginRequest(w, r, b)
  PROVE  DOMAIN active' \subseteq Workers /\ \A v \in DOMAIN active' : active'[v] \in Origins
<1>1. Origin(r, b) \in Origins
  BY OriginType DEF MapsOK, Writer
<1>2. /\ DOMAIN active' \subseteq Workers
      /\ \A v \in Workers \ {w} :
           /\ v \in DOMAIN active' <=> v \in DOMAIN active
           /\ v \in DOMAIN active => active'[v] = active[v]
      /\ w \in DOMAIN active' => active'[w] = Origin(r, b)
  BY BeginRequestShape DEF MapsOK
<1>3. ASSUME NEW v \in DOMAIN active' PROVE active'[v] \in Origins
  <2>1. v \in Workers
    BY <1>2
  <2> QED BY <1>1, <1>2, <2>1 DEF MapsOK
<1> QED BY <1>2, <1>3

-----------------------------------------------------------------------------
(* NextWriter's entry has its type.                                        *)
LEMMA NextWriterType ==
  ASSUME NEW t \in Tasks, NEW l \in Lookup
  PROVE  NextWriter(t, l) \in Writer
<1>1. /\ l.time \in 0..MaxTime
      /\ l.previous = None \/ l.previous \in Writer
  BY DEF Lookup
<1>2. l.time + MaxAge \in 0..(MaxTime + MaxAge) /\ 0 \in 0..(MaxTime + MaxAge)
  BY <1>1, SizesAssumption
<1>3. l.previous \in Writer => l.previous.ambiguous \in 0..(MaxTime + MaxAge)
  BY DEF Writer
<1> DEFINE a == IF l.previous = None \/ l.time - l.previous.seen > MaxAge THEN 0
                ELSE IF ProcessOf[l.previous.task] # ProcessOf[t] THEN l.time + MaxAge
                ELSE l.previous.ambiguous
<1>4. a \in 0..(MaxTime + MaxAge)
  BY <1>1, <1>2, <1>3
<1>5. NextWriter(t, l) = [task |-> t, seen |-> l.time, ambiguous |-> a]
  BY DEF NextWriter
<1> HIDE DEF a
<1> QED BY <1>1, <1>4, <1>5 DEF Writer

(* What an operation of a worker inserts has its type.                     *)
LEMMA OriginsType ==
  ASSUME FuseTypeOK, NEW w \in Workers, Record(w)
  PROVE  OriginsOK'
<1> DEFINE k == Key(w)
           e == [who |-> Identity(w), early |-> ~SurelyKnown(w)]
<1>0. /\ w \in DOMAIN active /\ active[w] \in Origins
      /\ active[w].kind # "pidZero" /\ OriginsOK
      /\ None \notin Tasks
  BY RequestsAssumption DEF FuseTypeOK, MapsOK, Record, Delegated, Requests
<1>1. /\ DOMAIN origins' = DOMAIN origins \cup {k} /\ origins'[k] = e
      /\ \A x \in DOMAIN origins \ {k} : origins'[x] = origins[x]
  BY DEF Record, With
<1>2. CASE active[w].kind = "writeback"
  <2>1. active[w].origin \in Tasks
    BY <1>0, <1>2 DEF Origins
  <2>2. Identity(w) \in Tasks /\ k = [kind |-> "writeback", pid |-> HostPid[Identity(w)]]
    BY <1>0, <1>2, <2>1 DEF Identity, Key
  <2>3. k \in OriginKeys
    BY <2>2, TasksAssumption DEF OriginKeys
  <2> HIDE DEF k
  <2> QED BY <1>0, <1>1, <2>2, <2>3 DEF OriginsOK
<1>3. CASE active[w].kind = "protocol"
  <2>1. active[w].origin \in HeaderPids /\ HeaderPids \subseteq Pids
    BY <1>0, <1>3, TasksAssumption DEF Origins, HeaderPids
  <2>2. CASE active[w].origin \in DOMAIN identities
    <3>1. Identity(w) \in Tasks
      BY <1>3, <2>2 DEF Identity, FuseTypeOK, MapsOK
    <3>2. k = [kind |-> "protocol", pid |-> HostPid[Identity(w)]]
      BY <1>0, <1>3, <3>1 DEF Key
    <3>3. k \in OriginKeys
      BY <3>1, <3>2, TasksAssumption DEF OriginKeys
    <3> HIDE DEF k
    <3> QED BY <1>0, <1>1, <3>1, <3>2, <3>3 DEF OriginsOK
  <2>3. CASE active[w].origin \notin DOMAIN identities
    <3>1. Identity(w) = None /\ k = [kind |-> "protocol", pid |-> active[w].origin]
      BY <1>3, <2>3 DEF Identity, Key
    <3>2. k \in OriginKeys
      BY <2>1, <3>1 DEF OriginKeys
    <3> HIDE DEF k
    <3> QED BY <1>0, <1>1, <2>1, <3>1, <3>2 DEF OriginsOK
  <2> QED BY <2>2, <2>3
<1> QED BY <1>0, <1>2, <1>3 DEF Origins

(* Answering what a worker had taken keeps tasks and requests in step.     *)
LEMMA AnswerType ==
  ASSUME FuseTypeOK, NEW w \in Workers, Answer(serving[w]),
         serving' = [serving EXCEPT ![w] = None], UNCHANGED <<queue, lookup>>
  PROVE  RequestsOK' /\ TasksOK'
<1> USE DEF FuseTypeOK, RequestsOK, TasksOK
<1>1. RequestsOK'
  OBVIOUS
<1>2. task' \in [Tasks -> {"idle", "sent", "waiting", "answered", "writing"}]
  BY DEF Answer
<1>3. ASSUME NEW t \in Tasks
      PROVE  /\ t \in queue' \/ (\E v \in Workers : serving'[v] = t)
                   <=> task'[t] \in {"sent", "waiting"}
             /\ task'[t] = "writing" => lookup'[t] \in Lookup
  <2>0. t # None
    BY RequestsAssumption DEF Requests
  <2>1. CASE serving[w] = t
    BY <2>0, <2>1 DEF Answer
  <2>2. CASE serving[w] # t
    <3>1. task'[t] = task[t]
      BY <2>2 DEF Answer
    <3>2. (\E v \in Workers : serving'[v] = t) <=> (\E v \in Workers : serving[v] = t)
      BY <2>0, <2>2
    <3> QED BY <3>1, <3>2
  <2> QED BY <2>1, <2>2
<1> QED BY <1>1, <1>2, <1>3

(* Every variable of the attribution path always holds a value of its      *)
(* type.                                                                   *)
THEOREM FuseTypeCorrect == FuseSpec => []FuseTypeOK
<1>1. FuseInit => FuseTypeOK
  <2> SUFFICES ASSUME FuseInit PROVE FuseTypeOK
    OBVIOUS
  <2>1. Never \in Never..MaxTime /\ 0 \in 0..MaxTime
    BY SizesAssumption DEF Never
  <2>2. RequestsOK /\ TasksOK
    BY RequestsAssumption DEF FuseInit, RequestsOK, TasksOK, Requests
  <2>3. MapsOK /\ OriginsOK
    BY DEF FuseInit, MapsOK, OriginsOK, Empty
  <2> QED BY <2>1, <2>2, <2>3 DEF FuseInit, FuseTypeOK
<1>2. FuseTypeOK /\ [FuseNext]_fuseVars => FuseTypeOK'
  <2> SUFFICES ASSUME FuseTypeOK, [FuseNext]_fuseVars PROVE FuseTypeOK'
    OBVIOUS
  <2> USE DEF taskVars, workerVars, writerVars, OriginsOK
  <2>0. RequestsOK /\ TasksOK /\ MapsOK /\ Tasks \subseteq Requests
        /\ Nodes \subseteq Requests /\ Background \subseteq Requests
        /\ \A r \in Requests : r # None
    BY RequestsAssumption DEF FuseTypeOK, Requests
  <2>1. CASE Tick \/ UNCHANGED fuseVars
    BY <2>1, SizesAssumption DEF Tick, fuseVars, FuseTypeOK, RequestsOK, TasksOK, MapsOK
  <2>2. ASSUME NEW t \in Tasks, Ask(t) PROVE FuseTypeOK'
    <3>1. RequestsOK'
      BY <2>0, <2>2 DEF Ask, RequestsOK, TasksOK
    <3>2. TasksOK'
      BY <2>0, <2>2 DEF Ask, RequestsOK, TasksOK
    <3> QED BY <2>2, <3>1, <3>2 DEF Ask, FuseTypeOK, MapsOK
  <2>3. ASSUME NEW t \in Tasks, WaitAnswer(t) PROVE FuseTypeOK'
    <3>1. TasksOK'
      BY <2>0, <2>3 DEF WaitAnswer, TasksOK
    <3>2. HeaderPid[t] \in HeaderPids
      BY DEF HeaderPids
    <3>3. MapsOK'
      <4>1. CASE UNCHANGED identities
        BY <2>0, <2>3, <4>1 DEF WaitAnswer, MapsOK
      <4>2. CASE identities' \in LruResults(identities, HeaderPid[t], t)
        BY <2>0, <2>3, <3>2, <4>2, LruShape DEF WaitAnswer, MapsOK
      <4> QED BY <2>3, <4>1, <4>2 DEF WaitAnswer
    <3> QED BY <2>3, <3>1, <3>3 DEF WaitAnswer, FuseTypeOK, RequestsOK
  <2>4. ASSUME NEW t \in Tasks, NEW n \in Nodes, LookupWriter(t, n) PROVE FuseTypeOK'
    <3>1. [node |-> n, time |-> now,
           previous |-> IF n \in DOMAIN writers THEN writers[n] ELSE None] \in Lookup
      BY <2>0 DEF FuseTypeOK, MapsOK, Lookup
    <3>2. TasksOK'
      BY <2>0, <2>4, <3>1 DEF LookupWriter, TasksOK
    <3> QED BY <2>4, <3>2 DEF LookupWriter, FuseTypeOK, RequestsOK, MapsOK
  <2>5. ASSUME NEW t \in Tasks, RememberWriter(t) PROVE FuseTypeOK'
    <3>1. lookup[t] \in Lookup /\ lookup[t].node \in Nodes /\ lookup[t].time \in 0..MaxTime
      BY <2>0, <2>5 DEF RememberWriter, TasksOK, Lookup
    <3>2. NextWriter(t, lookup[t]) \in Writer
      BY <3>1, NextWriterType
    <3>3. DOMAIN writers' \subseteq Nodes /\ \A n \in DOMAIN writers' : writers'[n] \in Writer
      BY <2>0, <2>5, <3>1, <3>2, LruShape DEF RememberWriter, MapsOK
    <3>4. MapsOK'
      BY <2>0, <2>5, <3>3 DEF RememberWriter, MapsOK
    <3>5. TasksOK'
      BY <2>0, <2>5 DEF RememberWriter, TasksOK
    <3>6. lookup[t].time \in Never..MaxTime
      BY <3>1, SizesAssumption DEF Never
    <3>7. lastWrite' \in [Nodes -> [Processes -> Never..MaxTime]]
      BY <2>5, <3>6 DEF RememberWriter, FuseTypeOK
    <3> QED BY <2>0, <2>5, <3>4, <3>5, <3>7 DEF RememberWriter, FuseTypeOK, RequestsOK
  <2>6. ASSUME NEW r \in Nodes \cup Background, Submit(r) PROVE FuseTypeOK'
    <3>1. r \in Requests /\ r \notin Tasks
      BY RequestsAssumption DEF Requests
    <3>2. RequestsOK' /\ TasksOK'
      BY <2>0, <2>6, <3>1 DEF Submit, RequestsOK, TasksOK
    <3> QED BY <2>0, <2>6, <3>2 DEF Submit, FuseTypeOK, MapsOK
  <2>7. ASSUME NEW w \in Workers, Worker(w) PROVE FuseTypeOK'
    <3>1. CASE Read(w)
      <4>1. MapsOK'
        BY <2>0, <3>1 DEF Read, BeginFuseRead, Without, MapsOK
      <4> QED BY <2>0, <3>1, <4>1 DEF Read, BeginFuseRead, FuseTypeOK, RequestsOK, TasksOK
    <3>2. CASE Splice(w)
      BY <2>0, <3>2 DEF Splice, FuseTypeOK, RequestsOK, TasksOK, MapsOK
    <3>3. ASSUME NEW r \in Requests, SelectRequest(w, r) PROVE FuseTypeOK'
      <4>1. RequestsOK'
        BY <2>0, <3>3 DEF SelectRequest, RequestsOK
      <4>2. ASSUME NEW t \in Tasks
            PROVE  t \in queue' \/ (\E v \in Workers : serving'[v] = t)
                     <=> t \in queue \/ (\E v \in Workers : serving[v] = t)
        BY <2>0, <3>3 DEF SelectRequest, RequestsOK
      <4>3. TasksOK'
        BY <2>0, <3>3, <4>2 DEF SelectRequest, TasksOK
      <4>4. MapsOK'
        BY <2>0, <3>3, BeginRequestType DEF SelectRequest, MapsOK
      <4> QED BY <3>3, <4>1, <4>3, <4>4 DEF SelectRequest, FuseTypeOK
    <3>4. ASSUME NEW b \in BOOLEAN, ReadReturn(w, b) PROVE FuseTypeOK'
      <4>1. serving[w] \in Requests
        BY <2>0, <3>4 DEF ReadReturn, RequestsOK
      <4>2. MapsOK'
        BY <2>0, <3>4, <4>1, BeginRequestType DEF ReadReturn, MapsOK
      <4> QED BY <2>0, <3>4, <4>2 DEF ReadReturn, FuseTypeOK, RequestsOK, TasksOK
    <3>5. CASE SpliceReturn(w)
      BY <2>0, <3>5 DEF SpliceReturn, FuseTypeOK, RequestsOK, TasksOK, MapsOK
    <3>6. CASE TakeFails(w)
      <4>1. RequestsOK' /\ TasksOK'
        BY <3>6, AnswerType DEF TakeFails
      <4> QED BY <2>0, <3>6, <4>1 DEF TakeFails, FuseTypeOK, MapsOK
    <3>7. CASE Reply(w)
      <4>1. RequestsOK' /\ TasksOK'
        BY <3>7, AnswerType DEF Reply
      <4>2. MapsOK'
        BY <2>0, <3>7 DEF Reply, Without, MapsOK
      <4> QED BY <2>0, <3>7, <4>1, <4>2 DEF Reply, FuseTypeOK
    <3>8. CASE EndUnseen(w)
      <4>1. RequestsOK' /\ TasksOK'
        BY <3>8, AnswerType DEF EndUnseen
      <4> QED BY <2>0, <3>8, <4>1 DEF EndUnseen, FuseTypeOK, MapsOK
    <3>9. CASE Record(w)
      BY <2>0, <3>9, OriginsType DEF Record, FuseTypeOK, RequestsOK, TasksOK, MapsOK
    <3> QED BY <2>7, <3>1, <3>2, <3>3, <3>4, <3>5, <3>6, <3>7, <3>8, <3>9 DEF Worker
  <2>8. ASSUME NEW k \in DOMAIN origins, DrainOrigin(k) PROVE FuseTypeOK'
    <3>1. OriginsOK'
      BY <2>8 DEF DrainOrigin, Without, FuseTypeOK
    <3> HIDE DEF OriginsOK
    <3> QED BY <2>0, <2>8, <3>1 DEF DrainOrigin, FuseTypeOK, RequestsOK, TasksOK, MapsOK
  <2> QED BY <2>1, <2>2, <2>3, <2>4, <2>5, <2>6, <2>7, <2>8 DEF FuseNext, Task
<1> QED BY <1>1, <1>2, PTL DEF FuseSpec

-----------------------------------------------------------------------------
(* A worker's entry is of the request it has, whatever the replies.        *)
LEMMA ActiveIsServedInvariant == FuseSpec => []ActiveIsServed
<1>1. FuseInit => ActiveIsServed
  BY RequestsAssumption DEF FuseInit, ActiveIsServed, Empty, Requests
<1>2. FuseTypeOK /\ ActiveIsServed /\ [FuseNext]_fuseVars => ActiveIsServed'
  <2> SUFFICES ASSUME FuseTypeOK, ActiveIsServed, [FuseNext]_fuseVars PROVE ActiveIsServed'
    OBVIOUS
  <2> USE DEF taskVars, workerVars, writerVars
  <2> DEFINE Part(v) ==
        /\ serving[v] = None /\ v \notin unseen => v \notin DOMAIN active
        /\ serving[v] \in Tasks /\ v \in DOMAIN active /\ v \notin unseen => OfRequest(v)
        /\ serving[v] \in Tasks /\ "request" \in hooks =>
             /\ v \in DOMAIN active => OfRequest(v)
             /\ Cardinality(Workers) <= ActiveRoom => v \in DOMAIN active
  <2>0. /\ \A v \in Workers : Part(v)
        /\ None \notin Tasks
        /\ DOMAIN active \subseteq Workers
        /\ serving \in [Workers -> Requests \cup {None}]
    BY RequestsAssumption DEF ActiveIsServed, Requests, FuseTypeOK, MapsOK, RequestsOK
  <2>1. ASSUME UNCHANGED <<hooks, serving, active, unseen>> PROVE ActiveIsServed'
    BY <2>1 DEF ActiveIsServed, OfRequest
  <2>2. ASSUME NEW t \in Tasks, Task(t) PROVE ActiveIsServed'
    BY <2>1, <2>2 DEF Task, Ask, WaitAnswer, LookupWriter, RememberWriter
  <2>3. CASE \/ Tick \/ (\E r \in Nodes \cup Background : Submit(r))
             \/ (\E k \in DOMAIN origins : DrainOrigin(k)) \/ UNCHANGED fuseVars
    BY <2>1, <2>3 DEF Tick, Submit, DrainOrigin, fuseVars
  <2>4. ASSUME NEW w \in Workers, Worker(w) PROVE ActiveIsServed'
    <3>0. SUFFICES ASSUME NEW v \in Workers PROVE Part(v)'
      BY DEF ActiveIsServed
    <3>1. ASSUME UNCHANGED hooks, serving'[v] = serving[v], v \in unseen' <=> v \in unseen,
                 v \in DOMAIN active' <=> v \in DOMAIN active,
                 v \in DOMAIN active => active'[v] = active[v]
          PROVE  Part(v)'
      BY <2>0, <3>1 DEF OfRequest
    <3>2. CASE Splice(w) \/ SpliceReturn(w) \/ Record(w)
      BY <3>1, <3>2 DEF Splice, SpliceReturn, Record
    <3>3. CASE Read(w)
      <4>1. CASE v = w
        BY <2>0, <3>3, <4>1 DEF Read, BeginFuseRead, Without
      <4>2. CASE v # w
        BY <3>1, <3>3, <4>2 DEF Read, BeginFuseRead, Without
      <4> QED BY <4>1, <4>2
    <3>4. ASSUME NEW r \in Requests, SelectRequest(w, r) PROVE Part(v)'
      <4>1. CASE v # w
        <5>1. CASE UNCHANGED active
          BY <2>0, <3>1, <3>4, <4>1, <5>1 DEF SelectRequest
        <5>2. CASE BeginRequest(w, r, TRUE)
          BY <2>0, <3>1, <3>4, <4>1, <5>2, BeginRequestShape DEF SelectRequest
        <5> QED BY <3>4, <5>1, <5>2 DEF SelectRequest
      <4>2. CASE v = w
        <5>0. /\ serving'[w] = r /\ r # None /\ serving[w] = None
              /\ UNCHANGED <<hooks, unseen>>
          BY <2>0, <3>4, RequestsAssumption DEF SelectRequest
        <5>1. CASE "request" \notin hooks
          BY <2>0, <3>4, <4>2, <5>0, <5>1 DEF SelectRequest
        <5>2. CASE "request" \in hooks
          <6>1. BeginRequest(w, r, TRUE)
            BY <3>4, <5>2 DEF SelectRequest
          <6>2. w \in DOMAIN active' => active'[w] = Origin(r, TRUE)
            BY <2>0, <6>1, BeginRequestShape
          <6>3. Cardinality(Workers) <= ActiveRoom => w \in DOMAIN active'
            BY <2>0, <6>1, BeginRequestStores
          <6>4. r \in Tasks /\ w \in DOMAIN active' => OfRequest(w)'
            BY <5>0, <6>2 DEF OfRequest, Origin
          <6> QED BY <4>2, <5>0, <6>3, <6>4
        <5> QED BY <5>1, <5>2
      <4> QED BY <4>1, <4>2
    <3>5. ASSUME NEW b \in BOOLEAN, ReadReturn(w, b) PROVE Part(v)'
      <4>0. UNCHANGED <<hooks, serving, unseen>> /\ serving[w] \in Requests /\ serving[w] # None
        BY <2>0, <3>5 DEF ReadReturn
      <4>1. CASE UNCHANGED active
        BY <3>1, <4>0, <4>1
      <4>2. CASE BeginRequest(w, serving[w], FALSE) /\ v # w
        BY <2>0, <3>1, <4>0, <4>2, BeginRequestShape
      <4>3. CASE BeginRequest(w, serving[w], FALSE) /\ v = w
        <5>1. w \in DOMAIN active' => active'[w] = Origin(serving[w], FALSE)
          BY <2>0, <4>3, BeginRequestShape
        <5>2. Cardinality(Workers) <= ActiveRoom => w \in DOMAIN active'
          BY <2>0, <4>3, BeginRequestStores
        <5>3. serving[w] \in Tasks /\ w \in DOMAIN active' => OfRequest(w)'
          BY <4>0, <5>1 DEF OfRequest, Origin
        <5> QED BY <4>0, <4>3, <5>2, <5>3
      <4> QED BY <3>5, <4>1, <4>2, <4>3 DEF ReadReturn
    <3>6. CASE TakeFails(w)
      <4>1. CASE v = w /\ serving[w] # None
        BY <2>0, <3>6, <4>1 DEF TakeFails
      <4>2. CASE v # w \/ serving[w] = None
        BY <2>0, <3>1, <3>6, <4>2 DEF TakeFails
      <4> QED BY <4>1, <4>2
    <3>7. CASE Reply(w)
      <4>1. CASE v = w
        BY <2>0, <3>7, <4>1 DEF Reply, Without
      <4>2. CASE v # w
        BY <3>1, <3>7, <4>2 DEF Reply, Without
      <4> QED BY <4>1, <4>2
    <3>8. CASE EndUnseen(w)
      <4>1. CASE v = w
        BY <2>0, <3>8, <4>1 DEF EndUnseen
      <4>2. CASE v # w
        BY <3>1, <3>8, <4>2 DEF EndUnseen
      <4> QED BY <4>1, <4>2
    <3> HIDE DEF Part
    <3> QED BY <2>4, <3>2, <3>3, <3>4, <3>5, <3>6, <3>7, <3>8 DEF Worker
  <2> QED BY <2>2, <2>3, <2>4 DEF FuseNext
<1> QED BY <1>1, <1>2, FuseTypeCorrect, PTL DEF FuseSpec

(* A task that waits for its answer is known, if identities are kept.      *)
LEMMA WaitingIsKnownInvariant == FuseSpec => []WaitingIsKnown
<1>1. FuseInit => WaitingIsKnown
  BY DEF FuseInit, WaitingIsKnown
<1>2. FuseTypeOK /\ WaitingIsKnown /\ [FuseNext]_fuseVars => WaitingIsKnown'
  <2> SUFFICES ASSUME FuseTypeOK, WaitingIsKnown, [FuseNext]_fuseVars, "identity" \in hooks',
                      IdentitiesKept, NEW u \in Tasks, task'[u] = "waiting"
               PROVE  HeaderPid[u] \in DOMAIN identities'
    BY DEF WaitingIsKnown, IdentitiesKept
  <2> USE DEF taskVars, workerVars, writerVars
  <2>0. /\ hooks' = hooks
        /\ task \in [Tasks -> {"idle", "sent", "waiting", "answered", "writing"}]
        /\ DOMAIN identities \subseteq HeaderPids
        /\ HeaderPid[u] \in HeaderPids
        /\ task[u] = "waiting" => HeaderPid[u] \in DOMAIN identities
    <3>1. hooks' = hooks
      BY DEF FuseNext, Task, Worker, Tick, Ask, WaitAnswer, LookupWriter, RememberWriter, Submit,
             Read, Splice, SelectRequest, ReadReturn, SpliceReturn, TakeFails, Reply,
             EndUnseen, Record, DrainOrigin, fuseVars
    <3> QED BY <3>1 DEF WaitingIsKnown, FuseTypeOK, TasksOK, MapsOK, HeaderPids
  <2>1. ASSUME task[u] = "waiting", UNCHANGED identities
        PROVE  HeaderPid[u] \in DOMAIN identities'
    BY <2>0, <2>1
  <2>2. ASSUME NEW t \in Tasks, WaitAnswer(t) PROVE HeaderPid[u] \in DOMAIN identities'
    <3>1. identities' \in LruResults(identities, HeaderPid[t], t) /\ HeaderPid[t] \in HeaderPids
      BY <2>0, <2>2 DEF WaitAnswer, HeaderPids
    <3>2. DOMAIN identities' = DOMAIN identities \cup {HeaderPid[t]}
      <4>1. IsFiniteSet(HeaderPids) /\ Cardinality(HeaderPids) <= LruFloor
        BY SizesAssumption DEF IdentitiesKept
      <4>2. DOMAIN identities \subseteq HeaderPids
        BY <2>0
      <4> DEFINE h == HeaderPid[t]
      <4>3. identities' \in LruResults(identities, h, t) /\ h \in HeaderPids
        BY <3>1
      <4> HIDE DEF h
      <4>4. DOMAIN identities' = DOMAIN identities \cup {h}
        BY <4>1, <4>2, <4>3, LruKeeps
      <4> QED BY <4>4 DEF h
    <3> QED BY <2>0, <2>2, <3>2 DEF WaitAnswer
  <2>3. ASSUME NEW t \in Tasks, Ask(t) \/ RememberWriter(t) \/ \E n \in Nodes : LookupWriter(t, n)
        PROVE  HeaderPid[u] \in DOMAIN identities'
    BY <2>0, <2>1, <2>3 DEF Ask, RememberWriter, LookupWriter
  <2>4. CASE \/ Tick \/ (\E r \in Nodes \cup Background : Submit(r))
             \/ (\E k \in DOMAIN origins : DrainOrigin(k)) \/ UNCHANGED fuseVars
    BY <2>0, <2>1, <2>4 DEF Tick, Submit, DrainOrigin, fuseVars
  <2>5. ASSUME NEW w \in Workers, Worker(w) PROVE HeaderPid[u] \in DOMAIN identities'
    <3>1. UNCHANGED task \/ Answer(serving[w])
      BY <2>5 DEF Worker, Read, Splice, SelectRequest, ReadReturn, SpliceReturn, TakeFails,
                  Reply, EndUnseen, Record
    <3>2. task[u] = "waiting"
      BY <2>0, <3>1 DEF Answer
    <3> QED BY <2>1, <2>5, <3>2 DEF Worker, Read, Splice, SelectRequest, ReadReturn,
                  SpliceReturn, TakeFails, Reply, EndUnseen, Record
  <2> QED BY <2>2, <2>3, <2>4, <2>5 DEF FuseNext, Task
<1> QED BY <1>1, <1>2, FuseTypeCorrect, PTL DEF FuseSpec

(* Only an entry made before its requester surely was known carries no     *)
(* identity.                                                               *)
LEMMA NamelessIsEarlyInvariant == FuseSpec => []NamelessIsEarly
<1>1. FuseInit => NamelessIsEarly
  BY DEF FuseInit, NamelessIsEarly, Empty
<1>2. FuseTypeOK /\ ActiveIsServed /\ WaitingIsKnown /\ NamelessIsEarly /\ [FuseNext]_fuseVars
        => NamelessIsEarly'
  <2> SUFFICES ASSUME FuseTypeOK, ActiveIsServed, WaitingIsKnown, NamelessIsEarly,
                      [FuseNext]_fuseVars
               PROVE  NamelessIsEarly'
    OBVIOUS
  <2>1. CASE UNCHANGED origins
    BY <2>1 DEF NamelessIsEarly
  <2>2. ASSUME NEW k \in DOMAIN origins, DrainOrigin(k) PROVE NamelessIsEarly'
    BY <2>2 DEF DrainOrigin, Without, NamelessIsEarly
  <2>3. ASSUME NEW w \in Workers, Record(w) PROVE NamelessIsEarly'
    <3>1. SurelyKnown(w) => Identity(w) # None
      <4> SUFFICES ASSUME SurelyKnown(w) PROVE Identity(w) # None
        OBVIOUS
      <4>1. active[w] = [kind |-> "protocol", origin |-> HeaderPid[serving[w]]]
        BY <2>3 DEF Record, Delegated, SurelyKnown, ActiveIsServed, OfRequest
      <4>2. HeaderPid[serving[w]] \in DOMAIN identities
        BY DEF SurelyKnown, WaitingIsKnown
      <4>3. identities[HeaderPid[serving[w]]] \in Tasks /\ None \notin Tasks
        BY <4>2, RequestsAssumption DEF FuseTypeOK, MapsOK, Requests
      <4> QED BY <4>1, <4>2, <4>3 DEF Identity
    <3> QED BY <2>3, <3>1 DEF Record, With, NamelessIsEarly
  <2>4. UNCHANGED origins \/ (\E k \in DOMAIN origins : DrainOrigin(k))
        \/ (\E w \in Workers : Record(w))
    BY DEF FuseNext, Task, Worker, Tick, Ask, WaitAnswer, LookupWriter, RememberWriter, Submit,
           Read, Splice, SelectRequest, ReadReturn, SpliceReturn, TakeFails, Reply, EndUnseen,
           fuseVars
  <2> QED BY <2>1, <2>2, <2>3, <2>4
<1> QED BY <1>1, <1>2, FuseTypeCorrect, ActiveIsServedInvariant, WaitingIsKnownInvariant, PTL
        DEF FuseSpec

(* Backing I/O is charged to the requester, and never to another process,  *)
(* as long as the pids of tasks cannot be mistaken; entries made before    *)
(* the requester was known may go on under its bare pid.                   *)
THEOREM ChargesRequester == FuseSpec => []RequesterCharged
<1>1. FuseTypeOK /\ ActiveIsServed /\ WaitingIsKnown /\ NamelessIsEarly => RequesterCharged
  <2> SUFFICES ASSUME FuseTypeOK, ActiveIsServed, WaitingIsKnown, NamelessIsEarly, PidsApart,
                      NEW w \in Workers, serving[w] \in Tasks
               PROVE  Attributed(w)
    BY DEF RequesterCharged, Attributed
  <2> DEFINE t == serving[w]
             k == Key(w)
  <2>0. None \notin Tasks
    BY RequestsAssumption DEF Requests
  <2>1. HeaderPid[t] \in DOMAIN identities => identities[HeaderPid[t]] = t
    BY DEF FuseTypeOK, MapsOK, PidsApart
  <2>2. ASSUME w \in DOMAIN active, OfRequest(w)
        PROVE  /\ Delegated(w)
               /\ IF HeaderPid[t] \in DOMAIN identities
                  THEN Identity(w) = t /\ k.pid = HostPid[t]
                  ELSE Identity(w) = None /\ k.pid = HeaderPid[t]
    BY <2>0, <2>1, <2>2 DEF OfRequest, Delegated, Identity, Key
  <2> HIDE DEF k
  <2>3. ASSUME w \in DOMAIN active, OfRequest(w), k \in DOMAIN origins
        PROVE  \/ origins[k].who = t
               \/ origins[k].who = None /\ k.pid = HeaderPid[t]
    <3>1. CASE origins[k].who \in Tasks /\ k.pid = HostPid[origins[k].who]
      BY <2>2, <2>3, <3>1, TasksAssumption DEF PidsApart
    <3>2. CASE origins[k].who = None /\ k.pid \in HeaderPids
      <4>1. PICK u \in Tasks : k.pid = HeaderPid[u]
        BY <3>2 DEF HeaderPids
      <4>2. u = t
        BY <2>2, <2>3, <4>1 DEF PidsApart
      <4> QED BY <3>2, <4>1, <4>2
    <3> QED BY <2>3, <3>1, <3>2 DEF FuseTypeOK, OriginsOK
  <2>4. ASSUME w \in DOMAIN active, OfRequest(w)
        PROVE  ChargedTo(w) \in {ProcessOf[t], HeaderPid[t]}
    BY <2>0, <2>2, <2>3, <2>4 DEF ChargedTo, Charged, k
  <2>5. w \notin DOMAIN active => ChargedTo(w) = Daemon
    BY DEF ChargedTo, Delegated
  <2>6. w \notin unseen => ChargedTo(w) \in {ProcessOf[t], HeaderPid[t], Daemon}
    BY <2>4, <2>5 DEF ActiveIsServed
  <2>7. ASSUME SurelyKnown(w), k \in DOMAIN origins => ~origins[k].early
        PROVE  ChargedTo(w) = ProcessOf[t]
    <3>1. w \in DOMAIN active /\ OfRequest(w)
      BY <2>7 DEF SurelyKnown, ActiveIsServed
    <3>2. HeaderPid[t] \in DOMAIN identities
      BY <2>7 DEF SurelyKnown, WaitingIsKnown
    <3>3. Charged(w) = t
      BY <2>2, <2>3, <2>7, <3>1, <3>2 DEF Charged, NamelessIsEarly, k
    <3> QED BY <2>0, <2>2, <3>1, <3>3 DEF ChargedTo
  <2> QED BY <2>6, <2>7 DEF Attributed, k
<1> QED BY <1>1, FuseTypeCorrect, ActiveIsServedInvariant, WaitingIsKnownInvariant,
           NamelessIsEarlyInvariant, PTL

(* A worker's own I/O is its daemon's, unless its last request ended where *)
(* no program looked.                                                      *)
THEOREM OwnWorkIsDaemons == FuseSpec => []OwnWork
<1>1. ActiveIsServed => OwnWork
  BY DEF ActiveIsServed, OwnWork, ChargedTo, Delegated
<1> QED BY <1>1, ActiveIsServedInvariant, PTL

-----------------------------------------------------------------------------
(* A step that touches neither the writers nor the tasks that write keeps  *)
(* what is known of the writers.                                           *)
LEMMA WritersFrame ==
  ASSUME WritersInv, UNCHANGED <<now, writers, lastWrite, contended, lookup>>,
         \A t \in Tasks : task'[t] = "writing" <=> task[t] = "writing"
  PROVE  WritersInv'
BY DEF WritersInv, LookupIsFresh, EntryIsLast, WritersKept

(* The numbers the entries of one node are made of.                        *)
LEMMA WriterNumbers ==
  ASSUME FuseTypeOK, NEW n \in Nodes
  PROVE  /\ n \in DOMAIN writers =>
              /\ writers[n].seen \in Int /\ writers[n].ambiguous \in Int
              /\ writers[n].ambiguous >= 0 /\ writers[n].task \in Tasks
              /\ ProcessOf[writers[n].task] \in Processes
              /\ writers[n] # None
         /\ \A p \in Processes : lastWrite[n][p] \in Int
         /\ now \in Int /\ MaxAge \in Int /\ MaxAge >= 0
         /\ Never + MaxAge = -1
<1>1. n \in DOMAIN writers => writers[n] \in Writer
  BY DEF FuseTypeOK, MapsOK
<1>2. n \in DOMAIN writers =>
        /\ writers[n].seen \in 0..MaxTime /\ writers[n].ambiguous \in 0..(MaxTime + MaxAge)
        /\ writers[n].task \in Tasks /\ writers[n] # None
  BY <1>1, NoneAssumption DEF Writer
<1>3. \A p \in Processes : lastWrite[n][p] \in Never..MaxTime
  BY DEF FuseTypeOK
<1> QED BY <1>2, <1>3, SizesAssumption, TasksAssumption DEF FuseTypeOK, Never

(* What a task looked up has its type.                                     *)
LEMMA LookupNumbers ==
  ASSUME FuseTypeOK, NEW t \in Tasks, task[t] = "writing"
  PROVE  /\ lookup[t].node \in Nodes /\ lookup[t].time \in Int
         /\ ProcessOf[t] \in Processes
<1>1. lookup[t] \in Lookup
  BY DEF FuseTypeOK, TasksOK
<1> QED BY <1>1, SizesAssumption, TasksAssumption DEF Lookup

(* The entry of a write that no other overlapped is the last write, and    *)
(* keeps track of the writes of others.                                    *)
LEMMA NextWriterIsLast ==
  ASSUME FuseTypeOK, WritersKept, NEW t \in Tasks, task[t] = "writing",
         NEW n \in Nodes, n = lookup[t].node, LookupIsFresh(n), EntryIsLast(n),
         n \in DOMAIN writers', writers'[n] = NextWriter(t, lookup[t]),
         lastWrite' = [lastWrite EXCEPT ![n][ProcessOf[t]] = lookup[t].time],
         now' = now
  PROVE  EntryIsLast(n)'
<1> DEFINE l == lookup[t]
           p == ProcessOf[t]
           e == NextWriter(t, l)
<1>0. /\ l.time \in Int /\ l.time <= now /\ p \in Processes
      /\ l.previous = IF n \in DOMAIN writers THEN writers[n] ELSE None
      /\ n \in DOMAIN writers => writers[n].seen <= l.time /\ writers[n] # None
  BY LookupNumbers, WriterNumbers DEF LookupIsFresh
<1>1. e.task = t /\ e.seen = l.time
  BY DEF NextWriter
<1>2. /\ lastWrite'[n][p] = l.time
      /\ \A q \in Processes \ {p} : lastWrite'[n][q] = lastWrite[n][q]
  BY <1>0 DEF FuseTypeOK
<1>3. CASE n \notin DOMAIN writers
  <2>1. \A q \in Processes : lastWrite[n][q] = Never
    BY <1>3 DEF EntryIsLast
  <2>2. l.previous = None
    BY <1>0, <1>3
  <2>3. e.ambiguous = 0
    BY <2>2 DEF NextWriter
  <2>4. 0 <= l.time /\ Never <= l.time /\ Never + MaxAge <= 0
    <3>1. l \in Lookup
      BY DEF FuseTypeOK, TasksOK
    <3> QED BY <3>1, SizesAssumption DEF Lookup, Never
  <2> HIDE DEF e, p, l
  <2> QED
    BY <1>0, <1>1, <1>2, <2>1, <2>3, <2>4 DEF EntryIsLast, e, p, l
<1>4. CASE n \in DOMAIN writers
  <2> DEFINE o == writers[n]
  <2>1. /\ o.seen \in Int /\ o.ambiguous \in Int /\ MaxAge \in Int /\ MaxAge >= 0
        /\ o.seen <= l.time /\ l.previous = o /\ o # None
        /\ lastWrite[n][ProcessOf[o.task]] = o.seen
        /\ \A q \in Processes : lastWrite[n][q] \in Int /\ lastWrite[n][q] <= o.seen
        /\ \A q \in Processes \ {ProcessOf[o.task]} :
             lastWrite[n][q] + MaxAge < o.seen \/ lastWrite[n][q] + MaxAge <= o.ambiguous
    BY <1>0, <1>4, WriterNumbers DEF EntryIsLast
  <2>2. e.ambiguous = IF l.time - o.seen > MaxAge THEN 0
                      ELSE IF ProcessOf[o.task] # p THEN l.time + MaxAge ELSE o.ambiguous
    BY <2>1 DEF NextWriter
  <2> HIDE DEF e, o, p, l
  <2>3. ASSUME NEW q \in Processes \ {p}
        PROVE  lastWrite[n][q] + MaxAge < l.time \/ lastWrite[n][q] + MaxAge <= e.ambiguous
    <3>1. CASE l.time - o.seen > MaxAge
      BY <1>0, <2>1, <3>1
    <3>2. CASE ~(l.time - o.seen > MaxAge) /\ ProcessOf[o.task] # p
      BY <1>0, <2>1, <2>2, <3>2
    <3>3. CASE ~(l.time - o.seen > MaxAge) /\ ProcessOf[o.task] = p
      BY <1>0, <2>1, <2>2, <3>3
    <3> QED BY <3>1, <3>2, <3>3
  <2>4. \A q \in Processes : lastWrite'[n][q] \in Int /\ lastWrite'[n][q] <= l.time
    BY <1>0, <1>2, <2>1
  <2>5. writers'[n] = e
    BY DEF e, l
  <2> QED BY <1>0, <1>1, <1>2, <2>3, <2>4, <2>5 DEF EntryIsLast, p
<1> QED BY <1>3, <1>4

(* On a node no two tasks ever wrote at once, the entry tells who wrote    *)
(* it last and whether others did within the window.                       *)
LEMMA WritersInvariant == FuseSpec => []WritersInv
<1>1. FuseInit => WritersInv
  BY DEF FuseInit, WritersInv, LookupIsFresh, EntryIsLast, Empty
<1>2. FuseTypeOK /\ WritersInv /\ [FuseNext]_fuseVars => WritersInv'
  <2> SUFFICES ASSUME FuseTypeOK, WritersInv, [FuseNext]_fuseVars PROVE WritersInv'
    OBVIOUS
  <2> USE DEF taskVars, workerVars, writerVars
  <2>0. task \in [Tasks -> {"idle", "sent", "waiting", "answered", "writing"}]
    BY DEF FuseTypeOK, TasksOK
  <2>1. CASE Tick
    <3>1. now \in Int /\ now' = now + 1
      BY <2>1, SizesAssumption DEF Tick, FuseTypeOK
    <3>2. \A n \in Nodes : n \in DOMAIN writers => writers[n].seen \in Int
      BY WriterNumbers
    <3>3. \A t \in Tasks : task[t] = "writing" => lookup[t].time \in Int
      BY LookupNumbers
    <3> QED
      BY <2>1, <3>1, <3>2, <3>3
      DEF Tick, WritersInv, LookupIsFresh, EntryIsLast, WritersKept
  <2>2. CASE UNCHANGED fuseVars
    BY <2>2, WritersFrame DEF fuseVars
  <2>3. ASSUME NEW t \in Tasks, Ask(t) \/ WaitAnswer(t) PROVE WritersInv'
    BY <2>0, <2>3, WritersFrame DEF Ask, WaitAnswer
  <2>4. ASSUME NEW t \in Tasks, NEW n \in Nodes, LookupWriter(t, n) PROVE WritersInv'
    <3> SUFFICES ASSUME WritersKept, NEW m \in Nodes \ contended'
                 PROVE  LookupIsFresh(m)' /\ EntryIsLast(m)'
      BY DEF WritersInv, WritersKept
    <3>1. m \notin contended /\ LookupIsFresh(m) /\ EntryIsLast(m)
      BY <2>4 DEF LookupWriter, WritersInv
    <3>2. EntryIsLast(m)'
      BY <2>4, <3>1 DEF LookupWriter, EntryIsLast
    <3>3. /\ task[t] = "idle" /\ task'[t] = "writing"
          /\ lookup'[t].node = n /\ lookup'[t].time = now
          /\ lookup'[t].previous = IF n \in DOMAIN writers THEN writers[n] ELSE None
          /\ \A u \in Tasks \ {t} : task'[u] = task[u] /\ lookup'[u] = lookup[u]
      BY <2>0, <2>4 DEF LookupWriter, FuseTypeOK, TasksOK
    <3>4. CASE m = n
      <4>1. \A u \in Tasks : task[u] = "writing" => lookup[u].node # n
        BY <2>4, <3>4 DEF LookupWriter
      <4>2. n \in DOMAIN writers => writers[n].seen <= now
        BY <3>1, <3>4 DEF EntryIsLast
      <4>3. now \in Int
        BY SizesAssumption DEF FuseTypeOK
      <4> QED BY <2>4, <3>2, <3>3, <3>4, <4>1, <4>2, <4>3 DEF LookupWriter, LookupIsFresh
    <3>5. CASE m # n
      BY <2>4, <3>1, <3>2, <3>3, <3>5 DEF LookupWriter, LookupIsFresh
    <3> QED BY <3>4, <3>5
  <2>5. ASSUME NEW t \in Tasks, RememberWriter(t) PROVE WritersInv'
    <3> SUFFICES ASSUME WritersKept, NEW m \in Nodes \ contended'
                 PROVE  LookupIsFresh(m)' /\ EntryIsLast(m)'
      BY DEF WritersInv, WritersKept
    <3> DEFINE n == lookup[t].node
    <3>1. m \notin contended /\ LookupIsFresh(m) /\ EntryIsLast(m)
      BY <2>5 DEF RememberWriter, WritersInv
    <3>2. n \in Nodes /\ ProcessOf[t] \in Processes
      BY <2>5, LookupNumbers DEF RememberWriter
    <3>3. /\ writers'[n] = NextWriter(t, lookup[t])
          /\ DOMAIN writers' = DOMAIN writers \cup {n}
          /\ \A x \in DOMAIN writers \ {n} : writers'[x] = writers[x]
      <4>1. IsFiniteSet(Nodes) /\ Cardinality(Nodes) <= LruFloor
        BY SizesAssumption DEF WritersKept
      <4>2. DOMAIN writers \subseteq Nodes
        BY DEF FuseTypeOK, MapsOK
      <4> DEFINE v == NextWriter(t, lookup[t])
      <4>3. writers' \in LruResults(writers, n, v) /\ n \in Nodes
        BY <2>5, <3>2 DEF RememberWriter
      <4> HIDE DEF n, v
      <4>4. DOMAIN writers' = DOMAIN writers \cup {n}
        BY <4>1, <4>2, <4>3, LruKeeps
      <4>5. writers'[n] = v /\ \A x \in DOMAIN writers' \ {n} : writers'[x] = writers[x]
        BY <4>3, LruShape
      <4> QED BY <4>4, <4>5 DEF v
    <3>4. /\ task[t] = "writing" /\ task'[t] = "idle"
          /\ \A u \in Tasks \ {t} : task'[u] = task[u] /\ lookup'[u] = lookup[u]
          /\ UNCHANGED <<now, contended>>
      BY <2>0, <2>5 DEF RememberWriter, FuseTypeOK, TasksOK
    <3>5. lastWrite' = [lastWrite EXCEPT ![n][ProcessOf[t]] = lookup[t].time]
      BY <2>5 DEF RememberWriter
    <3>6. CASE m = n
      <4>1. EntryIsLast(m)'
        BY <3>1, <3>2, <3>3, <3>4, <3>5, <3>6, NextWriterIsLast
      <4>2. LookupIsFresh(m)'
        BY <3>1, <3>4, <3>6 DEF LookupIsFresh
      <4> QED BY <4>1, <4>2
    <3>7. CASE m # n
      <4>1. lastWrite'[m] = lastWrite[m]
        BY <3>5, <3>7 DEF FuseTypeOK
      <4>2. (m \in DOMAIN writers' <=> m \in DOMAIN writers)
            /\ (m \in DOMAIN writers => writers'[m] = writers[m])
        BY <3>3, <3>7
      <4>3. EntryIsLast(m)'
        BY <3>1, <3>4, <4>1, <4>2 DEF EntryIsLast
      <4>4. LookupIsFresh(m)'
        BY <3>1, <3>4, <4>2 DEF LookupIsFresh
      <4> QED BY <4>3, <4>4
    <3> QED BY <3>6, <3>7
  <2>6. CASE (\E r \in Nodes \cup Background : Submit(r))
             \/ (\E k \in DOMAIN origins : DrainOrigin(k))
    BY <2>6, WritersFrame DEF Submit, DrainOrigin
  <2>7. ASSUME NEW w \in Workers, Worker(w) PROVE WritersInv'
    <3>1. /\ UNCHANGED <<now, writers, lastWrite, contended, lookup>>
          /\ UNCHANGED task \/ Answer(serving[w])
      BY <2>7 DEF Worker, Read, Splice, SelectRequest, ReadReturn, SpliceReturn, TakeFails,
                  Reply, EndUnseen, Record
    <3>2. serving[w] \in Tasks => task[serving[w]] \in {"sent", "waiting"}
      BY DEF FuseTypeOK, TasksOK
    <3>3. \A t \in Tasks : task'[t] = "writing" <=> task[t] = "writing"
      BY <2>0, <3>1, <3>2 DEF Answer
    <3> QED BY <3>1, <3>3, WritersFrame
  <2> QED BY <2>1, <2>2, <2>3, <2>4, <2>5, <2>6, <2>7 DEF FuseNext, Task
<1> QED BY <1>1, <1>2, FuseTypeCorrect, PTL DEF FuseSpec

-----------------------------------------------------------------------------
(* Only a request the request program finds a logical writer for begins to *)
(* be charged to one.                                                      *)
LEMMA JoinIsSelected ==
  ASSUME FuseTypeOK, [FuseNext]_fuseVars, NEW w \in Workers, JoinsWriter(w)
  PROVE  /\ UNCHANGED <<now, writers, lastWrite>>
         /\ serving'[w] \in Nodes
         /\ Joinable(serving'[w])
         /\ active'[w].origin = writers[serving'[w]].task
<1> USE DEF taskVars, workerVars, writerVars
<1>0. /\ DOMAIN active \subseteq Workers
      /\ serving \in [Workers -> Requests \cup {None}]
      /\ w \in DOMAIN active' /\ active'[w].kind = "writeback"
  BY DEF FuseTypeOK, RequestsOK, MapsOK, JoinsWriter
<1>1. ASSUME w \in DOMAIN active, active'[w] = active[w] PROVE FALSE
  BY <1>1 DEF JoinsWriter
<1>2. ASSUME NEW v \in Workers, NEW r \in Requests, SelectRequest(v, r),
             BeginRequest(v, r, TRUE)
      PROVE  v = w /\ active'[w] = Origin(r, TRUE) /\ serving'[w] = r
  BY <1>0, <1>1, <1>2, BeginRequestShape DEF SelectRequest
<1>3. \A r \in Requests : Origin(r, FALSE).kind # "writeback"
  BY DEF Origin
<1>4. ASSUME NEW v \in Workers, NEW b \in BOOLEAN, ReadReturn(v, b) PROVE FALSE
  <2>1. serving[v] \in Requests
    BY <1>0, <1>4 DEF ReadReturn
  <2>2. CASE UNCHANGED active
    BY <1>0, <1>1, <2>2
  <2>3. CASE BeginRequest(v, serving[v], FALSE)
    BY <1>0, <1>1, <1>3, <2>1, <2>3, BeginRequestShape
  <2> QED BY <1>4, <2>2, <2>3 DEF ReadReturn
<1>5. ASSUME NEW v \in Workers, Read(v) \/ Reply(v) PROVE FALSE
  BY <1>0, <1>1, <1>5 DEF Read, BeginFuseRead, Reply, Without
<1>6. ~UNCHANGED active
  BY <1>0, <1>1
<1>7. PICK v \in Workers, r \in Requests : SelectRequest(v, r)
  BY <1>4, <1>5, <1>6
  DEF FuseNext, Task, Worker, Tick, Ask, WaitAnswer, LookupWriter, RememberWriter, Submit,
      Splice, SpliceReturn, TakeFails, EndUnseen, Record, DrainOrigin, fuseVars
<1>8. BeginRequest(v, r, TRUE)
  BY <1>6, <1>7 DEF SelectRequest
<1>9. v = w /\ active'[w] = Origin(r, TRUE) /\ serving'[w] = r
  BY <1>2, <1>7, <1>8
<1>10. r \in Nodes /\ Joinable(r) /\ Origin(r, TRUE).origin = writers[r].task
  BY <1>0, <1>9 DEF Origin
<1> QED BY <1>7, <1>9, <1>10 DEF SelectRequest

(* Writeback is never charged by a guess: only to the one process that     *)
(* wrote the node within the window, where no two tasks wrote it at once.  *)
THEOREM NeverGuesses == FuseSpec => WritebackNeverGuessed
<1>1. FuseTypeOK /\ WritersInv /\ [FuseNext]_fuseVars =>
        (WritersKept =>
           \A w \in Workers : JoinsWriter(w) /\ serving'[w] \notin contended =>
             SoleWriter(serving'[w], active'[w].origin))
  <2> SUFFICES ASSUME FuseTypeOK, WritersInv, [FuseNext]_fuseVars, WritersKept,
                      NEW w \in Workers, JoinsWriter(w), serving'[w] \notin contended
               PROVE  SoleWriter(serving'[w], active'[w].origin)
    OBVIOUS
  <2> DEFINE n == serving'[w]
  <2>1. n \in Nodes /\ Joinable(n) /\ active'[w].origin = writers[n].task
    BY JoinIsSelected
  <2>2. EntryIsLast(n)
    BY <2>1 DEF WritersInv
  <2> HIDE DEF n
  <2>3. SoleWriter(n, writers[n].task)
    BY <2>1, <2>2, WriterNumbers DEF SoleWriter, Joinable, EntryIsLast
  <2> QED BY <2>1, <2>3 DEF n
<1> QED BY <1>1, FuseTypeCorrect, WritersInvariant, PTL DEF FuseSpec, WritebackNeverGuessed
=============================================================================
