-------------------------- MODULE JsonlStreamProofs --------------------------
(***************************************************************************)
(* Proofs about the JSONL stream: for any devices, facts, changes of the   *)
(* host and number of samples.                                             *)
(***************************************************************************)
EXTENDS JsonlStream, TLAPS

(* What Append does.                                                       *)
LEMMA Appended ==
    ASSUME NEW S, NEW r \in Seq(S), NEW entry \in S
    PROVE  /\ Append(r, entry) \in Seq(S)
           /\ Len(r) \in Nat /\ Len(Append(r, entry)) = Len(r) + 1
           /\ DOMAIN Append(r, entry) = 1..(Len(r) + 1)
           /\ Append(r, entry)[Len(r) + 1] = entry
           /\ \A i \in 1..Len(r) : Append(r, entry)[i] = r[i]
<1>1. Append(r, entry) \in Seq(S) /\ Len(r) \in Nat /\ Len(Append(r, entry)) = Len(r) + 1
    OBVIOUS
<1>2. DOMAIN Append(r, entry) = 1..(Len(r) + 1) BY <1>1
<1>3. Append(r, entry)[Len(r) + 1] = entry OBVIOUS
<1>4. \A i \in 1..Len(r) : Append(r, entry)[i] = r[i] OBVIOUS
<1> QED BY <1>1, <1>2, <1>3, <1>4

IsStream(s) == \E T : s \in Seq(T)

(* A record that is written is the last one, and the others stay.          *)
LEMMA Written ==
    ASSUME IsStream(written), NEW record, written' = Append(written, record)
    PROVE  /\ IsStream(written')
           /\ Len(written) \in Nat /\ Len(written') = Len(written) + 1
           /\ written'[Len(written) + 1] = record
           /\ \A i \in 1..Len(written) : written'[i] = written[i]
<1>1. PICK T : written \in Seq(T) BY DEF IsStream
<1>2. written \in Seq(T \cup {record}) /\ record \in T \cup {record} BY <1>1
<1>3. /\ written' \in Seq(T \cup {record})
      /\ Len(written) \in Nat /\ Len(written') = Len(written) + 1
      /\ written'[Len(written) + 1] = record
      /\ \A i \in 1..Len(written) : written'[i] = written[i]
    BY <1>2, Appended
<1> QED BY <1>3 DEF IsStream

-----------------------------------------------------------------------------
(* What is collected: each part of the draft is of the host as it is,      *)
(* unless that has changed since the collection began.                     *)
DraftInv ==
    /\ at = "volumes" => changed \/ draft = [Empty EXCEPT !.mounts = host.mounts]
    /\ at = "devices" => changed \/ draft = [Empty EXCEPT !.mounts = host.mounts,
                                                          !.volumes = host.arrays]
    /\ at = "topology" => changed \/ draft = [Empty EXCEPT !.mounts = host.mounts,
                                                           !.volumes = host.arrays,
                                                           !.devices = DeviceFacts(host, names)]
    /\ at = "inventory" => changed \/ draft = InventoryOf(host)
    /\ at \in {"sleep", "sample"} => changed \/ inventory = InventoryOf(host)

(* The names of the last counters are those the inventory was collected    *)
(* for, when a sample refers to it.                                        *)
NamesInv ==
    /\ draft \in [mounts : {draft.mounts}, volumes : {draft.volumes}, devices : {draft.devices},
                  topology : {draft.topology}, collectors : {draft.collectors}]
    /\ ticks \subseteq names
    /\ at \in {"topology", "inventory"} => names \subseteq DOMAIN draft.devices
    /\ revision > 0 => known \subseteq DOMAIN inventory.devices
    /\ at \in {"sleep", "sample"} => names = known
    /\ elapsed \in Nat /\ (at = "sample" => elapsed < Refresh)

(* The records: they are numbered, and the last inventory is the current.  *)
RecordsInv ==
    /\ IsStream(written) /\ sequence = Len(written) /\ revision \in Nat
    /\ at \in {"sleep", "sample"} => revision > 0
    /\ revision = 0 => written = <<>>
    /\ revision > 0 => \E k \in 1..Len(written) :
          /\ InForce(k, Len(written)) /\ written[k].revision = revision
          /\ written[k].inventory = inventory

(* The draft is put together as the inventory of the host.                 *)
LEMMA DraftStep ==
    ASSUME NamesInv, DraftInv, RecordsInv, [Next]_vars
    PROVE  DraftInv' /\ NamesInv'
<1>1. CASE Change
    <2>1. changed' /\ UNCHANGED <<at, names, ticks, draft, known, inventory, revision, elapsed>>
        BY <1>1 DEF Change, collector, stream
    <2> QED BY <2>1 DEF DraftInv, NamesInv
<1>2. CASE Tick
    <2>1. /\ UNCHANGED <<host, at, names, ticks, probes, draft, known, inventory, revision, changed>>
          /\ at # "sample" /\ elapsed' \in {elapsed, elapsed + 1}
        BY <1>2 DEF Tick, collector, stream
    <2> QED BY <2>1 DEF DraftInv, NamesInv, InventoryOf, Statuses
<1>3. CASE CollectFilesystems
    BY <1>3 DEF CollectFilesystems, DraftInv, NamesInv, Empty, collector
<1>4. CASE CollectVolumes
    BY <1>4 DEF CollectVolumes, DraftInv, NamesInv, Empty, collector
<1>5. CASE CollectDevices
    <2>1. names \subseteq DOMAIN DeviceFacts(host, names) BY DEF DeviceFacts
    <2> QED BY <1>5, <2>1 DEF CollectDevices, DraftInv, NamesInv, Empty, collector
<1>6. CASE CollectTopology
    BY <1>6 DEF CollectTopology, DraftInv, NamesInv, Empty, InventoryOf, Statuses, collector
<1>7. CASE WriteFails
    BY <1>7 DEF WriteFails, DraftInv, NamesInv, collector, stream
<1>8. CASE WriteInventory
    BY <1>8, StreamAssumption DEF WriteInventory, Write, DraftInv, NamesInv, RecordsInv, InventoryOf, Statuses, collector
<1>9. CASE KeepInventory
    <2>1. /\ at = "inventory" /\ at' = "sample" /\ draft = inventory /\ revision # 0
          /\ UNCHANGED <<host, names, ticks, probes, draft, inventory, revision, changed>>
          /\ known' = names /\ elapsed' = 0
        BY <1>9 DEF KeepInventory, IsRevised, collector
    <2>2. DraftInv'
        BY <2>1 DEF DraftInv, InventoryOf, Statuses
    <2>3. NamesInv'
        BY <2>1, StreamAssumption DEF NamesInv
    <2> QED BY <2>2, <2>3
<1>10. CASE Sample
    <2>1. /\ at = "sleep" /\ names = known /\ ticks' \subseteq names'
          /\ UNCHANGED <<host, draft, known, inventory, revision, elapsed>>
          /\ ~changed' => ~changed /\ probes' = probes
        BY <1>10 DEF Sample, NamesInv, stream
    <2>2. CASE RefreshDue(names')
        <3>1. at' = "filesystems" BY <1>10, <2>2 DEF Sample
        <3> QED BY <2>1, <3>1 DEF DraftInv, NamesInv
    <2>3. CASE ~RefreshDue(names')
        <3>1. at' = "sample" BY <1>10, <2>3 DEF Sample
        <3>2. names' = known BY <2>3 DEF RefreshDue
        <3>3. elapsed < Refresh BY <2>3, StreamAssumption DEF RefreshDue, NamesInv
        <3>4. DraftInv'
            BY <2>1, <3>1, <3>2 DEF DraftInv, InventoryOf, Statuses
        <3>5. NamesInv'
            BY <2>1, <3>1, <3>2, <3>3 DEF NamesInv
        <3> QED BY <3>4, <3>5
    <2> QED BY <2>2, <2>3
<1>11. CASE WriteSample
    BY <1>11 DEF WriteSample, Write, DraftInv, NamesInv, InventoryOf, Statuses, collector
<1>12. CASE UNCHANGED vars
    BY <1>12 DEF vars, collector, stream, DraftInv, NamesInv, InventoryOf, Statuses
<1> QED BY <1>1, <1>2, <1>3, <1>4, <1>5, <1>6, <1>7, <1>8, <1>9, <1>10, <1>11, <1>12 DEF Next

-----------------------------------------------------------------------------
(* The last inventory is in force until the next one: what was in force    *)
(* stays, and a sample that follows has the inventory of the one before.   *)
LEMMA ForceKept ==
    ASSUME IsStream(written), NEW record, written' = Append(written, record),
           NEW n, n = Len(written), NEW m, m = n + 1
    PROVE  /\ \A i \in 1..n, k \in 1..n : InForce(k, i)' <=> InForce(k, i)
           /\ record.type = "inventory" => InForce(m, m)'
           /\ record.type = "sample" => \A k \in 1..n : InForce(k, m)' <=> InForce(k, n)
<1>1. /\ n \in Nat /\ Len(written') = m /\ written'[m] = record
      /\ \A i \in 1..n : written'[i] = written[i]
    BY Written
<1>2. /\ \A k \in 1..n : k \in Inventories' <=> k \in Inventories
      /\ m \in Inventories' <=> record.type = "inventory"
    BY <1>1 DEF Inventories
<1>3. \A i, k \in 1..n : \A j \in (k + 1)..i : written'[j] = written[j]
    BY <1>1
<1>4. \A i \in 1..n, k \in 1..n : InForce(k, i)' <=> InForce(k, i)
    BY <1>1, <1>2, <1>3 DEF InForce
<1>5. record.type = "inventory" => InForce(m, m)'
    <2>1. (m + 1)..m = {} BY <1>1
    <2> QED BY <1>1, <1>2, <2>1 DEF InForce
<1>6. ASSUME record.type = "sample", NEW k \in 1..n
      PROVE  InForce(k, m)' <=> InForce(k, n)
    <2>1. k + 1 \in Nat /\ (k + 1)..m = ((k + 1)..n) \cup {m}
        BY <1>1
    <2>2. \A j \in (k + 1)..n : written'[j] = written[j]
        BY <1>1
    <2>3. k <= m /\ k <= n BY <1>1
    <2>4. (\A j \in (k + 1)..m : written'[j].type = "sample")
          <=> (\A j \in (k + 1)..n : written[j].type = "sample")
        BY <1>1, <1>6, <2>1, <2>2
    <2> QED BY <1>2, <1>6, <2>3, <2>4 DEF InForce
<1> QED BY <1>4, <1>5, <1>6

(* There is one inventory in force.                                        *)
LEMMA OneInForce ==
    ASSUME Len(written) \in Nat, NEW i \in 1..Len(written), NEW k, NEW l, InForce(k, i), InForce(l, i)
    PROVE  k = l
<1>1. k \in 1..Len(written) /\ l \in 1..Len(written)
      /\ written[k].type = "inventory" /\ written[l].type = "inventory"
      /\ k <= i /\ l <= i
    BY DEF InForce, Inventories
<1>2. ASSUME k < l PROVE FALSE
    <2>1. l \in (k + 1)..i BY <1>1, <1>2
    <2> QED BY <1>1, <2>1 DEF InForce
<1>3. ASSUME l < k PROVE FALSE
    <2>1. k \in (l + 1)..i BY <1>1, <1>3
    <2> QED BY <1>1, <2>1 DEF InForce
<1> QED BY <1>1, <1>2, <1>3

-----------------------------------------------------------------------------
(* A record of either kind goes on with the sequence and the revisions, and*)
(* a sample is described and recent: the three properties hold for the new *)
(* record, which is the last, and so for all.                              *)
StreamInv == RecordsInv /\ StreamIsReadable /\ SamplesAreDescribed /\ OutdatedIsRecent

(* Writing an inventory.                                                   *)
LEMMA InventoryStep ==
    ASSUME StreamInv, NamesInv, WriteInventory
    PROVE  StreamInv'
<1> DEFINE record == InventoryRecord(revision + 1, draft)
<1>1. /\ written' = Append(written, record) /\ sequence' = sequence + 1
      /\ revision' = revision + 1 /\ inventory' = draft /\ IsRevised
      /\ IsStream(written) /\ sequence = Len(written) /\ revision \in Nat
    BY DEF WriteInventory, Write, StreamInv, RecordsInv
<1>2. /\ record.type = "inventory" /\ record.sequence = sequence
      /\ record.revision = revision + 1 /\ record.inventory = draft
    BY DEF InventoryRecord
<1> HIDE DEF record
<1>3. PICK n : n = Len(written) OBVIOUS
<1>4. PICK m : m = n + 1 OBVIOUS
<1>5. /\ n \in Nat /\ Len(written') = m /\ written'[m] = record /\ IsStream(written')
      /\ \A i \in 1..n : written'[i] = written[i]
    BY <1>1, <1>3, <1>4, Written
<1>6. /\ \A i \in 1..n, k \in 1..n : InForce(k, i)' <=> InForce(k, i)
      /\ InForce(m, m)'
    BY <1>1, <1>2, <1>3, <1>4, ForceKept
<1>7. /\ 1..Len(written') = 1..n \cup {m} /\ m \in 1..m
      /\ \A i \in 1..n : 1..i \subseteq 1..n
    BY <1>4, <1>5
<1>8. \A k \in 1..Len(written') : k \in Inventories' <=> k = m \/ k \in Inventories
    BY <1>2, <1>3, <1>4, <1>5, <1>7 DEF Inventories
<1>9. RecordsInv'
    <2>1. InForce(m, Len(written))' /\ written'[m].revision = revision'
          /\ written'[m].inventory = inventory' /\ m \in 1..Len(written')
        BY <1>1, <1>2, <1>5, <1>6, <1>7
    <2>2. revision' > 0 /\ revision' \in Nat /\ sequence' = Len(written')
        BY <1>1, <1>3, <1>4, <1>5
    <2> QED BY <1>5, <2>1, <2>2 DEF RecordsInv
<1>10. \A i \in 1..Len(written') :
         /\ written'[i].sequence = i - 1
         /\ \E k \in 1..i : InForce(k, i)' /\ written'[k].revision = written'[i].revision
    <2> SUFFICES ASSUME NEW i \in 1..Len(written')
                 PROVE  /\ written'[i].sequence = i - 1
                        /\ \E k \in 1..i : InForce(k, i)' /\ written'[k].revision = written'[i].revision
        OBVIOUS
    <2>1. CASE i = m
        BY <1>1, <1>2, <1>3, <1>4, <1>5, <1>6, <1>7, <2>1
    <2>2. CASE i \in 1..n
        <3>1. /\ written[i].sequence = i - 1
              /\ \E k \in 1..i : InForce(k, i) /\ written[k].revision = written[i].revision
            BY <1>3, <2>2 DEF StreamInv, StreamIsReadable
        <3> QED BY <1>5, <1>6, <1>7, <2>2, <3>1
    <2> QED BY <1>7, <2>1, <2>2
<1>11. \A i, k \in Inventories' : i < k /\ (\A j : j = k - 1 => InForce(i, j)') =>
         /\ written'[k].revision = written'[i].revision + 1
         /\ written'[k].inventory # written'[i].inventory
    <2> SUFFICES ASSUME NEW i \in Inventories', NEW k \in Inventories', i < k,
                        NEW j, j = k - 1, InForce(i, j)'
                 PROVE  /\ written'[k].revision = written'[i].revision + 1
                        /\ written'[k].inventory # written'[i].inventory
        OBVIOUS
    <2>1. i \in 1..Len(written') /\ k \in 1..Len(written')
        BY DEF Inventories
    <2>2. i \in 1..n /\ i \in Inventories /\ j \in 1..n
        BY <1>4, <1>5, <1>7, <1>8, <2>1
    <2>3. InForce(i, j) BY <1>6, <2>2
    <2>4. CASE k = m
        <3>1. j = n BY <1>4, <1>5, <2>4
        <3>2. revision # 0
            <4>1. n > 0 BY <1>5, <2>2
            <4>2. written # <<>> BY <1>1, <1>3, <4>1 DEF IsStream
            <4> QED BY <4>2 DEF StreamInv, RecordsInv
        <3>3. PICK l \in 1..n : /\ InForce(l, n) /\ written[l].revision = revision
                               /\ written[l].inventory = inventory
            BY <1>1, <1>3, <3>2 DEF StreamInv, RecordsInv
        <3>4. i = l BY <1>3, <1>5, <2>2, <2>3, <3>1, <3>3, OneInForce
        <3>5. draft # inventory BY <1>1, <3>2 DEF IsRevised
        <3> QED BY <1>2, <1>5, <2>2, <2>4, <3>3, <3>4, <3>5
    <2>5. CASE k # m
        <3>1. k \in 1..n /\ k \in Inventories BY <1>7, <1>8, <2>1, <2>5
        <3>2. InForce(i, k - 1) BY <2>3
        <3> QED BY <1>5, <2>2, <3>1, <3>2 DEF StreamInv, StreamIsReadable
    <2> QED BY <2>4, <2>5
<1>12. StreamIsReadable'
    BY <1>10, <1>11 DEF StreamIsReadable
<1>13. \A i \in 1..Len(written') : written'[i].type = "sample" => i \in 1..n /\ written[i].type = "sample"
    BY <1>2, <1>5, <1>7
<1>14. SamplesAreDescribed'
    <2> SUFFICES ASSUME NEW i \in 1..n, written[i].type = "sample"
                 PROVE  \E k \in 1..i : /\ InForce(k, i)'
                                        /\ written'[i].devices \subseteq DOMAIN written'[k].inventory.devices
        BY <1>13 DEF SamplesAreDescribed
    <2>1. PICK k \in 1..i : /\ InForce(k, i)
                           /\ written[i].devices \subseteq DOMAIN written[k].inventory.devices
        BY <1>3 DEF StreamInv, SamplesAreDescribed
    <2> QED BY <1>5, <1>6, <1>7, <2>1
<1>15. OutdatedIsRecent'
    BY <1>3, <1>5, <1>13 DEF StreamInv, OutdatedIsRecent
<1> QED BY <1>9, <1>12, <1>14, <1>15 DEF StreamInv

(* Writing a sample.                                                       *)
LEMMA SampleStep ==
    ASSUME StreamInv, NamesInv, DraftInv, WriteSample
    PROVE  StreamInv'
<1> DEFINE record == SampleRecord
<1>1. /\ written' = Append(written, record) /\ sequence' = sequence + 1
      /\ revision' = revision /\ inventory' = inventory /\ at = "sample"
      /\ IsStream(written) /\ sequence = Len(written) /\ revision \in Nat /\ revision > 0
    BY DEF WriteSample, Write, StreamInv, RecordsInv
<1>2. /\ record.type = "sample" /\ record.sequence = sequence
      /\ record.revision = revision /\ record.devices = ticks
      /\ record.outdated = (inventory # InventoryOf(host))
      /\ record.changed = changed /\ record.age = elapsed
    BY DEF SampleRecord
<1> HIDE DEF record
<1>3. PICK n : n = Len(written) OBVIOUS
<1>4. PICK m : m = n + 1 OBVIOUS
<1>5. /\ n \in Nat /\ Len(written') = m /\ written'[m] = record /\ IsStream(written')
      /\ \A i \in 1..n : written'[i] = written[i]
    BY <1>1, <1>3, <1>4, Written
<1>6. /\ \A i \in 1..n, k \in 1..n : InForce(k, i)' <=> InForce(k, i)
      /\ \A k \in 1..n : InForce(k, m)' <=> InForce(k, n)
    BY <1>1, <1>2, <1>3, <1>4, ForceKept
<1>7. /\ 1..Len(written') = 1..n \cup {m} /\ 1..n \subseteq 1..m
      /\ \A i \in 1..n : 1..i \subseteq 1..n
    BY <1>4, <1>5
<1>8. \A k \in Inventories' : k \in Inventories /\ k \in 1..n
    BY <1>2, <1>3, <1>4, <1>5, <1>7 DEF Inventories
<1>9. PICK l \in 1..n : /\ InForce(l, n) /\ written[l].revision = revision
                       /\ written[l].inventory = inventory
    BY <1>1, <1>3 DEF StreamInv, RecordsInv
<1>10. InForce(l, m)' /\ written'[l] = written[l] /\ l \in 1..m
    BY <1>5, <1>6, <1>7, <1>9
<1>11. RecordsInv'
    <2>1. InForce(l, Len(written))' /\ written'[l].revision = revision'
          /\ written'[l].inventory = inventory' /\ l \in 1..Len(written')
        BY <1>1, <1>5, <1>9, <1>10
    <2>2. revision' > 0 /\ revision' \in Nat /\ sequence' = Len(written')
        BY <1>1, <1>3, <1>4, <1>5
    <2> QED BY <1>5, <2>1, <2>2 DEF RecordsInv
<1>12. \A i \in 1..Len(written') :
         /\ written'[i].sequence = i - 1
         /\ \E k \in 1..i : InForce(k, i)' /\ written'[k].revision = written'[i].revision
    <2> SUFFICES ASSUME NEW i \in 1..Len(written')
                 PROVE  /\ written'[i].sequence = i - 1
                        /\ \E k \in 1..i : InForce(k, i)' /\ written'[k].revision = written'[i].revision
        OBVIOUS
    <2>1. CASE i = m
        <3>1. written'[m].sequence = m - 1 BY <1>1, <1>2, <1>3, <1>4, <1>5
        <3>2. written'[l].revision = written'[m].revision
            BY <1>2, <1>5, <1>9, <1>10
        <3> QED BY <1>10, <2>1, <3>1, <3>2
    <2>2. CASE i \in 1..n
        <3>1. /\ written[i].sequence = i - 1
              /\ \E k \in 1..i : InForce(k, i) /\ written[k].revision = written[i].revision
            BY <1>3, <2>2 DEF StreamInv, StreamIsReadable
        <3> QED BY <1>5, <1>6, <1>7, <2>2, <3>1
    <2> QED BY <1>7, <2>1, <2>2
<1>13. \A i, k \in Inventories' : i < k /\ (\A j : j = k - 1 => InForce(i, j)') =>
         /\ written'[k].revision = written'[i].revision + 1
         /\ written'[k].inventory # written'[i].inventory
    <2> SUFFICES ASSUME NEW i \in Inventories', NEW k \in Inventories', i < k,
                        NEW j, j = k - 1, InForce(i, j)'
                 PROVE  /\ written'[k].revision = written'[i].revision + 1
                        /\ written'[k].inventory # written'[i].inventory
        OBVIOUS
    <2>1. /\ i \in Inventories /\ i \in 1..n /\ k \in Inventories /\ k \in 1..n /\ j \in 1..n
        BY <1>5, <1>8
    <2>2. InForce(i, k - 1) BY <1>6, <2>1
    <2> QED BY <1>5, <2>1, <2>2 DEF StreamInv, StreamIsReadable
<1>14. StreamIsReadable'
    BY <1>12, <1>13 DEF StreamIsReadable
<1>15. SamplesAreDescribed'
    <2> SUFFICES ASSUME NEW i \in 1..Len(written'), written'[i].type = "sample"
                 PROVE  \E k \in 1..i : /\ InForce(k, i)'
                                        /\ written'[i].devices \subseteq DOMAIN written'[k].inventory.devices
        BY DEF SamplesAreDescribed
    <2>1. CASE i = m
        <3>1. ticks \subseteq DOMAIN inventory.devices
            BY <1>1 DEF NamesInv
        <3>2. written'[m].devices \subseteq DOMAIN written'[l].inventory.devices
            BY <1>2, <1>5, <1>9, <1>10, <3>1
        <3> QED BY <1>10, <2>1, <3>2
    <2>2. CASE i \in 1..n
        <3>1. written[i].type = "sample" BY <1>5, <2>2
        <3>2. PICK k \in 1..i : /\ InForce(k, i)
                               /\ written[i].devices \subseteq DOMAIN written[k].inventory.devices
            BY <1>3, <2>2, <3>1 DEF StreamInv, SamplesAreDescribed
        <3> QED BY <1>5, <1>6, <1>7, <2>2, <3>2
    <2> QED BY <1>7, <2>1, <2>2
<1>16. OutdatedIsRecent'
    <2> SUFFICES ASSUME NEW i \in 1..Len(written'), written'[i].type = "sample", written'[i].outdated
                 PROVE  written'[i].changed /\ written'[i].age < Refresh
        BY DEF OutdatedIsRecent
    <2>1. CASE i = m
        BY <1>1, <1>2, <1>5, <2>1 DEF DraftInv, NamesInv
    <2>2. CASE i \in 1..n
        BY <1>3, <1>5, <2>2 DEF StreamInv, OutdatedIsRecent
    <2> QED BY <1>7, <2>1, <2>2
<1> QED BY <1>11, <1>14, <1>15, <1>16 DEF StreamInv

(* No other step writes, and a sample is not written before an inventory.  *)
LEMMA OtherStep ==
    ASSUME StreamInv, [Next]_vars, ~WriteInventory, ~WriteSample
    PROVE  StreamInv'
<1>1. UNCHANGED <<written, sequence, revision, inventory>>
    BY DEF Next, Change, Tick, CollectFilesystems, CollectVolumes, CollectDevices,
       CollectTopology, WriteFails, KeepInventory, Sample, vars, stream
<1>2. at' \in {"sleep", "sample"} => revision > 0
    <2>1. at' \in {"sleep", "sample"} => at' = at \/ revision # 0 \/ at = "sleep"
        BY DEF Next, Change, Tick, CollectFilesystems, CollectVolumes, CollectDevices,
           CollectTopology, WriteFails, KeepInventory, IsRevised, Sample, vars
    <2> QED BY <2>1 DEF StreamInv, RecordsInv
<1>3. RecordsInv'
    BY <1>1, <1>2 DEF StreamInv, RecordsInv, InForce, Inventories
<1>4. StreamIsReadable'
    <2>1. StreamIsReadable BY DEF StreamInv
    <2>2. \A i \in 1..Len(written') :
            /\ written'[i].sequence = i - 1
            /\ \E k \in 1..i : InForce(k, i)' /\ written'[k].revision = written'[i].revision
        <3> SUFFICES ASSUME NEW i \in 1..Len(written')
                     PROVE  /\ written'[i].sequence = i - 1
                            /\ \E k \in 1..i : InForce(k, i)' /\ written'[k].revision = written'[i].revision
            OBVIOUS
        <3>1. i \in 1..Len(written) /\ written' = written BY <1>1
        <3>2. PICK k \in 1..i : InForce(k, i) /\ written[k].revision = written[i].revision
            BY <2>1, <3>1 DEF StreamIsReadable
        <3>3. InForce(k, i)' BY <3>1, <3>2 DEF InForce, Inventories
        <3>4. written[i].sequence = i - 1 BY <2>1, <3>1 DEF StreamIsReadable
        <3> QED BY <3>1, <3>2, <3>3, <3>4
    <2>3. ASSUME NEW i \in Inventories', NEW k \in Inventories', i < k, NEW j, j = k - 1, InForce(i, j)'
          PROVE  /\ written'[k].revision = written'[i].revision + 1
                 /\ written'[k].inventory # written'[i].inventory
        <3>1. i \in Inventories /\ k \in Inventories BY <1>1 DEF Inventories
        <3>2. InForce(i, k - 1) BY <1>1, <2>3 DEF InForce, Inventories
        <3>3. /\ written[k].revision = written[i].revision + 1
              /\ written[k].inventory # written[i].inventory
            BY <2>1, <2>3, <3>1, <3>2 DEF StreamIsReadable
        <3> QED BY <1>1, <3>3
    <2> QED BY <2>2, <2>3 DEF StreamIsReadable
<1>5. SamplesAreDescribed'
    <2>1. SamplesAreDescribed BY DEF StreamInv
    <2> QED BY <1>1, <2>1 DEF SamplesAreDescribed, InForce, Inventories
<1>6. OutdatedIsRecent'
    BY <1>1 DEF StreamInv, OutdatedIsRecent
<1> QED BY <1>3, <1>4, <1>5, <1>6 DEF StreamInv

(* Nothing is written before the first inventory is collected.             *)
LEMMA StreamInit == Init => StreamInv /\ NamesInv /\ DraftInv
<1> SUFFICES ASSUME Init PROVE StreamInv /\ NamesInv /\ DraftInv
    OBVIOUS
<1>1. written = <<>> /\ Len(written) = 0 /\ 1..Len(written) = {} /\ IsStream(written)
    <2>1. written = <<>> /\ written \in Seq({}) BY DEF Init
    <2> QED BY <2>1 DEF IsStream
<1>2. RecordsInv BY <1>1 DEF Init, RecordsInv
<1>3. StreamIsReadable /\ SamplesAreDescribed /\ OutdatedIsRecent
    BY <1>1 DEF StreamIsReadable, SamplesAreDescribed, OutdatedIsRecent, Inventories
<1>4. NamesInv BY DEF Init, NamesInv, Empty
<1>5. DraftInv BY DEF Init, DraftInv
<1> QED BY <1>2, <1>3, <1>4, <1>5 DEF StreamInv

(* The records hold together in every behaviour of the stream.             *)
LEMMA StreamHolds == Spec => [](StreamInv /\ NamesInv /\ DraftInv)
<1>1. StreamInv /\ NamesInv /\ DraftInv /\ [Next]_vars => (StreamInv /\ NamesInv /\ DraftInv)'
    BY DraftStep, InventoryStep, SampleStep, OtherStep DEF StreamInv
<1> QED BY <1>1, StreamInit, PTL DEF Spec

(* A reader can join the records of any stream: they are numbered, each    *)
(* sample names the revision of the inventory before it, and a revision is *)
(* one more than, and differs from, the last.                              *)
THEOREM StreamReadable == Spec => []StreamIsReadable
<1>1. StreamInv /\ NamesInv /\ DraftInv => StreamIsReadable
    BY DEF StreamInv
<1> QED BY <1>1, StreamHolds, PTL

(* Whatever devices come and go, each device of a sample is described in   *)
(* the inventory the sample refers to.                                     *)
THEOREM SamplesDescribed == Spec => []SamplesAreDescribed
<1>1. StreamInv /\ NamesInv /\ DraftInv => SamplesAreDescribed
    BY DEF StreamInv
<1> QED BY <1>1, StreamHolds, PTL

(* A sample is out of date only by what changed since the collection of    *)
(* its inventory began, and less than TOPOLOGY_REFRESH after that.         *)
THEOREM OutdatedRecent == Spec => []OutdatedIsRecent
<1>1. StreamInv /\ NamesInv /\ DraftInv => OutdatedIsRecent
    BY DEF StreamInv
<1> QED BY <1>1, StreamHolds, PTL
=============================================================================
