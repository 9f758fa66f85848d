--------------------------- MODULE HostViewsProofs ---------------------------
(***************************************************************************)
(* What holds of the rows that iodyne resolves and of what its first line  *)
(* announces, for every host: any disks, partitions, stacks, arrays, file  *)
(* systems and pools, and any number of changes of them.                   *)
(***************************************************************************)
EXTENDS HostViews, FiniteSetTheorems, SequenceTheorems, WellFoundedInduction, TLAPS

-----------------------------------------------------------------------------
(* The rows that `resolve' gives the application, of any host, any mounts  *)
(* and any volumes, of whatever age.                                       *)

Unassigned(sys, mounts, vols) ==
    PoolRows(sys, mounts, vols) \cup UnlistedPoolRows(mounts, vols)
    \cup BtrfsRows(sys, mounts) \cup OrdinaryRows(sys, mounts, vols)
    \cup SwapRows(sys)

(* A mount of a pool, of a btrfs over several devices or of a block device *)
(* belongs to one domain of free space.                                    *)
HasDomain(sys, m) ==
    m.fs.type = "zfs" \/ SpansDevices(sys, m) \/ IsOrdinary(sys, m)
DomainOf(sys, m) ==
    IF m.fs.type = "zfs" THEN <<"zfs", m.fs.source[1]>>
    ELSE IF SpansDevices(sys, m) THEN <<"btrfs", m.fs.id>>
    ELSE <<"fs", GroupKey(sys, m)>>

(* It is in no row when its group is on a device inside an LVM volume.     *)
GroupSource(sys, mounts, key) ==
    (CHOOSE m \in {n \in {k \in mounts : IsOrdinary(sys, k)} : GroupKey(sys, n) = key} : TRUE).fs.source
LeftAside(sys, mounts, m) ==
    IsOrdinary(sys, m) /\ GroupSource(sys, mounts, GroupKey(sys, m)) \in sys.internal

(* Every row is of one domain.                                             *)
LEMMA RowOfDomain ==
    ASSUME NEW sys, NEW mounts, NEW vols,
           NEW r \in Unassigned(sys, mounts, vols)
    PROVE  /\ \A m \in r.mounts : m \in mounts /\ r.id = DomainOf(sys, m)
           /\ r = [id |-> r.id, mounts |-> r.mounts, disks |-> r.disks,
                   counters |-> r.counters, latency |-> {}]
<1>1. CASE r \in PoolRows(sys, mounts, vols)
    <2>1. PICK pool \in vols.zfs :
            r = Row(<<"zfs", pool.name>>, {m \in mounts : pool \in PoolsOf(m, vols)},
                         MemberDisks(sys, DataLeaves(pool)),
                         CounterSources(sys, DataLeaves(pool)))
        BY <1>1 DEF PoolRows
    <2> QED BY <2>1 DEF Row, PoolsOf, DomainOf
<1>2. CASE r \in UnlistedPoolRows(mounts, vols)
    <2>1. PICK n \in Unlisted(mounts, vols) :
            r = Row(<<"zfs", n.fs.source[1]>>,
                         {m \in Unlisted(mounts, vols) : m.fs.source[1] = n.fs.source[1]}, {}, {})
        BY <1>2 DEF UnlistedPoolRows
    <2> QED BY <2>1 DEF Row, Unlisted, DomainOf
<1>3. CASE r \in BtrfsRows(sys, mounts)
    <2>1. PICK id, disks, counters :
            r = Row(<<"btrfs", id>>,
                         {m \in {n \in mounts : SpansDevices(sys, n)} : m.fs.id = id},
                         disks, counters)
        BY <1>3 DEF BtrfsRows
    <2> QED BY <2>1 DEF Row, SpansDevices, DomainOf
<1>4. CASE r \in OrdinaryRows(sys, mounts, vols)
    <2>1. PICK key, disks, counters :
            r = Row(<<"fs", key>>,
                         {m \in {n \in mounts : IsOrdinary(sys, n)} : GroupKey(sys, m) = key},
                         disks, counters)
        BY <1>4 DEF OrdinaryRows
    <2> QED BY <2>1 DEF Row, IsOrdinary, DomainOf
<1>5. CASE r \in SwapRows(sys)
    <2>1. PICK b : r = Row(<<"swap", b>>, {}, MemberDisks(sys, {b}), {b})
        BY <1>5 DEF SwapRows
    <2> QED BY <2>1 DEF Row
<1> QED BY <1>1, <1>2, <1>3, <1>4, <1>5 DEF Unassigned

(* Every domain has a row, but for those left aside.                       *)
LEMMA DomainHasRow ==
    ASSUME NEW sys, NEW mounts, NEW vols, NEW m \in mounts, HasDomain(sys, m), ~LeftAside(sys, mounts, m)
    PROVE  \E r \in Unassigned(sys, mounts, vols) : m \in r.mounts
<1>1. CASE m.fs.type = "zfs" /\ PoolsOf(m, vols) # {}
    <2>1. PICK pool \in vols.zfs : pool \in PoolsOf(m, vols)
        BY <1>1 DEF PoolsOf
    <2> DEFINE r == Row(<<"zfs", pool.name>>, {n \in mounts : pool \in PoolsOf(n, vols)},
                             MemberDisks(sys, DataLeaves(pool)),
                             CounterSources(sys, DataLeaves(pool)))
    <2>2. r \in PoolRows(sys, mounts, vols) BY DEF PoolRows
    <2>3. m \in r.mounts BY <2>1 DEF Row
    <2> QED BY <2>2, <2>3 DEF Unassigned
<1>2. CASE m.fs.type = "zfs" /\ PoolsOf(m, vols) = {}
    <2>1. m \in Unlisted(mounts, vols) BY <1>2 DEF Unlisted
    <2> DEFINE r == Row(<<"zfs", m.fs.source[1]>>,
                             {n \in Unlisted(mounts, vols) : n.fs.source[1] = m.fs.source[1]}, {}, {})
    <2>2. r \in UnlistedPoolRows(mounts, vols) BY <2>1 DEF UnlistedPoolRows
    <2>3. m \in r.mounts BY <2>1 DEF Row
    <2> QED BY <2>2, <2>3 DEF Unassigned
<1>3. CASE SpansDevices(sys, m)
    <2> DEFINE spanning == {n \in mounts : SpansDevices(sys, n)}
    <2>1. m \in spanning BY <1>3
    <2> DEFINE members == UNION {BtrfsMembers(sys.mounts, n.fs.source) :
                                   n \in {k \in spanning : k.fs.id = m.fs.id}}
    <2> DEFINE r == Row(<<"btrfs", m.fs.id>>, {n \in spanning : n.fs.id = m.fs.id},
                             MemberDisks(sys, members), CounterSources(sys, members))
    <2>2. r \in BtrfsRows(sys, mounts) BY <2>1, Zenon DEF BtrfsRows
    <2>3. m \in r.mounts BY <2>1 DEF Row
    <2> QED BY <2>2, <2>3 DEF Unassigned
<1>4. CASE IsOrdinary(sys, m)
    <2> DEFINE ordinary == {n \in mounts : IsOrdinary(sys, n)}
    <2>1. m \in ordinary BY <1>4
    <2> DEFINE key == GroupKey(sys, m)
               group == {n \in ordinary : GroupKey(sys, n) = key}
               source == (CHOOSE n \in group : TRUE).fs.source
               names == IF ArraysAt(vols, source) = {} THEN {source}
                        ELSE UNION {Devices(array) : array \in ArraysAt(vols, source)}
               r == Row(<<"fs", key>>, group, MemberDisks(sys, names),
                             CounterSources(sys, {source}))
    <2>4. source \notin sys.internal BY <1>4, Zenon DEF LeftAside, GroupSource
    <2>2. r \in OrdinaryRows(sys, mounts, vols) BY <2>1, <2>4, Zenon DEF OrdinaryRows
    <2>3. m \in r.mounts BY <2>1 DEF Row
    <2> QED BY <2>2, <2>3 DEF Unassigned
<1> QED BY <1>1, <1>2, <1>3, <1>4 DEF HasDomain

LEMMA LeftAsideHasNoRow ==
    ASSUME NEW sys, NEW mounts, NEW vols, NEW m \in mounts, LeftAside(sys, mounts, m),
           NEW r \in Unassigned(sys, mounts, vols)
    PROVE  m \notin r.mounts
<1> SUFFICES ASSUME m \in r.mounts PROVE FALSE OBVIOUS
<1> DEFINE key == GroupKey(sys, m)
           ordinary == {n \in mounts : IsOrdinary(sys, n)}
           group(k) == {n \in ordinary : GroupKey(sys, n) = k}
           source(k) == (CHOOSE n \in group(k) : TRUE).fs.source
           names(b) == IF ArraysAt(vols, b) = {} THEN {b}
                       ELSE UNION {Devices(array) : array \in ArraysAt(vols, b)}
           Fs(k) == Row(<<"fs", k>>, group(k), MemberDisks(sys, names(source(k))),
                        CounterSources(sys, {source(k)}))
<1>1. r.id = <<"fs", key>>
    <2>1. r.id = DomainOf(sys, m) BY RowOfDomain
    <2>2. m.fs.type # "zfs" /\ ~SpansDevices(sys, m) BY DEF LeftAside, IsOrdinary
    <2> QED BY <2>1, <2>2 DEF DomainOf
<1>2. source(key) \in sys.internal BY Zenon DEF LeftAside, GroupSource
<1>3. OrdinaryRows(sys, mounts, vols)
        = {Fs(k) : k \in {j \in {GroupKey(sys, n) : n \in ordinary} : source(j) \notin sys.internal}}
    BY Zenon DEF OrdinaryRows
<1>4. \A k : Fs(k).id = <<"fs", k>> BY DEF Row
<1>5. CASE r \in OrdinaryRows(sys, mounts, vols)
    <2> HIDE DEF Fs, source, ordinary
    <2>1. PICK k : r = Fs(k) /\ source(k) \notin sys.internal BY <1>3, <1>5
    <2>2. <<"fs", k>> = <<"fs", key>> BY <2>1, <1>1, <1>4
    <2>3. k = key BY <2>2
    <2> QED BY <2>1, <2>3, <1>2
<1>6. CASE r \in PoolRows(sys, mounts, vols)
    <2>1. \E x : r.id = <<"zfs", x>> BY <1>6 DEF PoolRows, Row
    <2> QED BY <2>1, <1>1
<1>7. CASE r \in UnlistedPoolRows(mounts, vols)
    <2>1. \E x : r.id = <<"zfs", x>> BY <1>7 DEF UnlistedPoolRows, Row
    <2> QED BY <2>1, <1>1
<1>8. CASE r \in BtrfsRows(sys, mounts)
    <2> DEFINE spanning == {n \in mounts : SpansDevices(sys, n)}
               members(id) == UNION {BtrfsMembers(sys.mounts, n.fs.source) :
                                       n \in {k \in spanning : k.fs.id = id}}
               Btrfs(id) == Row(<<"btrfs", id>>, {n \in spanning : n.fs.id = id},
                                MemberDisks(sys, members(id)), CounterSources(sys, members(id)))
    <2>2. BtrfsRows(sys, mounts) = {Btrfs(id) : id \in {n.fs.id : n \in spanning}}
        BY Zenon DEF BtrfsRows
    <2>3. \A id : Btrfs(id).id = <<"btrfs", id>> BY DEF Row
    <2> HIDE DEF Btrfs, spanning
    <2>1. \E x : r.id = <<"btrfs", x>> BY <1>8, <2>2, <2>3
    <2> QED BY <2>1, <1>1
<1>9. CASE r \in SwapRows(sys)
    <2> HIDE DEF key, Fs
    <2>2. PICK b : r = Row(<<"swap", b>>, {}, MemberDisks(sys, {b}), {b}) BY <1>9 DEF SwapRows
    <2>1. r.id = <<"swap", b>> BY <2>2 DEF Row
    <2> QED BY <2>1, <1>1
<1> QED BY <1>5, <1>6, <1>7, <1>8, <1>9 DEF Unassigned

(* No two rows have one id when no two pools have one name.                *)
LEMMA DomainHasOneRow ==
    ASSUME NEW sys, NEW mounts, NEW vols,
           \A p, q \in vols.zfs : p.name = q.name => p = q,
           NEW r \in Unassigned(sys, mounts, vols),
           NEW s \in Unassigned(sys, mounts, vols), r.id = s.id
    PROVE  r = s
<1> DEFINE Pool(p) == Row(<<"zfs", p.name>>, {m \in mounts : p \in PoolsOf(m, vols)},
                               MemberDisks(sys, DataLeaves(p)),
                               CounterSources(sys, DataLeaves(p)))
           Apart(n) == Row(<<"zfs", n>>,
                               {m \in Unlisted(mounts, vols) : m.fs.source[1] = n}, {}, {})
           Swap(b) == Row(<<"swap", b>>, {}, MemberDisks(sys, {b}), {b})
           spanning == {m \in mounts : SpansDevices(sys, m)}
           members(id) == UNION {BtrfsMembers(sys.mounts, n.fs.source) :
                                   n \in {k \in spanning : k.fs.id = id}}
           Btrfs(id) == Row(<<"btrfs", id>>, {n \in spanning : n.fs.id = id},
                             MemberDisks(sys, members(id)), CounterSources(sys, members(id)))
           ordinary == {n \in mounts : IsOrdinary(sys, n)}
           group(key) == {n \in ordinary : GroupKey(sys, n) = key}
           source(key) == (CHOOSE n \in group(key) : TRUE).fs.source
           names(b) == IF ArraysAt(vols, b) = {} THEN {b}
                       ELSE UNION {Devices(array) : array \in ArraysAt(vols, b)}
           Fs(key) == Row(<<"fs", key>>, group(key), MemberDisks(sys, names(source(key))),
                               CounterSources(sys, {source(key)}))
<1>1. PoolRows(sys, mounts, vols) = {Pool(p) : p \in vols.zfs}
    BY Zenon DEF PoolRows
<1>2. UnlistedPoolRows(mounts, vols)
        = {Apart(n) : n \in {m.fs.source[1] : m \in Unlisted(mounts, vols)}}
    BY Zenon DEF UnlistedPoolRows
<1>3. BtrfsRows(sys, mounts) = {Btrfs(id) : id \in {m.fs.id : m \in spanning}}
    BY Zenon DEF BtrfsRows
<1>4. OrdinaryRows(sys, mounts, vols)
        = {Fs(key) : key \in {k \in {GroupKey(sys, m) : m \in ordinary} : source(k) \notin sys.internal}}
    BY Zenon DEF OrdinaryRows
<1>5. SwapRows(sys) = {Swap(b) : b \in sys.swaps \cap sys.blocks}
    BY Zenon DEF SwapRows
<1>6. /\ \A p : Pool(p).id = <<"zfs", p.name>>
      /\ \A n : Apart(n).id = <<"zfs", n>>
      /\ \A id : Btrfs(id).id = <<"btrfs", id>>
      /\ \A key : Fs(key).id = <<"fs", key>>
      /\ \A b : Swap(b).id = <<"swap", b>>
    BY DEF Row
<1>7. \A p \in vols.zfs : \A m \in Unlisted(mounts, vols) : p.name # m.fs.source[1]
    BY DEF Unlisted, PoolsOf
<1> HIDE DEF Pool, Apart, Btrfs, Fs, Swap
<1>8. \/ \E p \in vols.zfs : r = Pool(p)
      \/ \E m \in Unlisted(mounts, vols) : r = Apart(m.fs.source[1])
      \/ \E id : r = Btrfs(id)
      \/ \E key : r = Fs(key)
      \/ \E b : r = Swap(b)
    BY <1>1, <1>2, <1>3, <1>4, <1>5 DEF Unassigned
<1>9. \/ \E p \in vols.zfs : s = Pool(p)
      \/ \E m \in Unlisted(mounts, vols) : s = Apart(m.fs.source[1])
      \/ \E id : s = Btrfs(id)
      \/ \E key : s = Fs(key)
      \/ \E b : s = Swap(b)
    BY <1>1, <1>2, <1>3, <1>4, <1>5 DEF Unassigned
<1>10. CASE \E p \in vols.zfs : r = Pool(p)
    BY <1>10, <1>6, <1>7, <1>9
<1>11. CASE \E m \in Unlisted(mounts, vols) : r = Apart(m.fs.source[1])
    BY <1>11, <1>6, <1>7, <1>9
<1>12. CASE \E id : r = Btrfs(id)
    BY <1>12, <1>6, <1>9
<1>13. CASE \E key : r = Fs(key)
    BY <1>13, <1>6, <1>9
<1>14. CASE \E b : r = Swap(b)
    BY <1>14, <1>6, <1>9
<1> QED BY <1>8, <1>10, <1>11, <1>12, <1>13, <1>14

(* Which row has the latency of a disk changes nothing else of the rows.   *)
Shares(resolved, s) == \E other \in resolved \ {s} : other.disks \cap s.disks # {}
Assigned(resolved, s) == [s EXCEPT !.latency = IF Shares(resolved, s) THEN {} ELSE s.disks]

LEMMA ResolvedRows ==
    ASSUME NEW sys, NEW mounts, NEW vols
    PROVE  /\ Resolve(sys, mounts, vols)
                = {Assigned(Unassigned(sys, mounts, vols), s) : s \in Unassigned(sys, mounts, vols)}
           /\ \A s \in Unassigned(sys, mounts, vols) :
                LET r == Assigned(Unassigned(sys, mounts, vols), s)
                IN  /\ r.id = s.id /\ r.mounts = s.mounts /\ r.disks = s.disks
                    /\ r.latency = IF Shares(Unassigned(sys, mounts, vols), s) THEN {} ELSE s.disks
<1> DEFINE all == Unassigned(sys, mounts, vols)
<1>1. Resolve(sys, mounts, vols) = {Assigned(all, s) : s \in all}
    BY Zenon DEF Resolve, AssignLatencySources, Unassigned, Assigned, Shares
<1>2. ASSUME NEW s \in all
      PROVE  /\ Assigned(all, s).id = s.id /\ Assigned(all, s).mounts = s.mounts
             /\ Assigned(all, s).disks = s.disks
             /\ Assigned(all, s).latency = IF Shares(all, s) THEN {} ELSE s.disks
    <2>1. s = [id |-> s.id, mounts |-> s.mounts, disks |-> s.disks,
               counters |-> s.counters, latency |-> {}]
        BY RowOfDomain
    <2> DEFINE L == IF Shares(all, s) THEN {} ELSE s.disks
    <2>2. Assigned(all, s) = [s EXCEPT !.latency = L] BY DEF Assigned
    <2> HIDE DEF L, all
    <2>3. /\ Assigned(all, s).id = s.id /\ Assigned(all, s).mounts = s.mounts
          /\ Assigned(all, s).disks = s.disks /\ Assigned(all, s).latency = L
        BY <2>1, <2>2
    <2> QED BY <2>3 DEF L
<1> QED BY <1>1, <1>2, Zenon

(* MountedOnce, whatever the host is and however old the mounts and the    *)
(* volumes are, when no two pools have one name: every mount that has a    *)
(* domain is in exactly one row, or in none when its group is on a device  *)
(* inside an LVM volume, and no two rows have one id.                      *)
THEOREM EachMountInOneRow ==
    ASSUME NEW sys, NEW mounts, NEW vols,
           \A p, q \in vols.zfs : p.name = q.name => p = q
    PROVE  LET resolved == Resolve(sys, mounts, vols)
           IN  /\ \A r, q \in resolved : r.id = q.id => r = q
               /\ \A r \in resolved : r.mounts \subseteq mounts
               /\ \A m \in mounts :
                    HasDomain(sys, m) =>
                      Cardinality({r \in resolved : m \in r.mounts}) = IF LeftAside(sys, mounts, m) THEN 0 ELSE 1
<1> DEFINE all == Unassigned(sys, mounts, vols)
           resolved == Resolve(sys, mounts, vols)
<1>1. resolved = {Assigned(all, s) : s \in all} BY ResolvedRows
<1>2. \A s \in all : Assigned(all, s).id = s.id /\ Assigned(all, s).mounts = s.mounts
    BY ResolvedRows
<1>3. \A s, t \in all : s.id = t.id => s = t
    BY DomainHasOneRow, Zenon
<1>4. \A s \in all : \A m \in s.mounts : m \in mounts /\ s.id = DomainOf(sys, m)
    BY RowOfDomain
<1>5. \A m \in mounts : HasDomain(sys, m) /\ ~LeftAside(sys, mounts, m) => \E s \in all : m \in s.mounts
    BY DomainHasRow, Zenon
<1>9. \A m \in mounts : LeftAside(sys, mounts, m) => \A s \in all : m \notin s.mounts
    BY LeftAsideHasNoRow, Zenon
<1> HIDE DEF all, resolved
<1>6. ASSUME NEW r \in resolved, NEW q \in resolved, r.id = q.id
      PROVE  r = q
    <2>1. PICK s \in all : r = Assigned(all, s) BY <1>1
    <2>2. PICK t \in all : q = Assigned(all, t) BY <1>1
    <2> QED BY <2>1, <2>2, <1>2, <1>3, <1>6
<1>7. ASSUME NEW r \in resolved, NEW m \in r.mounts
      PROVE  m \in mounts /\ r.id = DomainOf(sys, m)
    <2>1. PICK s \in all : r = Assigned(all, s) BY <1>1
    <2> QED BY <2>1, <1>2, <1>4
<1>8. ASSUME NEW m \in mounts, HasDomain(sys, m), ~LeftAside(sys, mounts, m)
      PROVE  Cardinality({r \in resolved : m \in r.mounts}) = 1
    <2>1. PICK s \in all : m \in s.mounts BY <1>5, <1>8
    <2>2. Assigned(all, s) \in resolved /\ m \in Assigned(all, s).mounts BY <1>1, <1>2, <2>1
    <2>3. {r \in resolved : m \in r.mounts} = {Assigned(all, s)} BY <2>2, <1>6, <1>7
    <2> QED BY <2>3, FS_Singleton
<1>10. ASSUME NEW m \in mounts, LeftAside(sys, mounts, m)
       PROVE  Cardinality({r \in resolved : m \in r.mounts}) = 0
    <2>1. ASSUME NEW r \in resolved PROVE m \notin r.mounts
        <3>1. PICK s \in all : r = Assigned(all, s) BY <1>1
        <3> QED BY <3>1, <1>2, <1>9, <1>10
    <2>2. {r \in resolved : m \in r.mounts} = {} BY <2>1
    <2> QED BY <2>2, FS_EmptySet
<1> QED BY <1>6, <1>7, <1>8, <1>10 DEF resolved

(* LatencyExclusive, as far as the rows go: a disk whose requests a row    *)
(* claims is a disk of that row and of no other, whatever the ages of what *)
(* the rows were made of.                                                  *)
THEOREM LatencyOfOneRow ==
    ASSUME NEW sys, NEW mounts, NEW vols
    PROVE  LET resolved == Resolve(sys, mounts, vols)
           IN  \A r \in resolved : /\ r.latency \subseteq r.disks
                               /\ \A q \in resolved \ {r} : r.latency \cap q.disks = {}
<1> DEFINE all == Unassigned(sys, mounts, vols)
           resolved == Resolve(sys, mounts, vols)
<1>1. resolved = {Assigned(all, s) : s \in all} BY ResolvedRows
<1>2. \A s \in all : /\ Assigned(all, s).disks = s.disks
                     /\ Assigned(all, s).latency = IF Shares(all, s) THEN {} ELSE s.disks
    BY ResolvedRows
<1> HIDE DEF all, resolved
<1>3. ASSUME NEW r \in resolved, NEW q \in resolved, q # r
      PROVE  r.latency \subseteq r.disks /\ r.latency \cap q.disks = {}
    <2>1. PICK s \in all : r = Assigned(all, s) BY <1>1
    <2>2. PICK t \in all : q = Assigned(all, t) BY <1>1
    <2>3. t # s BY <2>1, <2>2, <1>3
    <2>4. r.disks = s.disks /\ q.disks = t.disks BY <2>1, <2>2, <1>2
    <2>5. r.latency = IF Shares(all, s) THEN {} ELSE s.disks BY <2>1, <1>2
    <2>6. t.disks \cap s.disks # {} => Shares(all, s) BY <2>3 DEF Shares
    <2> QED BY <2>4, <2>5, <2>6
<1>4. ASSUME NEW r \in resolved PROVE r.latency \subseteq r.disks
    <2>1. PICK s \in all : r = Assigned(all, s) BY <1>1
    <2> QED BY <2>1, <1>2
<1> QED BY <1>3, <1>4 DEF resolved

-----------------------------------------------------------------------------
(* A set of naturals has a least element.                                  *)
LEMMA LeastNatural ==
    ASSUME NEW T, T \subseteq Nat, T # {}
    PROVE  \E n \in T : \A m \in T : n <= m
<1> DEFINE R == {ss \in Nat \X Nat : ss[1] < ss[2]}
<1>1. IsWellFoundedOn(R, Nat) BY NatLessThanWellFounded DEF OpToRel
<1>2. \E x \in T : \A y \in T : ~ (<<y, x>> \in R)
    <2> HIDE DEF R
    <2> QED BY <1>1, WFMin
<1>3. \A x, y \in Nat : ~ (<<y, x>> \in R) => x <= y OBVIOUS
<1> HIDE DEF R
<1> QED BY <1>2, <1>3

(* The closures of the block graph, which are taken step by step as often  *)
(* as there are blocks, have all that can be followed and nothing else.    *)
Followed(f, D, b, m) ==
    /\ f[0] = {b}
    /\ \A k \in 1..m : f[k - 1] \subseteq DOMAIN D =>
          f[k] = f[k - 1] \cup UNION {D[c] : c \in f[k - 1]}
ClosedIn(T, D) == \A c \in T : D[c] \subseteq T

(* The steps stay among the blocks, and each is closed or finds another.   *)
LEMMA StepsGrow ==
    ASSUME NEW S, IsFiniteSet(S), NEW D \in [S -> SUBSET S], NEW b \in S,
           NEW m \in Nat, NEW f, Followed(f, D, b, m), NEW k \in 0..m
    PROVE  /\ f[k] \subseteq S /\ b \in f[k]
           /\ ClosedIn(f[k], D) \/ Cardinality(f[k]) >= k + 1
           /\ \A X \in SUBSET S : b \in X /\ ClosedIn(X, D) => f[k] \subseteq X
<1> DEFINE Good(n) == /\ f[n] \subseteq S /\ b \in f[n]
                      /\ ClosedIn(f[n], D) \/ Cardinality(f[n]) >= n + 1
                      /\ \A X \in SUBSET S : b \in X /\ ClosedIn(X, D) => f[n] \subseteq X
           Bad == {n \in 0..m : ~Good(n)}
<1> SUFFICES ASSUME Bad # {} PROVE FALSE
    OBVIOUS
<1>1. PICK n \in Bad : \A l \in Bad : n <= l
    <2>1. Bad \subseteq Nat OBVIOUS
    <2> HIDE DEF Bad
    <2> QED BY <2>1, LeastNatural
<1>2. n \in 0..m /\ ~Good(n) BY <1>1
<1>3. Good(0)
    <2>1. Cardinality({b}) = 1 BY FS_Singleton
    <2>2. f[0] = {b} BY DEF Followed
    <2> QED BY <2>1, <2>2
<1>4. n # 0 BY <1>2, <1>3
<1>5. n - 1 \in 0..m /\ Good(n - 1) BY <1>1, <1>2, <1>4
<1>6. f[n] = f[n - 1] \cup UNION {D[c] : c \in f[n - 1]} BY <1>2, <1>4, <1>5 DEF Followed
<1>7. f[n - 1] \subseteq f[n] /\ f[n] \subseteq S /\ b \in f[n]
    <2>1. UNION {D[c] : c \in f[n - 1]} \subseteq S BY <1>5
    <2> QED BY <1>5, <1>6, <2>1
<1>8. ClosedIn(f[n], D) \/ Cardinality(f[n]) >= n + 1
    <2>1. CASE ClosedIn(f[n - 1], D)
        <3>1. f[n] = f[n - 1] BY <2>1, <1>6 DEF ClosedIn
        <3> QED BY <2>1, <3>1
    <2>2. CASE ~ClosedIn(f[n - 1], D)
        <3>1. PICK c \in f[n - 1] : \E d \in D[c] : d \notin f[n - 1] BY <2>2 DEF ClosedIn
        <3>2. PICK d \in D[c] : d \notin f[n - 1] BY <3>1
        <3>3. d \in f[n] BY <1>6, <3>1
        <3>4. IsFiniteSet(f[n]) BY <1>7, FS_Subset
        <3>5. IsFiniteSet(f[n - 1]) /\ Cardinality(f[n - 1]) \in Nat
            BY <1>7, <3>4, FS_Subset, FS_CardinalityType
        <3>6. Cardinality(f[n]) \in Nat BY <3>4, FS_CardinalityType
        <3>7. Cardinality(f[n - 1] \cup {d}) = Cardinality(f[n - 1]) + 1
            <4>1. ASSUME NEW T, IsFiniteSet(T), d \notin T
                  PROVE  Cardinality(T \cup {d}) = Cardinality(T) + 1
                BY <4>1, FS_AddElement
            <4> QED BY <4>1, <3>2, <3>5
        <3>8. Cardinality(f[n - 1] \cup {d}) <= Cardinality(f[n])
            <4>1. f[n - 1] \cup {d} \subseteq f[n] BY <3>3, <1>7
            <4> QED BY <4>1, <3>4, FS_Subset
        <3>9. Cardinality(f[n - 1]) >= (n - 1) + 1 BY <1>5, <2>2
        <3> QED BY <3>5, <3>6, <3>7, <3>8, <3>9, <1>2
    <2> QED BY <2>1, <2>2
<1>9. ASSUME NEW X \in SUBSET S, b \in X, ClosedIn(X, D) PROVE f[n] \subseteq X
    <2>1. f[n - 1] \subseteq X BY <1>5, <1>9
    <2>2. \A c \in f[n - 1] : D[c] \subseteq X BY <2>1, <1>9 DEF ClosedIn
    <2> QED BY <1>6, <2>1, <2>2
<1> QED BY <1>2, <1>7, <1>8, <1>9

(* The last of as many steps as there are blocks is the least closed set.  *)
LEMMA LastIsLeastClosed ==
    ASSUME NEW S, IsFiniteSet(S), NEW D \in [S -> SUBSET S], NEW b \in S,
           NEW m \in Nat, Cardinality(S) <= m + 1, NEW f, Followed(f, D, b, m)
    PROVE  /\ f[m] \subseteq S /\ b \in f[m] /\ ClosedIn(f[m], D)
           /\ \A X \in SUBSET S : b \in X /\ ClosedIn(X, D) => f[m] \subseteq X
<1>1. m \in 0..m OBVIOUS
<1>2. /\ f[m] \subseteq S /\ b \in f[m]
      /\ ClosedIn(f[m], D) \/ Cardinality(f[m]) >= m + 1
      /\ \A X \in SUBSET S : b \in X /\ ClosedIn(X, D) => f[m] \subseteq X
    BY <1>1, StepsGrow
<1>3. CASE Cardinality(f[m]) >= m + 1
    <2>1. Cardinality(S) \in Nat /\ Cardinality(f[m]) \in Nat /\ Cardinality(f[m]) <= Cardinality(S)
        BY <1>2, FS_Subset, FS_CardinalityType
    <2>2. Cardinality(f[m]) = Cardinality(S) BY <2>1, <1>3
    <2>3. f[m] = S BY <2>2, <1>2, FS_Subset
    <2> QED BY <2>3, <1>2 DEF ClosedIn
<1> QED BY <1>2, <1>3

(* Both closures are such steps, of the devices below a block and of all   *)
(* that it stands on.                                                      *)
StandsOn(sys, c) ==
    Slaves(sys, c) \cup (IF IsPartition(sys, c) THEN {sys.parent[c]} ELSE {})
Further(sys, whole, T) ==
    IF whole THEN T \cup UNION {StandsOn(sys, c) : c \in T}
    ELSE T \cup UNION {Slaves(sys, c) : c \in T}
IsWalk(f, sys, whole, b, m) ==
    f = [n \in 0..m |-> IF n = 0 THEN {b} ELSE Further(sys, whole, f[n - 1])]

(* There is one of any length.                                             *)
LEMMA WalkExists ==
    ASSUME NEW sys, NEW whole, NEW b, NEW m \in Nat
    PROVE  \E f : IsWalk(f, sys, whole, b, m)
<1> DEFINE Bad == {k \in Nat : ~ \E f : IsWalk(f, sys, whole, b, k)}
<1> SUFFICES ASSUME Bad # {} PROVE FALSE
    OBVIOUS
<1>1. PICK k \in Bad : \A l \in Bad : k <= l BY LeastNatural
<1>2. k # 0
    <2> DEFINE none == [n \in 0..0 |-> {b}]
    <2>1. none = [n \in 0..0 |-> IF n = 0 THEN {b} ELSE Further(sys, whole, none[n - 1])] OBVIOUS
    <2>2. IsWalk(none, sys, whole, b, 0) BY <2>1 DEF IsWalk
    <2> QED BY <2>2, <1>1
<1>3. k - 1 \in Nat /\ k - 1 \notin Bad BY <1>1, <1>2
<1>4. PICK f : IsWalk(f, sys, whole, b, k - 1) BY <1>3
<1> DEFINE more == [n \in 0..k |-> IF n = k THEN Further(sys, whole, f[k - 1]) ELSE f[n]]
<1>5. \A n \in 0..k : more[n] = IF n = 0 THEN {b} ELSE Further(sys, whole, more[n - 1])
    <2>1. f = [n \in 0..(k - 1) |-> IF n = 0 THEN {b} ELSE Further(sys, whole, f[n - 1])]
        BY <1>4 DEF IsWalk
    <2>2. \A n \in 0..(k - 1) : f[n] = IF n = 0 THEN {b} ELSE Further(sys, whole, f[n - 1])
        BY <2>1
    <2>3. ASSUME NEW n \in 0..k PROVE more[n] = IF n = 0 THEN {b} ELSE Further(sys, whole, more[n - 1])
        <3>1. CASE n = k
            <4>1. more[n] = Further(sys, whole, f[k - 1]) /\ more[n - 1] = f[n - 1]
                BY <3>1, <1>1, <1>2, <1>3
            <4> QED BY <4>1, <3>1, <1>2
        <3>2. CASE n # k /\ n # 0
            <4>1. n \in 0..(k - 1) /\ n - 1 \in 0..k /\ n - 1 # k BY <3>2, <1>1
            <4>2. more[n] = f[n] /\ more[n - 1] = f[n - 1] BY <4>1, <3>2
            <4> HIDE DEF more
            <4> QED BY <4>1, <4>2, <2>2, <3>2
        <3>3. CASE n # k /\ n = 0
            <4>1. n \in 0..(k - 1) BY <3>3, <1>1
            <4> QED BY <4>1, <2>2, <3>3
        <3> QED BY <3>1, <3>2, <3>3
    <2> QED BY <2>3
<1>6. IsWalk(more, sys, whole, b, k) BY <1>5 DEF IsWalk
<1> QED BY <1>1, <1>6

(* What block_leaves returns are the ends of the last of them.             *)
LEMMA LeavesAreEnds ==
    ASSUME NEW sys, NEW b, NEW m \in Nat, m = Cardinality(sys.blocks)
    PROVE  \E f : /\ IsWalk(f, sys, FALSE, b, m)
                  /\ BlockLeaves(sys, b) = {leaf \in f[m] : Slaves(sys, leaf) = {}}
<1> DEFINE f == CHOOSE g : g = [n \in 0..Cardinality(sys.blocks) |-> IF n = 0 THEN {b}
                    ELSE g[n - 1] \cup UNION {Slaves(sys, c) : c \in g[n - 1]}]
<1>1. BlockLeaves(sys, b) = {leaf \in f[Cardinality(sys.blocks)] : Slaves(sys, leaf) = {}}
    BY Zenon DEF BlockLeaves
<1>2. \A T : Further(sys, FALSE, T) = T \cup UNION {Slaves(sys, c) : c \in T}
    BY DEF Further
<1>3. PICK g : IsWalk(g, sys, FALSE, b, m) BY WalkExists
<1>4. g = [n \in 0..Cardinality(sys.blocks) |-> IF n = 0 THEN {b}
          ELSE g[n - 1] \cup UNION {Slaves(sys, c) : c \in g[n - 1]}]
    BY <1>2, <1>3 DEF IsWalk
<1>5. f = [n \in 0..Cardinality(sys.blocks) |-> IF n = 0 THEN {b}
          ELSE f[n - 1] \cup UNION {Slaves(sys, c) : c \in f[n - 1]}]
    BY <1>4
<1> HIDE DEF f
<1>6. IsWalk(f, sys, FALSE, b, m)
    BY <1>2, <1>5 DEF IsWalk
<1> QED BY <1>6, <1>1

LEMMA PhysicalAreEnds ==
    ASSUME NEW sys, NEW b, NEW m \in Nat, m = 2 * Cardinality(sys.blocks)
    PROVE  \E f : /\ IsWalk(f, sys, TRUE, b, m)
                  /\ Physical(sys, b) = {c \in f[m] : StandsOn(sys, c) = {}} \ sys.loops
<1> DEFINE f == CHOOSE g : g = [n \in 0..(2 * Cardinality(sys.blocks)) |-> IF n = 0 THEN {b}
                    ELSE g[n - 1] \cup UNION {StandsOn(sys, c) : c \in g[n - 1]}]
<1>1. Physical(sys, b) = {c \in f[2 * Cardinality(sys.blocks)] : StandsOn(sys, c) = {}} \ sys.loops
    BY Zenon DEF Physical, StandsOn
<1>2. \A T : Further(sys, TRUE, T) = T \cup UNION {StandsOn(sys, c) : c \in T}
    BY DEF Further
<1>3. PICK g : IsWalk(g, sys, TRUE, b, m) BY WalkExists
<1>4. g = [n \in 0..(2 * Cardinality(sys.blocks)) |-> IF n = 0 THEN {b}
          ELSE g[n - 1] \cup UNION {StandsOn(sys, c) : c \in g[n - 1]}]
    BY <1>2, <1>3 DEF IsWalk
<1>5. f = [n \in 0..(2 * Cardinality(sys.blocks)) |-> IF n = 0 THEN {b}
          ELSE f[n - 1] \cup UNION {StandsOn(sys, c) : c \in f[n - 1]}]
    BY <1>4
<1> HIDE DEF f
<1>6. IsWalk(f, sys, TRUE, b, m)
    BY <1>2, <1>5 DEF IsWalk
<1> QED BY <1>6, <1>1

(* A host whose arrays are not partitioned, and whose disks neither stand  *)
(* on anything nor are parts of anything.                                  *)
Stacked(sys) ==
    /\ IsFiniteSet(sys.blocks)
    /\ \A b \in DOMAIN sys.slaves : b \in sys.blocks /\ sys.slaves[b] \subseteq sys.blocks
    /\ \A p \in DOMAIN sys.parent :
          /\ p \notin DOMAIN sys.slaves
          /\ sys.parent[p] \in sys.blocks
          /\ sys.parent[p] \notin DOMAIN sys.slaves /\ sys.parent[p] \notin DOMAIN sys.parent

LEMMA OneMoreBlock ==
    ASSUME NEW sys, Stacked(sys), NEW b
    PROVE  /\ IsFiniteSet(sys.blocks \cup {b}) /\ Cardinality(sys.blocks) \in Nat
           /\ Cardinality(sys.blocks \cup {b}) <= Cardinality(sys.blocks) + 1
           /\ Cardinality(sys.blocks \cup {b}) <= 2 * Cardinality(sys.blocks) + 1
<1>1. IsFiniteSet(sys.blocks) BY DEF Stacked
<1>2. Cardinality(sys.blocks) \in Nat BY <1>1, FS_CardinalityType
<1>3. ASSUME NEW T, IsFiniteSet(T)
      PROVE  /\ IsFiniteSet(T \cup {b})
             /\ Cardinality(T \cup {b}) = Cardinality(T) \/ Cardinality(T \cup {b}) = Cardinality(T) + 1
    BY <1>3, FS_AddElement
<1>4. Cardinality(sys.blocks \cup {b}) = Cardinality(sys.blocks)
      \/ Cardinality(sys.blocks \cup {b}) = Cardinality(sys.blocks) + 1
    BY <1>1, <1>3
<1> QED BY <1>1, <1>2, <1>3, <1>4

(* The devices that block_leaves has reached are closed under slaves, and  *)
(* are all that slaves lead to.                                            *)
LEMMA LeavesReached ==
    ASSUME NEW sys, Stacked(sys), NEW b
    PROVE  \E L \in SUBSET (sys.blocks \cup {b}) :
             /\ BlockLeaves(sys, b) = {leaf \in L : Slaves(sys, leaf) = {}}
             /\ b \in L /\ \A c \in L : Slaves(sys, c) \subseteq L
             /\ \A X \in SUBSET (sys.blocks \cup {b}) :
                   b \in X /\ (\A c \in X : Slaves(sys, c) \subseteq X) => L \subseteq X
<1> DEFINE S == sys.blocks \cup {b}
           D == [c \in S |-> Slaves(sys, c)]
           m == Cardinality(sys.blocks)
<1>1. IsFiniteSet(S) /\ m \in Nat /\ Cardinality(S) <= m + 1 BY OneMoreBlock
<1>2. D \in [S -> SUBSET S] BY DEF Stacked, Slaves
<1>3. PICK f : /\ IsWalk(f, sys, FALSE, b, m)
               /\ BlockLeaves(sys, b) = {leaf \in f[m] : Slaves(sys, leaf) = {}}
    BY <1>1, LeavesAreEnds
<1>4. /\ f[0] = {b}
      /\ \A k \in 1..m : f[k] = f[k - 1] \cup UNION {Slaves(sys, c) : c \in f[k - 1]}
    BY <1>1, <1>3 DEF IsWalk, Further
<1>5. Followed(f, D, b, m)
    <2>1. ASSUME NEW T \in SUBSET S
          PROVE  UNION {D[c] : c \in T} = UNION {Slaves(sys, c) : c \in T}
        BY <2>1
    <2> HIDE DEF D, m
    <2>2. DOMAIN D = S BY <1>2
    <2> HIDE DEF S
    <2> QED BY <1>4, <2>1, <2>2 DEF Followed
<1> HIDE DEF m
<1>6. /\ f[m] \subseteq S /\ b \in f[m] /\ ClosedIn(f[m], D)
      /\ \A X \in SUBSET S : b \in X /\ ClosedIn(X, D) => f[m] \subseteq X
    <2>1. b \in S OBVIOUS
    <2> HIDE DEF S, D
    <2> QED BY <1>1, <1>2, <1>5, <2>1, LastIsLeastClosed
<1>7. \A X \in SUBSET S : ClosedIn(X, D) <=> \A c \in X : Slaves(sys, c) \subseteq X
    BY DEF ClosedIn
<1> HIDE DEF D, S
<1>8. f[m] \in SUBSET S /\ \A c \in f[m] : Slaves(sys, c) \subseteq f[m] BY <1>6, <1>7
<1>9. \A X \in SUBSET S : b \in X /\ (\A c \in X : Slaves(sys, c) \subseteq X) => f[m] \subseteq X
    BY <1>6, <1>7
<1> QED BY <1>3, <1>6, <1>8, <1>9 DEF S

(* So are the devices that Physical has reached under all a block stands   *)
(* on.                                                                     *)
LEMMA PhysicalReached ==
    ASSUME NEW sys, Stacked(sys), NEW b
    PROVE  \E P \in SUBSET (sys.blocks \cup {b}) :
             /\ Physical(sys, b) = {c \in P : StandsOn(sys, c) = {}} \ sys.loops
             /\ b \in P /\ \A c \in P : StandsOn(sys, c) \subseteq P
             /\ \A X \in SUBSET (sys.blocks \cup {b}) :
                   b \in X /\ (\A c \in X : StandsOn(sys, c) \subseteq X) => P \subseteq X
<1> DEFINE S == sys.blocks \cup {b}
           D == [c \in S |-> StandsOn(sys, c)]
           m == 2 * Cardinality(sys.blocks)
<1>1. IsFiniteSet(S) /\ m \in Nat /\ Cardinality(S) <= m + 1
    <2>1. Cardinality(sys.blocks) \in Nat /\ IsFiniteSet(S)
          /\ Cardinality(S) <= 2 * Cardinality(sys.blocks) + 1
        BY OneMoreBlock
    <2> QED BY <2>1
<1>2. D \in [S -> SUBSET S] BY DEF Stacked, StandsOn, Slaves, IsPartition
<1>3. PICK f : /\ IsWalk(f, sys, TRUE, b, m)
               /\ Physical(sys, b) = {c \in f[m] : StandsOn(sys, c) = {}} \ sys.loops
    BY <1>1, PhysicalAreEnds
<1>4. /\ f[0] = {b}
      /\ \A k \in 1..m : f[k] = f[k - 1] \cup UNION {StandsOn(sys, c) : c \in f[k - 1]}
    BY <1>1, <1>3 DEF IsWalk, Further
<1>5. Followed(f, D, b, m)
    <2>1. ASSUME NEW T \in SUBSET S
          PROVE  UNION {D[c] : c \in T} = UNION {StandsOn(sys, c) : c \in T}
        BY <2>1
    <2> HIDE DEF D, m
    <2>2. DOMAIN D = S BY <1>2
    <2> HIDE DEF S
    <2> QED BY <1>4, <2>1, <2>2 DEF Followed
<1> HIDE DEF m
<1>6. /\ f[m] \subseteq S /\ b \in f[m] /\ ClosedIn(f[m], D)
      /\ \A X \in SUBSET S : b \in X /\ ClosedIn(X, D) => f[m] \subseteq X
    <2>1. b \in S OBVIOUS
    <2> HIDE DEF S, D
    <2> QED BY <1>1, <1>2, <1>5, <2>1, LastIsLeastClosed
<1>7. \A X \in SUBSET S : ClosedIn(X, D) <=> \A c \in X : StandsOn(sys, c) \subseteq X
    BY DEF ClosedIn
<1> HIDE DEF D, S
<1>8. f[m] \in SUBSET S /\ \A c \in f[m] : StandsOn(sys, c) \subseteq f[m] BY <1>6, <1>7
<1>9. \A X \in SUBSET S : b \in X /\ (\A c \in X : StandsOn(sys, c) \subseteq X) => f[m] \subseteq X
    BY <1>6, <1>7
<1> QED BY <1>3, <1>6, <1>8, <1>9 DEF S

(* The whole disks of its leaves are the disks a block stands on.          *)
LEMMA LeavesArePhysical ==
    ASSUME NEW sys, Stacked(sys), NEW b
    PROVE  {Whole(sys, leaf) : leaf \in BlockLeaves(sys, b)} \ sys.loops = Physical(sys, b)
<1> DEFINE S == sys.blocks \cup {b}
<1>1. PICK L \in SUBSET S :
         /\ BlockLeaves(sys, b) = {leaf \in L : Slaves(sys, leaf) = {}}
         /\ b \in L /\ \A c \in L : Slaves(sys, c) \subseteq L
         /\ \A X \in SUBSET S : b \in X /\ (\A c \in X : Slaves(sys, c) \subseteq X) => L \subseteq X
    BY LeavesReached
<1>2. PICK P \in SUBSET S :
         /\ Physical(sys, b) = {c \in P : StandsOn(sys, c) = {}} \ sys.loops
         /\ b \in P /\ \A c \in P : StandsOn(sys, c) \subseteq P
         /\ \A X \in SUBSET S : b \in X /\ (\A c \in X : StandsOn(sys, c) \subseteq X) => P \subseteq X
    BY PhysicalReached
<1>3. \A c : IsPartition(sys, c) =>
         /\ Slaves(sys, c) = {} /\ Whole(sys, c) \in S /\ StandsOn(sys, c) = {Whole(sys, c)}
         /\ StandsOn(sys, Whole(sys, c)) = {} /\ ~IsPartition(sys, Whole(sys, c))
    BY DEF Stacked, Slaves, Whole, StandsOn, IsPartition
<1>4. \A c : ~IsPartition(sys, c) => Whole(sys, c) = c /\ StandsOn(sys, c) = Slaves(sys, c)
    BY DEF Whole, StandsOn
<1> DEFINE X == L \cup {c \in S : \E d \in L : IsPartition(sys, d) /\ c = Whole(sys, d)}
<1>5. P \subseteq X
    <2>1. ASSUME NEW c \in X PROVE StandsOn(sys, c) \subseteq X
        <3>1. CASE c \in L /\ ~IsPartition(sys, c) BY <3>1, <1>1, <1>4
        <3>2. CASE c \in L /\ IsPartition(sys, c) BY <3>2, <1>3
        <3>3. CASE c \notin L BY <3>3, <1>3
        <3> QED BY <3>1, <3>2, <3>3
    <2>2. X \in SUBSET S /\ b \in X BY <1>1
    <2> HIDE DEF X
    <2> QED BY <2>1, <2>2, <1>2
<1>6. L \subseteq P
    <2>1. ASSUME NEW c \in P PROVE Slaves(sys, c) \subseteq P
        BY <1>2 DEF StandsOn
    <2> QED BY <2>1, <1>1, <1>2
<1>7. ASSUME NEW leaf \in BlockLeaves(sys, b)
      PROVE  Whole(sys, leaf) \in P /\ StandsOn(sys, Whole(sys, leaf)) = {}
    <2>1. leaf \in L /\ leaf \in P /\ Slaves(sys, leaf) = {} BY <1>1, <1>6, <1>7
    <2>2. CASE IsPartition(sys, leaf) BY <2>1, <2>2, <1>2, <1>3
    <2>3. CASE ~IsPartition(sys, leaf) BY <2>1, <2>3, <1>4
    <2> QED BY <2>2, <2>3
<1>8. ASSUME NEW c \in P, StandsOn(sys, c) = {}
      PROVE  \E leaf \in BlockLeaves(sys, b) : c = Whole(sys, leaf)
    <2>1. CASE c \in L
        <3>1. ~IsPartition(sys, c) BY <1>3, <1>8
        <3> QED BY <2>1, <3>1, <1>1, <1>4, <1>8
    <2>2. CASE c \notin L
        <3>1. PICK d \in L : IsPartition(sys, d) /\ c = Whole(sys, d) BY <2>2, <1>5
        <3> QED BY <3>1, <1>1, <1>3
    <2> QED BY <2>1, <2>2
<1> HIDE DEF X, S
<1> QED BY <1>2, <1>7, <1>8

(* The disks that a row is given for the names of its members are those    *)
(* that are physically under them, through any stack of mapper devices,    *)
(* arrays and partitions: the closures stop no sooner.                     *)
THEOREM MembersArePhysical ==
    ASSUME NEW sys, Stacked(sys), NEW names
    PROVE  MemberDisks(sys, names) = UNION {Physical(sys, b) : b \in names}
<1>1. \A b : {Whole(sys, leaf) : leaf \in BlockLeaves(sys, b)} \ sys.loops = Physical(sys, b)
    BY LeavesArePhysical
<1>2. \A d : d \in MemberDisks(sys, names)
        <=> d \notin sys.loops /\ \E b \in names : \E leaf \in BlockLeaves(sys, b) : d = Whole(sys, leaf)
    BY DEF MemberDisks
<1>3. \A b, d : d \in Physical(sys, b)
        <=> d \notin sys.loops /\ \E leaf \in BlockLeaves(sys, b) : d = Whole(sys, leaf)
    BY <1>1
<1> QED BY <1>2, <1>3

-----------------------------------------------------------------------------
(* Both texts are read line by line.  What a reader has after some lines   *)
(* is what it has after the first part of them, and then the second.       *)
ReadAny(text, s, line) == IF text = "mdstat" THEN ReadMdLine(s, line) ELSE ReadLine(s, line)
IsReading(f, text, s, lines, m) ==
    f[0] = s /\ \A n \in 1..m : f[n] = ReadAny(text, f[n - 1], lines[n])
After(text, s, lines) ==
    (CHOOSE f : IsReading(f, text, s, lines, Len(lines)))[Len(lines)]

(* What holds of the first of some and, after each, of the next, holds of  *)
(* all of them.                                                            *)
LEMMA OneByOne ==
    ASSUME NEW m \in Nat, NEW T, 0 \in T, \A n \in 1..m : n - 1 \in T => n \in T
    PROVE  0..m \subseteq T
<1> SUFFICES ASSUME (0..m) \ T # {} PROVE FALSE
    OBVIOUS
<1>1. PICK k \in (0..m) \ T : \A l \in (0..m) \ T : k <= l
    <2>1. (0..m) \ T \subseteq Nat OBVIOUS
    <2> QED BY <2>1, LeastNatural
<1>2. k # 0 /\ k \in 1..m BY <1>1
<1>3. k - 1 \in 0..m /\ k - 1 < k BY <1>2
<1>4. k - 1 \in T BY <1>1, <1>3
<1> QED BY <1>1, <1>2, <1>4

LEMMA ReadingExists ==
    ASSUME NEW text, NEW s, NEW lines, NEW m \in Nat
    PROVE  \E f : IsReading(f, text, s, lines, m)
<1> DEFINE T == {k \in 0..m : \E f : IsReading(f, text, s, lines, k)}
<1>1. 0 \in T
    <2> DEFINE none == [n \in {0} |-> s]
    <2>1. none[0] = s OBVIOUS
    <2> HIDE DEF none
    <2>2. IsReading(none, text, s, lines, 0) BY <2>1 DEF IsReading
    <2> QED BY <2>2
<1>2. ASSUME NEW k \in 1..m, k - 1 \in T PROVE k \in T
    <2>1. PICK f : IsReading(f, text, s, lines, k - 1) BY <1>2
    <2> DEFINE more == [n \in 0..k |-> IF n = k THEN ReadAny(text, f[k - 1], lines[k]) ELSE f[n]]
    <2>2. /\ more[k] = ReadAny(text, f[k - 1], lines[k])
          /\ \A n \in 0..(k - 1) : more[n] = f[n]
        OBVIOUS
    <2> HIDE DEF more
    <2>3. ASSUME NEW n \in 1..k PROVE more[n] = ReadAny(text, more[n - 1], lines[n])
        <3>1. n - 1 \in 0..(k - 1) /\ (n # k => n \in 0..(k - 1) /\ n \in 1..(k - 1)) OBVIOUS
        <3>2. more[n - 1] = f[n - 1] BY <2>2, <3>1
        <3>3. CASE n = k BY <3>3, <3>2, <2>2
        <3>4. CASE n # k
            <4>1. f[n] = ReadAny(text, f[n - 1], lines[n]) BY <3>1, <3>4, <2>1 DEF IsReading
            <4>2. more[n] = f[n] BY <3>1, <3>4, <2>2
            <4> QED BY <4>1, <4>2, <3>2
        <3> QED BY <3>3, <3>4
    <2>4. more[0] = s
        <3>1. 0 \in 0..(k - 1) OBVIOUS
        <3>2. more[0] = f[0] BY <3>1, <2>2
        <3> QED BY <3>2, <2>1 DEF IsReading
    <2>5. IsReading(more, text, s, lines, k) BY <2>3, <2>4 DEF IsReading
    <2>6. k \in 0..m OBVIOUS
    <2> QED BY <2>5, <2>6
<1> HIDE DEF T
<1>3. 0..m \subseteq T BY <1>1, <1>2, OneByOne
<1>4. m \in T BY <1>3
<1> QED BY <1>4 DEF T

(* All readings of the same lines agree.                                   *)
LEMMA ReadingIsOne ==
    ASSUME NEW text, NEW s, NEW lines, NEW m \in Nat,
           NEW f, IsReading(f, text, s, lines, m), NEW g, IsReading(g, text, s, lines, m)
    PROVE  f[m] = g[m]
<1> DEFINE T == {k \in 0..m : f[k] = g[k]}
<1>1. 0 \in T BY DEF IsReading
<1>2. ASSUME NEW k \in 1..m, k - 1 \in T PROVE k \in T
    <2>1. f[k] = ReadAny(text, f[k - 1], lines[k]) /\ g[k] = ReadAny(text, g[k - 1], lines[k])
        BY DEF IsReading
    <2> QED BY <2>1, <1>2
<1> HIDE DEF T
<1>3. 0..m \subseteq T BY <1>1, <1>2, OneByOne
<1>4. m \in T BY <1>3
<1> QED BY <1>4 DEF T

LEMMA AfterIs ==
    ASSUME NEW text, NEW s, NEW lines, Len(lines) \in Nat,
           NEW f, IsReading(f, text, s, lines, Len(lines))
    PROVE  After(text, s, lines) = f[Len(lines)]
<1> DEFINE g == CHOOSE h : IsReading(h, text, s, lines, Len(lines))
<1>1. IsReading(g, text, s, lines, Len(lines)) OBVIOUS
<1>2. After(text, s, lines) = g[Len(lines)] BY DEF After
<1> HIDE DEF g
<1>3. \A m \in Nat : IsReading(f, text, s, lines, m) /\ IsReading(g, text, s, lines, m) => f[m] = g[m]
    BY ReadingIsOne
<1> QED BY <1>1, <1>2, <1>3

LEMMA AfterNothing ==
    ASSUME NEW text, NEW s PROVE After(text, s, <<>>) = s
<1>1. PICK f : IsReading(f, text, s, <<>>, 0) BY ReadingExists
<1>2. Len(<<>>) = 0 OBVIOUS
<1>3. After(text, s, <<>>) = f[0] BY <1>1, <1>2, AfterIs
<1> QED BY <1>1, <1>3 DEF IsReading

LEMMA AfterOne ==
    ASSUME NEW text, NEW s, NEW line PROVE After(text, s, <<line>>) = ReadAny(text, s, line)
<1>1. PICK f : IsReading(f, text, s, <<line>>, 1) BY ReadingExists
<1>2. Len(<<line>>) = 1 /\ <<line>>[1] = line OBVIOUS
<1>3. After(text, s, <<line>>) = f[1] BY <1>1, <1>2, AfterIs
<1>4. f[0] = s /\ f[1] = ReadAny(text, f[0], line) BY <1>1, <1>2 DEF IsReading
<1> QED BY <1>3, <1>4

LEMMA AfterBoth ==
    ASSUME NEW L, NEW lines \in Seq(L), NEW more \in Seq(L), NEW text, NEW s
    PROVE  After(text, s, lines \o more) = After(text, After(text, s, lines), more)
<1> DEFINE a == Len(lines)
           b == Len(more)
           mid == After(text, s, lines)
<1>1. a \in Nat /\ b \in Nat /\ a + b \in Nat OBVIOUS
<1>2. PICK f : IsReading(f, text, s, lines \o more, a + b)
    <2> HIDE DEF a, b
    <2> QED BY <1>1, ReadingExists
<1>3. /\ Len(lines \o more) = a + b
      /\ \A n \in 1..a : (lines \o more)[n] = lines[n]
      /\ \A n \in 1..b : (lines \o more)[a + n] = more[n]
    OBVIOUS
<1>4. After(text, s, lines \o more) = f[a + b]
    <2>1. Len(lines \o more) \in Nat /\ IsReading(f, text, s, lines \o more, Len(lines \o more))
        BY <1>1, <1>2, <1>3
    <2> DEFINE all == lines \o more
    <2>2. Len(all) = a + b BY <1>3
    <2>3. Len(all) \in Nat /\ IsReading(f, text, s, all, Len(all)) BY <2>1
    <2> HIDE DEF all, a, b
    <2>4. After(text, s, all) = f[Len(all)] BY <2>3, AfterIs
    <2> QED BY <2>2, <2>4 DEF all
<1>5. f[0] = s /\ \A n \in 1..(a + b) : f[n] = ReadAny(text, f[n - 1], (lines \o more)[n])
    BY <1>2 DEF IsReading
<1>6. mid = f[a]
    <2>1. IsReading(f, text, s, lines, a) BY <1>1, <1>3, <1>5 DEF IsReading
    <2> QED BY <2>1, <1>1, AfterIs
<1> DEFINE g == [n \in 0..b |-> f[a + n]]
<1>7. \A n \in 0..b : g[n] = f[a + n] OBVIOUS
<1> HIDE DEF a, b, mid, g
<1>8. IsReading(g, text, mid, more, b)
    <2>1. g[0] = mid
        <3>1. 0 \in 0..b /\ a + 0 = a BY <1>1
        <3> QED BY <3>1, <1>6, <1>7
    <2>2. ASSUME NEW n \in 1..b PROVE g[n] = ReadAny(text, g[n - 1], more[n])
        <3>1. /\ n \in 0..b /\ n - 1 \in 0..b /\ a + n \in 1..(a + b)
              /\ a + (n - 1) = (a + n) - 1
            BY <1>1
        <3>2. g[n] = f[a + n] /\ g[n - 1] = f[(a + n) - 1] BY <3>1, <1>7
        <3>3. f[a + n] = ReadAny(text, f[(a + n) - 1], (lines \o more)[a + n]) BY <3>1, <1>5
        <3> QED BY <3>2, <3>3, <1>3
    <2> QED BY <2>1, <2>2 DEF IsReading
<1>9. After(text, mid, more) = g[b] BY <1>1, <1>8, AfterIs DEF b
<1>10. g[b] = f[a + b] BY <1>1, <1>7
<1> QED BY <1>4, <1>9, <1>10 DEF mid

(* The parsers are such readers.                                           *)
LEMMA ParseTextIs ==
    ASSUME NEW lines, Len(lines) \in Nat
    PROVE  ParseText(lines) = Finished(After("zpool", Nowhere, lines))
<1> DEFINE f == CHOOSE g : g = [n \in 0..Len(lines) |-> IF n = 0 THEN Nowhere
                                                       ELSE ReadLine(g[n - 1], lines[n])]
<1>1. ParseText(lines) = Finished(f[Len(lines)]) BY Zenon DEF ParseText
<1>2. PICK h : IsReading(h, "zpool", Nowhere, lines, Len(lines)) BY ReadingExists
<1> DEFINE m == Len(lines)
           k == [n \in 0..m |-> h[n]]
<1>3. k = [n \in 0..Len(lines) |-> IF n = 0 THEN Nowhere ELSE ReadLine(k[n - 1], lines[n])]
    <2>1. \A n \in 0..m : k[n] = h[n] OBVIOUS
    <2>2. k = [n \in 0..m |-> k[n]] OBVIOUS
    <2>3. m \in Nat OBVIOUS
    <2> HIDE DEF k
    <2>4. ASSUME NEW n \in 0..m PROVE k[n] = IF n = 0 THEN Nowhere ELSE ReadLine(k[n - 1], lines[n])
        <3>1. n # 0 => n \in 1..m /\ n - 1 \in 0..m BY <2>3
        <3> HIDE DEF m
        <3>2. h[0] = Nowhere /\ \A l \in 1..m : h[l] = ReadAny("zpool", h[l - 1], lines[l])
            BY <1>2 DEF IsReading, m
        <3>3. \A s, line : ReadAny("zpool", s, line) = ReadLine(s, line) BY DEF ReadAny
        <3> QED BY <3>1, <3>2, <3>3, <2>1
    <2> QED BY <2>2, <2>4
<1> HIDE DEF k
<1>4. f = [n \in 0..Len(lines) |-> IF n = 0 THEN Nowhere ELSE ReadLine(f[n - 1], lines[n])]
    BY <1>3
<1> HIDE DEF f
<1>5. \A n \in 0..Len(lines) : f[n] = IF n = 0 THEN Nowhere ELSE ReadLine(f[n - 1], lines[n])
    BY <1>4
<1>6. IsReading(f, "zpool", Nowhere, lines, Len(lines))
    BY <1>5 DEF IsReading, ReadAny
<1>7. After("zpool", Nowhere, lines) = f[Len(lines)] BY <1>6, AfterIs
<1> QED BY <1>1, <1>7

LEMMA ParseMdstatIs ==
    ASSUME NEW lines, Len(lines) \in Nat
    PROVE  ParseMdstat(lines) = Flushed(After("mdstat", Unread, lines))
<1> DEFINE f == CHOOSE g : g = [n \in 0..Len(lines) |-> IF n = 0 THEN Unread
                                                       ELSE ReadMdLine(g[n - 1], lines[n])]
<1>1. ParseMdstat(lines) = Flushed(f[Len(lines)]) BY Zenon DEF ParseMdstat
<1>2. PICK h : IsReading(h, "mdstat", Unread, lines, Len(lines)) BY ReadingExists
<1> DEFINE m == Len(lines)
           k == [n \in 0..m |-> h[n]]
<1>3. k = [n \in 0..Len(lines) |-> IF n = 0 THEN Unread ELSE ReadMdLine(k[n - 1], lines[n])]
    <2>1. \A n \in 0..m : k[n] = h[n] OBVIOUS
    <2>2. k = [n \in 0..m |-> k[n]] OBVIOUS
    <2>3. m \in Nat OBVIOUS
    <2> HIDE DEF k
    <2>4. ASSUME NEW n \in 0..m PROVE k[n] = IF n = 0 THEN Unread ELSE ReadMdLine(k[n - 1], lines[n])
        <3>1. n # 0 => n \in 1..m /\ n - 1 \in 0..m BY <2>3
        <3> HIDE DEF m
        <3>2. h[0] = Unread /\ \A l \in 1..m : h[l] = ReadAny("mdstat", h[l - 1], lines[l])
            BY <1>2 DEF IsReading, m
        <3>3. \A s, line : ReadAny("mdstat", s, line) = ReadMdLine(s, line) BY DEF ReadAny
        <3> QED BY <3>1, <3>2, <3>3, <2>1
    <2> QED BY <2>2, <2>4
<1> HIDE DEF k
<1>4. f = [n \in 0..Len(lines) |-> IF n = 0 THEN Unread ELSE ReadMdLine(f[n - 1], lines[n])]
    BY <1>3
<1> HIDE DEF f
<1>5. \A n \in 0..Len(lines) : f[n] = IF n = 0 THEN Unread ELSE ReadMdLine(f[n - 1], lines[n])
    BY <1>4
<1>6. IsReading(f, "mdstat", Unread, lines, Len(lines))
    BY <1>5 DEF IsReading, ReadAny
<1>7. After("mdstat", Unread, lines) = f[Len(lines)] BY <1>6, AfterIs
<1> QED BY <1>1, <1>7

(* The lines of several parts are those of the first ones, then those of   *)
(* the next.                                                               *)
LEMMA Flattened ==
    ASSUME NEW L, NEW seqs \in Seq(Seq(L))
    PROVE  \E fl : /\ fl[0] = <<>> /\ FlattenSeq(seqs) = fl[Len(seqs)]
                   /\ \A i \in 1..Len(seqs) : fl[i] = fl[i - 1] \o seqs[i]
                   /\ \A i \in 0..Len(seqs) : fl[i] \in Seq(L)
<1> DEFINE n == Len(seqs)
           f == CHOOSE g : g = [i \in 1..Len(seqs) |-> IF i = 1 THEN seqs[i] ELSE g[i - 1] \o seqs[i]]
<1>1. FlattenSeq(seqs) = IF Len(seqs) = 0 THEN seqs ELSE f[Len(seqs)]
    BY Zenon DEF FlattenSeq
<1>2. n \in Nat /\ \A i \in 1..n : seqs[i] \in Seq(L) OBVIOUS
<1> DEFINE Ok(g, k) == \A i \in 1..k : g[i] = IF i = 1 THEN seqs[i] ELSE g[i - 1] \o seqs[i]
           T == {k \in 0..n : \E g : Ok(g, k)}
<1>3. n \in T
    <2>1. 0 \in T BY <1>2
    <2>2. ASSUME NEW k \in 1..n, k - 1 \in T PROVE k \in T
        <3>1. PICK g : Ok(g, k - 1) BY <2>2
        <3> DEFINE last == IF k = 1 THEN seqs[k] ELSE g[k - 1] \o seqs[k]
                   more == [i \in 1..k |-> IF i = k THEN last ELSE g[i]]
        <3>2. /\ more[k] = last
              /\ \A i \in 1..(k - 1) : more[i] = g[i]
            <4>1. k \in Nat /\ k \in 1..k
                <5> HIDE DEF n
                <5> QED BY <1>2
            <4> HIDE DEF last
            <4> QED BY <4>1
        <3> HIDE DEF more
        <3>3. ASSUME NEW i \in 1..k PROVE more[i] = IF i = 1 THEN seqs[i] ELSE more[i - 1] \o seqs[i]
            <4>1. /\ i # k => i \in 1..(k - 1)
                  /\ i # 1 => i - 1 \in 1..(k - 1)
                <5> HIDE DEF n
                <5> QED BY <1>2
            <4>2. CASE i = k BY <4>1, <4>2, <3>2
            <4>3. CASE i # k BY <4>1, <4>3, <3>1, <3>2
            <4> QED BY <4>2, <4>3
        <3>4. Ok(more, k) BY <3>3
        <3>5. k \in 0..n BY <1>2
        <3> HIDE DEF Ok
        <3> QED BY <3>4, <3>5
    <2> HIDE DEF T, n
    <2>3. 0..n \subseteq T BY <1>2, <2>1, <2>2, OneByOne
    <2> QED BY <2>3, <1>2
<1>4. PICK g : Ok(g, n) BY <1>3
<1> DEFINE h == [i \in 1..n |-> g[i]]
<1>5. h = [i \in 1..Len(seqs) |-> IF i = 1 THEN seqs[i] ELSE h[i - 1] \o seqs[i]]
    <2>1. \A i \in 1..n : h[i] = g[i] OBVIOUS
    <2>2. h = [i \in 1..n |-> h[i]] OBVIOUS
    <2> HIDE DEF h
    <2>3. ASSUME NEW i \in 1..n PROVE h[i] = IF i = 1 THEN seqs[i] ELSE h[i - 1] \o seqs[i]
        <3>1. i # 1 => i - 1 \in 1..n BY <1>2
        <3>2. g[i] = IF i = 1 THEN seqs[i] ELSE g[i - 1] \o seqs[i] BY <1>4
        <3> HIDE DEF n
        <3> QED BY <3>1, <3>2, <2>1
    <2> QED BY <2>2, <2>3
<1> HIDE DEF h
<1>6. f = [i \in 1..Len(seqs) |-> IF i = 1 THEN seqs[i] ELSE f[i - 1] \o seqs[i]]
    BY <1>5
<1> HIDE DEF f
<1>7. \A i \in 1..n : f[i] = IF i = 1 THEN seqs[i] ELSE f[i - 1] \o seqs[i]
    BY <1>6
<1> DEFINE fl == [i \in 0..n |-> IF i = 0 THEN <<>> ELSE f[i]]
<1>8. fl[0] = <<>> /\ \A i \in 1..n : fl[i] = f[i] BY <1>2
<1> HIDE DEF fl
<1>9. FlattenSeq(seqs) = fl[n]
    <2>1. CASE n = 0 BY <2>1, <1>1, <1>8
    <2>2. CASE n # 0 BY <2>2, <1>1, <1>2, <1>8
    <2> QED BY <2>1, <2>2
<1>10. ASSUME NEW i \in 1..n PROVE fl[i] = fl[i - 1] \o seqs[i]
    <2>1. CASE i = 1
        <3>1. <<>> \o seqs[i] = seqs[i] BY <1>2
        <3>2. fl[i - 1] = <<>> /\ fl[i] = seqs[i] BY <2>1, <1>7, <1>8
        <3> QED BY <3>1, <3>2
    <2>2. CASE i # 1
        <3>1. i - 1 \in 1..n BY <1>2, <2>2
        <3> QED BY <3>1, <2>2, <1>7, <1>8
    <2> QED BY <2>1, <2>2
<1>11. \A i \in 0..n : fl[i] \in Seq(L)
    <2> DEFINE S == {i \in 0..n : fl[i] \in Seq(L)}
    <2>1. 0 \in S
        <3>1. <<>> \in Seq(L) /\ 0 \in 0..n BY <1>2
        <3> QED BY <3>1, <1>8
    <2>2. ASSUME NEW i \in 1..n, i - 1 \in S PROVE i \in S
        <3>1. fl[i] = fl[i - 1] \o seqs[i] BY <1>10
        <3>2. fl[i - 1] \in Seq(L) /\ seqs[i] \in Seq(L) BY <2>2, <1>2
        <3>3. i \in 0..n
            <4> HIDE DEF n
            <4> QED BY <1>2
        <3>4. fl[i] \in Seq(L) BY <3>1, <3>2
        <3> QED BY <3>3, <3>4
    <2> HIDE DEF S, n
    <2>3. 0..n \subseteq S BY <1>2, <2>1, <2>2, OneByOne
    <2> QED BY <2>3 DEF S
<1> QED BY <1>8, <1>9, <1>10, <1>11

(* What a reader has after them, part by part.                             *)
LEMMA AfterFlattened ==
    ASSUME NEW L, NEW seqs \in Seq(Seq(L)), NEW text, NEW s
    PROVE  /\ FlattenSeq(seqs) \in Seq(L)
           /\ \E g : /\ g[0] = s /\ After(text, s, FlattenSeq(seqs)) = g[Len(seqs)]
                     /\ \A i \in 1..Len(seqs) : g[i] = After(text, g[i - 1], seqs[i])
<1>1. PICK fl : /\ fl[0] = <<>> /\ FlattenSeq(seqs) = fl[Len(seqs)]
                /\ \A i \in 1..Len(seqs) : fl[i] = fl[i - 1] \o seqs[i]
                /\ \A i \in 0..Len(seqs) : fl[i] \in Seq(L)
    BY Flattened
<1> DEFINE n == Len(seqs)
           g == [i \in 0..n |-> After(text, s, fl[i])]
<1>2. n \in Nat /\ \A i \in 1..n : seqs[i] \in Seq(L) OBVIOUS
<1>3. \A i \in 0..n : g[i] = After(text, s, fl[i]) OBVIOUS
<1>4. 0 \in 0..n /\ n \in 0..n BY <1>2
<1> HIDE DEF g
<1>5. g[0] = s BY <1>1, <1>3, <1>4, AfterNothing
<1>6. After(text, s, FlattenSeq(seqs)) = g[n] BY <1>1, <1>3, <1>4
<1>7. ASSUME NEW i \in 1..n PROVE g[i] = After(text, g[i - 1], seqs[i])
    <2>1. i \in 0..n /\ i - 1 \in 0..n BY <1>2
    <2>2. fl[i] = fl[i - 1] \o seqs[i] /\ fl[i - 1] \in Seq(L) /\ seqs[i] \in Seq(L)
        BY <2>1, <1>1, <1>2
    <2>3. After(text, s, fl[i]) = After(text, After(text, s, fl[i - 1]), seqs[i])
        BY <2>2, AfterBoth
    <2> QED BY <2>1, <2>3, <1>3
<1>8. FlattenSeq(seqs) \in Seq(L) BY <1>1, <1>4
<1> QED BY <1>5, <1>6, <1>7, <1>8

(* A finite set in some order: all of it, each member once.                *)
LEMMA OrderHasAll ==
    ASSUME NEW S, IsFiniteSet(S), NEW f \in [1..Cardinality(S) -> S],
           \A i, j \in 1..Cardinality(S) : i # j => f[i] # f[j]
    PROVE  Cardinality(S) \in Nat /\ \A x \in S : \E i \in 1..Cardinality(S) : f[i] = x
<1> DEFINE n == Cardinality(S)
<1>1. n \in Nat BY FS_CardinalityType
<1>2. IsFiniteSet(1..n) /\ Cardinality(1..n) = n BY <1>1, FS_Interval
<1>3. f \in Injection(1..n, S) BY DEF Injection, IsInjective
<1>4. f \in Surjection(1..n, S) BY <1>2, <1>3, FS_Injection
<1> QED BY <1>1, <1>4 DEF Surjection

LEMMA SetInOrder ==
    ASSUME NEW S, IsFiniteSet(S)
    PROVE  /\ SetToSeq(S) \in [1..Cardinality(S) -> S]
           /\ \A i, j \in 1..Cardinality(S) : i # j => SetToSeq(S)[i] # SetToSeq(S)[j]
<1> DEFINE n == Cardinality(S)
<1>1. PICK g : g \in Bijection(1..n, S) BY FS_CardinalityType DEF ExistsBijection
<1>2. g \in [1..n -> S] /\ IsInjective(g) BY <1>1 DEF Bijection, Injection
<1>3. SetToSeq(S) \in [1..n -> S] /\ IsInjective(SetToSeq(S)) BY <1>2 DEF SetToSeq
<1> QED BY <1>3 DEF IsInjective

(* A list that is cut counts what is not in it.                            *)
LEMMA CutOf ==
    ASSUME NEW S, IsFiniteSet(S), NEW n \in Nat
    PROVE  FirstOf(n, S) \subseteq S /\ LeftOut(n, S) = Cardinality(S \ FirstOf(n, S))
<1> DEFINE order == SetToSeq(S)
           k == Cardinality(S)
           first == FirstOf(n, S)
           rest == (n + 1)..k
<1>1. /\ k \in Nat /\ order \in [1..k -> S]
      /\ \A i, j \in 1..k : i # j => order[i] # order[j]
    BY FS_CardinalityType, SetInOrder
<1>2. first = {order[i] : i \in {j \in 1..k : j <= n}}
    <2>1. DOMAIN order = 1..k BY <1>1
    <2> QED BY <2>1 DEF FirstOf
<1>3. LeftOut(n, S) = IF k > n THEN k - n ELSE 0 BY DEF LeftOut
<1> HIDE DEF order
<1>4. \A x \in S : \E i \in 1..k : order[i] = x BY <1>1, OrderHasAll
<1> HIDE DEF first, k
<1>5. first \subseteq S BY <1>1, <1>2
<1>6. IsFiniteSet(rest) /\ Cardinality(rest) = LeftOut(n, S)
    <2>1. n + 1 \in Int /\ k \in Int BY <1>1
    <2>2. Cardinality(rest) = IF n + 1 > k THEN 0 ELSE k - (n + 1) + 1 BY <2>1, FS_Interval
    <2> QED BY <1>1, <1>3, <2>1, <2>2, FS_Interval
<1> DEFINE f == [i \in rest |-> order[i]]
<1>7. f \in Bijection(rest, S \ first)
    <2>1. rest \subseteq 1..k /\ \A i \in 1..k : i \in rest <=> ~(i <= n) BY <1>1
    <2>2. \A i \in rest : f[i] = order[i] /\ f[i] \in S \ first BY <2>1, <1>1, <1>2
    <2>3. \A i, j \in rest : f[i] = f[j] => i = j BY <2>1, <2>2, <1>1
    <2>4. \A x \in S \ first : \E i \in rest : f[i] = x
        <3> SUFFICES ASSUME NEW x \in S \ first PROVE \E i \in rest : f[i] = x
            OBVIOUS
        <3>1. PICK i \in 1..k : order[i] = x BY <1>4
        <3>2. i \in rest BY <3>1, <2>1, <1>2
        <3> QED BY <3>1, <3>2, <2>2
    <2>5. f \in [rest -> S \ first] BY <2>2
    <2> HIDE DEF f, rest
    <2> QED BY <2>3, <2>4, <2>5 DEF Bijection, Injection, Surjection, IsInjective
<1> HIDE DEF f, rest
<1>8. Cardinality(S \ first) = LeftOut(n, S) BY <1>6, <1>7, FS_Bijection DEF ExistsBijection
<1> QED BY <1>5, <1>8 DEF first

-----------------------------------------------------------------------------
(* /proc/mdstat: an array as the reader has it after some of its lines.    *)
LinesOf(a) ==
    <<ArrayLine(a), StatusLine(a)>>
    \o (IF a.progress = "" THEN <<>> ELSE <<ProgressLine(a)>>)
    \o <<OtherLine("bitmap")>>
MdLines(S) ==
    {ArrayLine(a) : a \in S} \cup {StatusLine(a) : a \in S} \cup {ProgressLine(a) : a \in S}
    \cup {OtherLine("Personalities"), OtherLine("bitmap"), OtherLine("unused devices")}
Has(c, a, total, present, down, progress) ==
    /\ {"name", "state", "total", "present", "down", "members", "progress"} \subseteq DOMAIN c
    /\ c.name = a.name /\ c.state = ArrayLine(a).words[1].text
    /\ c.members = MembersAmong(ArrayLine(a).words)
    /\ c.total = total /\ c.present = present /\ c.down = down /\ c.progress = progress
IsRead(c, a) ==
    Has(c, a, FindSlotPair(StatusLine(a))[1], FindSlotPair(StatusLine(a))[2],
        FindMemberState(StatusLine(a)), a.progress)

LEMMA OtherLinesAreSkipped ==
    ASSUME NEW s, NEW text \in {"Personalities", "bitmap", "unused devices"}
    PROVE  After("mdstat", s, <<OtherLine(text)>>) = s
<1>1. OtherLine(text).kind = text BY DEF OtherLine
<1>2. ReadMdLine(s, OtherLine(text)) = s BY <1>1 DEF ReadMdLine
<1> QED BY <1>2, AfterOne DEF ReadAny

(* The lines of an array end the one before it.                            *)
LEMMA ArrayIsRead ==
    ASSUME NEW S, NEW a \in S, IsArray(a), NEW s
    PROVE  LET t == After("mdstat", s, LinesOf(a))
           IN  /\ LinesOf(a) \in Seq(MdLines(S))
               /\ t.done = Flushed(s) /\ IsRead(t.current, a)
<1> DEFINE L == MdLines(S)
           words == ArrayLine(a).words
           line == StatusLine(a)
           s1 == ReadArrayLine(s, ArrayLine(a))
           s2 == ReadStatusLine(s1, line)
           s3 == IF a.progress = "" THEN s2 ELSE ReadProgressLine(s2, ProgressLine(a))
<1>1. /\ ArrayLine(a) \in L /\ StatusLine(a) \in L /\ ProgressLine(a) \in L
      /\ OtherLine("bitmap") \in L
    BY DEF MdLines
<1>2. a.name # "" /\ a.slots \in Seq(BOOLEAN) BY DEF IsArray
<1>3. ReadMdLine(s, ArrayLine(a)) = s1
    <2>1. ArrayLine(a).kind = "array" BY DEF ArrayLine
    <2> QED BY <2>1 DEF ReadMdLine
<1>4. DOMAIN s1 = {"done", "current"} /\ s1.done = Flushed(s) /\ Has(s1.current, a, 0, 0, FALSE, "")
    <2>1. ArrayLine(a).name = a.name BY DEF ArrayLine
    <2> DEFINE members == MembersAmong(words)
               c == [NoArray EXCEPT !.name = a.name, !.state = words[1].text,
                                    !.level = words[2].text, !.members = members]
    <2>2. s1 = [done |-> Flushed(s), current |-> c] BY <2>1 DEF ReadArrayLine
    <2> HIDE DEF words, members
    <2>3. /\ DOMAIN c = DOMAIN NoArray
          /\ c.name = a.name /\ c.state = words[1].text /\ c.members = members
          /\ c.total = 0 /\ c.present = 0 /\ c.down = FALSE /\ c.progress = ""
        BY DEF NoArray
    <2>4. {"name", "state", "total", "present", "down", "members", "progress"} \subseteq DOMAIN NoArray
        BY DEF NoArray
    <2> HIDE DEF c, s1
    <2> QED BY <2>2, <2>3, <2>4 DEF Has, words, members
<1>5. s1.current # NoArray
    <2>1. NoArray.name = "" BY DEF NoArray
    <2> HIDE DEF s1
    <2> QED BY <2>1, <1>2, <1>4 DEF Has
<1>6. ReadMdLine(s1, line) = s2
    <2>1. line.kind = "status" BY DEF StatusLine
    <2> HIDE DEF line, s1
    <2> QED BY <2>1, <1>5 DEF ReadMdLine
<1>7. /\ DOMAIN s2 = {"done", "current"} /\ s2.done = Flushed(s)
      /\ Has(s2.current, a, FindSlotPair(line)[1], FindSlotPair(line)[2], FindMemberState(line), "")
    <2>1. line.slots \in Seq(BOOLEAN)
        <3>1. line.slots = IF a.state = "active" THEN a.slots ELSE <<>> BY DEF StatusLine
        <3>2. <<>> \in Seq(BOOLEAN) OBVIOUS
        <3> HIDE DEF line
        <3> QED BY <3>1, <3>2, <1>2
    <2> HIDE DEF line, s1
    <2>2. CASE line.slots = <<>>
        <3>1. FindSlotPair(line)[1] = 0 /\ FindSlotPair(line)[2] = 0
            <4>1. {i \in DOMAIN line.slots : line.slots[i]} = {} BY <2>2
            <4>2. Cardinality({i \in DOMAIN line.slots : line.slots[i]}) = 0 BY <4>1, FS_EmptySet
            <4> QED BY <4>2, <2>2 DEF FindSlotPair
        <3>2. FindMemberState(line) = FALSE BY <2>2 DEF FindMemberState
        <3>3. s2 = s1 BY <2>2 DEF ReadStatusLine
        <3> QED BY <3>1, <3>2, <3>3, <1>4
    <2>3. CASE line.slots # <<>>
        <3> DEFINE t == FindSlotPair(line)[1]
                   p == FindSlotPair(line)[2]
                   d == FindMemberState(line)
        <3>1. s2 = [s1 EXCEPT !.current.total = t, !.current.present = p, !.current.down = d]
            BY <2>3 DEF ReadStatusLine
        <3> HIDE DEF t, p, d, s2
        <3>2. /\ DOMAIN s2 = DOMAIN s1 /\ s2.done = s1.done
              /\ s2.current = [s1.current EXCEPT !.total = t, !.present = p, !.down = d]
            BY <3>1, <1>4
        <3> DEFINE c == s1.current
        <3>3. {"name", "state", "total", "present", "down", "members", "progress"} \subseteq DOMAIN c
            BY <1>4 DEF Has
        <3> HIDE DEF c
        <3>4. /\ DOMAIN [c EXCEPT !.total = t, !.present = p, !.down = d] = DOMAIN c
              /\ [c EXCEPT !.total = t, !.present = p, !.down = d].name = c.name
              /\ [c EXCEPT !.total = t, !.present = p, !.down = d].state = c.state
              /\ [c EXCEPT !.total = t, !.present = p, !.down = d].members = c.members
              /\ [c EXCEPT !.total = t, !.present = p, !.down = d].progress = c.progress
              /\ [c EXCEPT !.total = t, !.present = p, !.down = d].total = t
              /\ [c EXCEPT !.total = t, !.present = p, !.down = d].present = p
              /\ [c EXCEPT !.total = t, !.present = p, !.down = d].down = d
            BY <3>3
        <3> QED BY <3>2, <3>4, <1>4 DEF Has, c, t, p, d
    <2> QED BY <2>2, <2>3
<1>8. s2.current # NoArray
    <2>1. NoArray.name = "" BY DEF NoArray
    <2> HIDE DEF s2
    <2> QED BY <2>1, <1>2, <1>7 DEF Has
<1>9. a.progress # "" => ReadMdLine(s2, ProgressLine(a)) = s3
    <2>1. ProgressLine(a).kind = "progress" BY DEF ProgressLine
    <2> HIDE DEF s2
    <2> QED BY <2>1, <1>8 DEF ReadMdLine
<1>10. s3.done = Flushed(s) /\ IsRead(s3.current, a)
    <2> HIDE DEF s2
    <2>1. CASE a.progress = "" BY <2>1, <1>7 DEF IsRead
    <2>2. CASE a.progress # ""
        <3>1. s3 = [s2 EXCEPT !.current.progress = a.progress]
            BY <2>2 DEF ReadProgressLine, ProgressLine
        <3> HIDE DEF s3
        <3>2. s3.done = s2.done /\ s3.current = [s2.current EXCEPT !.progress = a.progress]
            BY <3>1, <1>7
        <3> DEFINE c == s2.current
        <3>3. {"name", "state", "total", "present", "down", "members", "progress"} \subseteq DOMAIN c
            BY <1>7 DEF Has
        <3> HIDE DEF c
        <3>4. /\ DOMAIN [c EXCEPT !.progress = a.progress] = DOMAIN c
              /\ [c EXCEPT !.progress = a.progress].name = c.name
              /\ [c EXCEPT !.progress = a.progress].state = c.state
              /\ [c EXCEPT !.progress = a.progress].members = c.members
              /\ [c EXCEPT !.progress = a.progress].total = c.total
              /\ [c EXCEPT !.progress = a.progress].present = c.present
              /\ [c EXCEPT !.progress = a.progress].down = c.down
              /\ [c EXCEPT !.progress = a.progress].progress = a.progress
            BY <3>3
        <3> QED BY <3>2, <3>4, <1>7 DEF Has, c, IsRead
    <2> QED BY <2>1, <2>2
<1> HIDE DEF s1, s2, s3, L, words
<1> DEFINE first == <<ArrayLine(a), StatusLine(a)>>
           then == IF a.progress = "" THEN <<>> ELSE <<ProgressLine(a)>>
           last == <<OtherLine("bitmap")>>
<1>11. first \in Seq(L) /\ then \in Seq(L) /\ last \in Seq(L)
    <2>1. <<ArrayLine(a), StatusLine(a)>> \in Seq(L) BY <1>1
    <2>2. <<ProgressLine(a)>> \in Seq(L) /\ <<>> \in Seq(L) BY <1>1
    <2>3. <<OtherLine("bitmap")>> \in Seq(L) BY <1>1
    <2> QED BY <2>1, <2>2, <2>3
<1>12. After("mdstat", s, first) = s2
    <2>1. first = <<ArrayLine(a)>> \o <<StatusLine(a)>> OBVIOUS
    <2>2. <<ArrayLine(a)>> \in Seq(L) /\ <<StatusLine(a)>> \in Seq(L) BY <1>1
    <2>3. After("mdstat", s, <<ArrayLine(a)>>) = s1 BY <1>3, AfterOne DEF ReadAny
    <2>4. After("mdstat", s1, <<StatusLine(a)>>) = s2 BY <1>6, AfterOne DEF ReadAny
    <2> HIDE DEF first
    <2>5. After("mdstat", s, <<ArrayLine(a)>> \o <<StatusLine(a)>>)
            = After("mdstat", After("mdstat", s, <<ArrayLine(a)>>), <<StatusLine(a)>>)
        BY <2>2, AfterBoth
    <2> QED BY <2>1, <2>3, <2>4, <2>5
<1>13. After("mdstat", s2, then) = s3
    <2>1. CASE a.progress = "" BY <2>1, AfterNothing DEF s3
    <2>2. CASE a.progress # ""
        <3>1. After("mdstat", s2, <<ProgressLine(a)>>) = ReadAny("mdstat", s2, ProgressLine(a))
            BY AfterOne
        <3> QED BY <2>2, <3>1, <1>9 DEF ReadAny
    <2> QED BY <2>1, <2>2
<1>14. After("mdstat", s3, last) = s3 BY OtherLinesAreSkipped
<1>15. LinesOf(a) = (first \o then) \o last BY DEF LinesOf
<1> HIDE DEF first, then, last
<1>16. first \o then \in Seq(L) /\ (first \o then) \o last \in Seq(L) BY <1>11
<1>17. After("mdstat", s, first \o then) = s3 BY <1>11, <1>12, <1>13, AfterBoth
<1>18. After("mdstat", s, (first \o then) \o last) = s3
    <2> DEFINE both == first \o then
    <2>1. both \in Seq(L) /\ last \in Seq(L) /\ After("mdstat", s, both) = s3 BY <1>11, <1>16, <1>17
    <2> HIDE DEF both
    <2>2. After("mdstat", s, both \o last) = s3 BY <2>1, <1>14, AfterBoth
    <2> QED BY <2>2 DEF both
<1> QED BY <1>10, <1>15, <1>16, <1>18 DEF L

(* Each array is read once, whatever the order in which they are listed.   *)
LEMMA MdstatIsRead ==
    ASSUME NEW S, IsFiniteSet(S), \A a \in S : IsArray(a)
    PROVE  \E parsed : /\ ParseMdstat(MdstatOf(SetToSeq(S))) = {parsed[a] : a \in S}
                       /\ \A a \in S : IsRead(parsed[a], a)
<1> DEFINE order == SetToSeq(S)
           n == Cardinality(S)
           L == MdLines(S)
           seqs == [i \in DOMAIN order |-> LinesOf(order[i])]
           one == <<OtherLine("Personalities")>>
           end == <<OtherLine("unused devices")>>
           all == FlattenSeq(seqs)
<1>1. order \in [1..n -> S] /\ \A i, j \in 1..n : i # j => order[i] # order[j]
    BY SetInOrder
<1>2. n \in Nat /\ \A a \in S : \E i \in 1..n : order[i] = a
    <2> HIDE DEF order
    <2> QED BY <1>1, OrderHasAll
<1>3. MdstatOf(order) = (one \o all) \o end
    BY Zenon DEF MdstatOf, LinesOf
<1> HIDE DEF order, n
<1>4. seqs \in Seq(Seq(L)) /\ Len(seqs) = n /\ \A i \in 1..n : seqs[i] = LinesOf(order[i])
    <2>1. \A i \in 1..n : LinesOf(order[i]) \in Seq(L) BY <1>1, ArrayIsRead
    <2>2. DOMAIN order = 1..n BY <1>1
    <2> HIDE DEF L
    <2> QED BY <1>2, <2>1, <2>2
<1>5. one \in Seq(L) /\ end \in Seq(L) BY DEF MdLines
<1> HIDE DEF seqs, L
<1>6. PICK g : /\ all \in Seq(L) /\ g[0] = Unread
               /\ After("mdstat", Unread, all) = g[n]
               /\ \A i \in 1..n : g[i] = After("mdstat", g[i - 1], seqs[i])
    <2>1. seqs \in Seq(Seq(L)) BY <1>4
    <2>2. /\ FlattenSeq(seqs) \in Seq(L)
          /\ \E g : /\ g[0] = Unread /\ After("mdstat", Unread, FlattenSeq(seqs)) = g[Len(seqs)]
                    /\ \A i \in 1..Len(seqs) : g[i] = After("mdstat", g[i - 1], seqs[i])
        BY <2>1, AfterFlattened
    <2> QED BY <2>2, <1>4
<1>7. After("mdstat", Unread, one) = Unread BY OtherLinesAreSkipped
<1>8. After("mdstat", g[n], end) = g[n] BY OtherLinesAreSkipped
<1> HIDE DEF one, end, all
<1>9. MdstatOf(order) \in Seq(L) /\ After("mdstat", Unread, MdstatOf(order)) = g[n]
    <2> DEFINE both == one \o all
    <2>1. both \in Seq(L) BY <1>5, <1>6
    <2>2. After("mdstat", Unread, both) = g[n] BY <1>5, <1>6, <1>7, AfterBoth
    <2> HIDE DEF both
    <2>3. After("mdstat", Unread, both \o end) = g[n] /\ both \o end \in Seq(L)
        BY <1>5, <1>8, <2>1, <2>2, AfterBoth
    <2> QED BY <2>3, <1>3 DEF both
<1>10. ParseMdstat(MdstatOf(order)) = Flushed(g[n])
    <2>1. Len(MdstatOf(order)) \in Nat BY <1>9
    <2> QED BY <2>1, <1>9, ParseMdstatIs
<1>11. ASSUME NEW i \in 1..n
       PROVE  /\ IsRead(g[i].current, order[i])
              /\ Flushed(g[i]) = Flushed(g[i - 1]) \cup {g[i].current}
    <2>1. order[i] \in S /\ IsArray(order[i]) BY <1>1
    <2>2. g[i] = After("mdstat", g[i - 1], LinesOf(order[i])) BY <1>4, <1>6
    <2>3. g[i].done = Flushed(g[i - 1]) /\ IsRead(g[i].current, order[i])
        <3> DEFINE a == order[i]
                   s == g[i - 1]
        <3>1. a \in S /\ IsArray(a) BY <2>1
        <3> HIDE DEF a, s
        <3>2. After("mdstat", s, LinesOf(a)).done = Flushed(s)
              /\ IsRead(After("mdstat", s, LinesOf(a)).current, a)
            BY <3>1, ArrayIsRead
        <3> QED BY <3>2, <2>2 DEF a, s
    <2>4. g[i].current # NoArray
        <3>1. NoArray.name = "" BY DEF NoArray
        <3>2. order[i].name # "" BY <2>1 DEF IsArray
        <3> QED BY <3>1, <3>2, <2>3 DEF IsRead, Has
    <2> QED BY <2>3, <2>4 DEF Flushed
<1>12. Flushed(g[n]) = {g[i].current : i \in 1..n}
    <2> DEFINE T == {k \in 0..n : Flushed(g[k]) = {g[i].current : i \in 1..k}}
    <2>1. 0 \in T
        <3>1. Flushed(Unread) = {} BY DEF Flushed, Unread
        <3>2. {g[i].current : i \in 1..0} = {} OBVIOUS
        <3>3. 0 \in 0..n BY <1>2
        <3> QED BY <3>1, <3>2, <3>3, <1>6
    <2>2. ASSUME NEW k \in 1..n, k - 1 \in T PROVE k \in T
        <3>1. Flushed(g[k]) = {g[i].current : i \in 1..(k - 1)} \cup {g[k].current} BY <2>2, <1>11
        <3>2. \A i : i \in 1..k <=> i \in 1..(k - 1) \/ i = k BY <1>2
        <3>3. {g[i].current : i \in 1..k} = {g[i].current : i \in 1..(k - 1)} \cup {g[k].current}
            BY <3>2
        <3>4. k \in 0..n BY <1>2
        <3> QED BY <3>1, <3>3, <3>4
    <2> HIDE DEF T
    <2>3. 0..n \subseteq T BY <1>2, <2>1, <2>2, OneByOne
    <2>4. n \in T BY <1>2, <2>3
    <2> QED BY <2>4 DEF T
<1> DEFINE at1(a) == CHOOSE i \in 1..n : order[i] = a
           parsed == [a \in S |-> g[at1(a)].current]
<1>13. \A a \in S : at1(a) \in 1..n /\ order[at1(a)] = a BY <1>2
<1>14. \A i \in 1..n : at1(order[i]) = i BY <1>1, <1>13
<1> HIDE DEF at1
<1>15. \A a \in S : IsRead(parsed[a], a) BY <1>11, <1>13
<1>16. {parsed[a] : a \in S} = {g[i].current : i \in 1..n}
    <2>1. \A a \in S : parsed[a] = g[at1(a)].current OBVIOUS
    <2>2. \A i \in 1..n : order[i] \in S /\ parsed[order[i]] = g[i].current BY <1>1, <1>14
    <2> HIDE DEF parsed
    <2> QED BY <2>1, <2>2, <1>13
<1> HIDE DEF parsed
<1> QED BY <1>10, <1>12, <1>15, <1>16 DEF order

LEMMA TwoTogether ==
    ASSUME NEW x, NEW y PROVE <<x>> \o <<y>> = <<x, y>>
<1> DEFINE T == {x, y}
           c == <<x>> \o <<y>>
           d == <<x, y>>
<1>1. <<x>> \in Seq(T) /\ <<y>> \in Seq(T) /\ d \in Seq(T) OBVIOUS
<1>2. c \in Seq(T) /\ Len(c) = 2 /\ c[1] = x /\ c[2] = y BY <1>1, ConcatProperties
<1>3. Len(d) = 2 /\ d[1] = x /\ d[2] = y OBVIOUS
<1> HIDE DEF c, d, T
<1>4. Len(c) = Len(d) /\ \A i \in 1..Len(c) : c[i] = d[i] BY <1>2, <1>3
<1>5. c = d BY <1>1, <1>2, <1>4, SeqEqual
<1> QED BY <1>5 DEF c, d

LEMMA ThreeTogether ==
    ASSUME NEW x, NEW y, NEW z PROVE <<x, y>> \o <<z>> = <<x, y, z>>
<1> DEFINE T == {x, y, z}
           c == <<x, y>> \o <<z>>
           d == <<x, y, z>>
<1>1. <<x, y>> \in Seq(T) /\ <<z>> \in Seq(T) /\ d \in Seq(T) OBVIOUS
<1>2. c \in Seq(T) /\ Len(c) = 3 /\ c[1] = x /\ c[2] = y /\ c[3] = z BY <1>1, ConcatProperties
<1>3. Len(d) = 3 /\ d[1] = x /\ d[2] = y /\ d[3] = z OBVIOUS
<1> HIDE DEF c, d, T
<1>4. Len(c) = Len(d) /\ \A i \in 1..Len(c) : c[i] = d[i] BY <1>2, <1>3
<1>5. c = d BY <1>1, <1>2, <1>4, SeqEqual
<1> QED BY <1>5 DEF c, d

LEMMA WordsTogether ==
    ASSUME NEW x, NEW y, NEW z
    PROVE  /\ (<<x>> \o <<>>) \o <<>> = <<x>> /\ (<<x>> \o <<y>>) \o <<>> = <<x, y>>
           /\ (<<x>> \o <<>>) \o <<z>> = <<x, z>> /\ (<<x>> \o <<y>>) \o <<z>> = <<x, y, z>>
<1>1. <<x>> \o <<>> = <<x>> OBVIOUS
<1>2. <<x>> \o <<y>> = <<x, y>> BY TwoTogether
<1>3. <<x, y>> \o <<>> = <<x, y>> OBVIOUS
<1>4. <<x>> \o <<z>> = <<x, z>> BY TwoTogether
<1>5. <<x, y>> \o <<z>> = <<x, y, z>> BY ThreeTogether
<1> QED BY <1>1, <1>2, <1>3, <1>4, <1>5

(* The state is read of any array, no others than its members, and all of  *)
(* them of one that is active.                                             *)
LEMMA WordsAreRead ==
    ASSUME NEW a, IsArray(a)
    PROVE  LET words == ArrayLine(a).words
           IN  /\ words[1].text = a.state
               /\ MembersAmong(words) \subseteq {MemberWord(a.members[i]) : i \in DOMAIN a.members}
               /\ a.state = "active" =>
                     MembersAmong(words) = {MemberWord(a.members[i]) : i \in DOMAIN a.members}
<1> DEFINE words == ArrayLine(a).words
           W == {Word(a.state), Word("(auto-read-only)"), Word(a.level)}
                \cup {MemberWord(a.members[i]) : i \in DOMAIN a.members}
           n == Len(a.members)
           members == [i \in DOMAIN a.members |-> MemberWord(a.members[i])]
           note == IF a.readonly THEN <<Word("(auto-read-only)")>> ELSE <<>>
           level == IF a.state = "active" THEN <<Word(a.level)>> ELSE <<>>
           start == <<Word(a.state)>>
           before == (start \o note) \o level
<1>1. n \in Nat /\ DOMAIN a.members = 1..n
    <2> DEFINE M == [device : STRING, flag : STRING]
    <2>1. a.members \in Seq(M) BY DEF IsArray
    <2> HIDE DEF M
    <2> QED BY <2>1
<1>2. members \in Seq(W) /\ Len(members) = n /\ \A i \in 1..n : members[i] = MemberWord(a.members[i])
    <2> HIDE DEF n
    <2> QED BY <1>1
<1>3. words = before \o members BY Zenon DEF ArrayLine
<1>4. Word(a.state).text = a.state BY DEF Word
<1>5. \E k \in Nat : /\ before \in Seq(W) /\ Len(before) = k /\ k \in 1..3 /\ before[1] = Word(a.state)
                     /\ a.state = "active" => k \in 2..3
                     /\ \A i \in 1..k : before[i].kind = "word"
    <2>1. \A text : Word(text).kind = "word" BY DEF Word
    <2>2. Word(a.state) \in W /\ Word("(auto-read-only)") \in W /\ Word(a.level) \in W OBVIOUS
    <2> DEFINE x == Word(a.state)
               y == Word("(auto-read-only)")
               z == Word(a.level)
    <2>3. x.kind = "word" /\ y.kind = "word" /\ z.kind = "word" BY <2>1
    <2> HIDE DEF W, x, y, z
    <2>4. <<x>> \in Seq(W) /\ <<x, y>> \in Seq(W) /\ <<x, z>> \in Seq(W) /\ <<x, y, z>> \in Seq(W)
        BY <2>2 DEF x, y, z
    <2>5. \/ before = <<x>> /\ a.state # "active"
          \/ before = <<x, y>> /\ a.state # "active"
          \/ before = <<x, z>>
          \/ before = <<x, y, z>>
        <3>1. start = <<x>> BY DEF x
        <3>2. note = <<y>> \/ note = <<>> BY DEF y
        <3>3. (level = <<z>> /\ a.state = "active") \/ (level = <<>> /\ a.state # "active") BY DEF z
        <3>4. /\ (<<x>> \o <<>>) \o <<>> = <<x>> /\ (<<x>> \o <<y>>) \o <<>> = <<x, y>>
              /\ (<<x>> \o <<>>) \o <<z>> = <<x, z>> /\ (<<x>> \o <<y>>) \o <<z>> = <<x, y, z>>
            BY WordsTogether
        <3> HIDE DEF start, note, level
        <3> QED BY <3>1, <3>2, <3>3, <3>4
    <2> HIDE DEF before
    <2>6. CASE before = <<x>> /\ a.state # "active"
        <3>1. before \in Seq(W) /\ Len(before) = 1 /\ before[1] = x /\ \A i \in 1..1 : before[i].kind = "word"
            BY <2>6, <2>4, <2>3
        <3> QED BY <3>1, <2>6 DEF x
    <2>7. CASE before = <<x, y>> /\ a.state # "active"
        <3>1. /\ before \in Seq(W) /\ Len(before) = 2 /\ before[1] = x
              /\ \A i \in 1..2 : before[i].kind = "word"
            BY <2>7, <2>4, <2>3
        <3> QED BY <3>1, <2>7 DEF x
    <2>8. CASE before = <<x, z>>
        <3>1. /\ before \in Seq(W) /\ Len(before) = 2 /\ before[1] = x
              /\ \A i \in 1..2 : before[i].kind = "word"
            BY <2>8, <2>4, <2>3
        <3> QED BY <3>1 DEF x
    <2>9. CASE before = <<x, y, z>>
        <3>1. before \in Seq(W) /\ Len(before) = 3 /\ before[1] = x BY <2>9, <2>4
        <3>2. before[1] = x /\ before[2] = y /\ before[3] = z BY <2>9
        <3>3. \A i \in 1..3 : before[i].kind = "word" BY <3>2, <2>3
        <3> QED BY <3>1, <3>3 DEF x
    <2> QED BY <2>5, <2>6, <2>7, <2>8, <2>9
<1> HIDE DEF words, members, before, n, W
<1>6. PICK k \in Nat : /\ before \in Seq(W) /\ Len(before) = k /\ k \in 1..3 /\ before[1] = Word(a.state)
                       /\ a.state = "active" => k \in 2..3
                       /\ \A i \in 1..k : before[i].kind = "word"
    BY <1>5
<1>7. /\ Len(words) = k + n
      /\ \A i \in 1..k : words[i] = before[i]
      /\ \A i \in 1..n : words[k + i] = members[i]
    BY <1>1, <1>2, <1>3, <1>6
<1>8. words[1].text = a.state BY <1>4, <1>6, <1>7
<1> DEFINE found == {j \in 3..Len(words) : words[j].kind = "member"}
<1>9. MembersAmong(words) = {words[j] : j \in found} BY DEF MembersAmong
<1>10. \A j \in found : \E i \in 1..n : words[j] = MemberWord(a.members[i])
    <2>1. SUFFICES ASSUME NEW j \in 3..Len(words), words[j].kind = "member"
                   PROVE  \E i \in 1..n : words[j] = MemberWord(a.members[i])
        OBVIOUS
    <2>2. j \notin 1..k BY <2>1, <1>6, <1>7
    <2>3. j - k \in 1..n /\ k + (j - k) = j BY <2>2, <1>1, <1>6, <1>7
    <2> QED BY <2>3, <1>2, <1>7
<1>11. ASSUME a.state = "active"
       PROVE  {MemberWord(a.members[i]) : i \in DOMAIN a.members} \subseteq MembersAmong(words)
    <2>1. \A m : MemberWord(m).kind = "member" BY DEF MemberWord
    <2>2. ASSUME NEW i \in 1..n
          PROVE  k + i \in 3..Len(words) /\ words[k + i] = MemberWord(a.members[i])
        BY <1>1, <1>2, <1>6, <1>7, <1>11
    <2>3. \A i \in 1..n : k + i \in found /\ words[k + i] = MemberWord(a.members[i]) BY <2>1, <2>2
    <2> HIDE DEF found
    <2> QED BY <2>3, <1>1, <1>9
<1> HIDE DEF found
<1>12. MembersAmong(words) \subseteq {MemberWord(a.members[i]) : i \in DOMAIN a.members}
    BY <1>1, <1>9, <1>10
<1> QED BY <1>8, <1>11, <1>12 DEF words

(* What the views ask of an array is as it is on the host.                 *)
IsArrayOf(c, a) ==
    /\ c.name = a.name /\ c.state = a.state /\ c.progress = a.progress
    /\ Devices(c) \subseteq MembersOf(a)
    /\ a.state = "active" =>
          /\ Devices(c) = MembersOf(a)
          /\ Missing(c) <=> \E i \in DOMAIN a.slots : ~a.slots[i]
          /\ Flagged(c) <=> \E i \in DOMAIN a.members : a.members[i].flag = "(F)"

LEMMA ReadIsArrayOf ==
    ASSUME NEW a, IsArray(a), NEW c, IsRead(c, a)
    PROVE  IsArrayOf(c, a)
<1>1. /\ c.name = a.name /\ c.state = ArrayLine(a).words[1].text /\ c.progress = a.progress
      /\ c.members = MembersAmong(ArrayLine(a).words)
      /\ c.total = FindSlotPair(StatusLine(a))[1] /\ c.present = FindSlotPair(StatusLine(a))[2]
      /\ c.down = FindMemberState(StatusLine(a))
    BY DEF IsRead, Has
<1>2. c.state = a.state BY <1>1, WordsAreRead
<1>3. Devices(c) \subseteq MembersOf(a)
    <2>1. c.members \subseteq {MemberWord(a.members[i]) : i \in DOMAIN a.members} BY <1>1, WordsAreRead
    <2>2. \A m : MemberWord(m).text = m.device BY DEF MemberWord
    <2> QED BY <2>1, <2>2 DEF Devices, MembersOf
<1>4. ASSUME a.state = "active"
      PROVE  /\ Devices(c) = MembersOf(a)
             /\ Missing(c) <=> \E i \in DOMAIN a.slots : ~a.slots[i]
             /\ Flagged(c) <=> \E i \in DOMAIN a.members : a.members[i].flag = "(F)"
    <2>1. c.members = {MemberWord(a.members[i]) : i \in DOMAIN a.members} BY <1>1, <1>4, WordsAreRead
    <2>2. \A m : MemberWord(m).text = m.device /\ MemberWord(m).flag = m.flag BY DEF MemberWord
    <2>3. Devices(c) = MembersOf(a) BY <2>1, <2>2 DEF Devices, MembersOf
    <2>4. Flagged(c) <=> \E i \in DOMAIN a.members : a.members[i].flag = "(F)"
        BY <2>1, <2>2 DEF Flagged
    <2>5. StatusLine(a).slots = a.slots BY <1>4 DEF StatusLine
    <2>6. c.down <=> \E i \in DOMAIN a.slots : ~a.slots[i] BY <1>1, <2>5 DEF FindMemberState
    <2>7. c.total > 0 /\ c.present < c.total => \E i \in DOMAIN a.slots : ~a.slots[i]
        <3> SUFFICES ASSUME \A i \in DOMAIN a.slots : a.slots[i]
                     PROVE  ~ (c.present < c.total)
            OBVIOUS
        <3>1. a.slots \in Seq(BOOLEAN) BY DEF IsArray
        <3>2. DOMAIN a.slots = 1..Len(a.slots) /\ Len(a.slots) \in Nat BY <3>1
        <3>3. {i \in DOMAIN a.slots : a.slots[i]} = 1..Len(a.slots) BY <3>2
        <3>4. Cardinality(1..Len(a.slots)) = Len(a.slots) BY <3>2, FS_Interval
        <3>5. c.total = Len(a.slots) /\ c.present = Len(a.slots)
            BY <1>1, <2>5, <3>3, <3>4 DEF FindSlotPair
        <3> QED BY <3>2, <3>5
    <2> QED BY <2>3, <2>4, <2>6, <2>7 DEF Missing
<1> QED BY <1>1, <1>2, <1>3, <1>4 DEF IsArrayOf

(* An array is an exception of the screen just when it is unsound, and one *)
(* that does not run is worse than any that does.                          *)
LEMMA ScoreTells ==
    ASSUME NEW a, IsArray(a), NEW c, IsArrayOf(c, a)
    PROVE  /\ Score(c) \in 0..15 /\ (Score(c) > 0 <=> Unsound(a))
           /\ IF a.state = "active" THEN Score(c) <= 7 ELSE Score(c) >= 8
<1>1. Inactive(c) <=> a.state # "active" BY DEF IsArrayOf, Inactive
<1>2. Progressing(c) <=> a.progress # "" BY DEF IsArrayOf, Progressing
<1>3. a.state = "active" => (Unsound(a) <=> (Missing(c) \/ Flagged(c) \/ Progressing(c)))
    BY <1>2 DEF IsArrayOf, Unsound
<1>4. a.state # "active" => Unsound(a) BY DEF Unsound
<1> QED BY <1>1, <1>3, <1>4 DEF Score

(* A list that is not empty has an array that is worst off.                *)
LEMMA WorstExists ==
    ASSUME NEW E, E # {}, \A c \in E : Score(c) \in 0..15
    PROVE  \E c \in E : \A d \in E : Score(d) <= Score(c)
<1> DEFINE T == {15 - Score(c) : c \in E}
<1>1. T \subseteq Nat /\ T # {} OBVIOUS
<1>2. \A c \in E : 15 - Score(c) \in T OBVIOUS
<1>3. \A t \in T : \E c \in E : t = 15 - Score(c) OBVIOUS
<1> HIDE DEF T
<1>4. PICK t \in T : \A u \in T : t <= u BY <1>1, LeastNatural
<1>5. PICK c \in E : t = 15 - Score(c) BY <1>3
<1>6. ASSUME NEW d \in E PROVE Score(d) <= Score(c)
    <2>1. 15 - Score(c) <= 15 - Score(d) BY <1>2, <1>4, <1>5
    <2>2. Score(d) \in 0..15 /\ Score(c) \in 0..15 OBVIOUS
    <2> QED BY <2>1, <2>2
<1> QED BY <1>6

(* What the screen says of the arrays it was given.                        *)
Announces(lines, arrays, sys) ==
    LET unsound == {a \in arrays : Unsound(a)}
    IN  /\ lines = {} <=> unsound = {}
        /\ \A line \in lines : \E array \in unsound :
              /\ line.array = array.name /\ line.progress = array.progress
              /\ line.others = Cardinality(unsound) - 1
              /\ array.state = "active" =>
                    /\ \A other \in unsound : other.state = "active"
                    /\ MembersOf(array) \cap DOMAIN Stems = {} =>
                          LET disks == {Whole(sys, b) : b \in MembersOf(array)}
                          IN  /\ line.affects \subseteq disks
                              /\ line.extra = Cardinality(disks \ line.affects)

(* The disks of an array, if none is one whose name is cut.                *)
LEMMA FoldedMembers ==
    ASSUME NEW a, IsArray(a), MembersOf(a) \cap DOMAIN Stems = {}, NEW sys, sys.stems = Stems
    PROVE  /\ Folded(sys, MembersOf(a)) = {Whole(sys, b) : b \in MembersOf(a)}
           /\ IsFiniteSet(Folded(sys, MembersOf(a)))
<1>1. \A b \in MembersOf(a) : WholeDiskName(sys, b) = Whole(sys, b) BY DEF WholeDiskName
<1>2. Folded(sys, MembersOf(a)) = {Whole(sys, b) : b \in MembersOf(a)} BY <1>1 DEF Folded
<1> DEFINE D == DOMAIN a.members
           F == Folded(sys, MembersOf(a))
           g == [i \in D |-> WholeDiskName(sys, a.members[i].device)]
<1>3. IsFiniteSet(D)
    <2>1. a.members \in Seq([device : STRING, flag : STRING]) BY DEF IsArray
    <2>2. Len(a.members) \in Nat /\ D = 1..Len(a.members) BY <2>1, LenProperties
    <2> QED BY <2>2, FS_Interval
<1>4. F = {WholeDiskName(sys, a.members[i].device) : i \in D} BY DEF Folded, MembersOf
<1> HIDE DEF F, D
<1>5. g \in Surjection(D, F) BY <1>4 DEF Surjection
<1> HIDE DEF g
<1>6. IsFiniteSet(F) BY <1>3, <1>5, FS_Surjection
<1> QED BY <1>2, <1>6 DEF F

LEMMA ArraysAreAnnounced ==
    ASSUME NEW S, IsFiniteSet(S), \A a \in S : IsArray(a),
           \A a, b \in S : a.name = b.name => a = b,
           NEW parsed, \A a \in S : IsArrayOf(parsed[a], a), NEW sys, sys.stems = Stems
    PROVE  Announces(MdExceptionSummary(sys, {parsed[a] : a \in S}), S, sys)
<1> DEFINE unsound == {a \in S : Unsound(a)}
           listed == {parsed[a] : a \in S}
           E == {c \in listed : Score(c) > 0}
           first == CHOOSE c \in E : \A d \in E : Score(d) <= Score(c)
           said == MdExceptionSummary(sys, listed)
           affected == Folded(sys, Devices(first))
           L == [array |-> first.name, progress |-> first.progress,
                 affects |-> FirstOf(AffectedShown, affected),
                 extra |-> LeftOut(AffectedShown, affected), others |-> Cardinality(E) - 1]
<1>1. said = IF E = {} THEN {} ELSE {L}
    BY Zenon DEF MdExceptionSummary
<1>2. \A a \in S : /\ Score(parsed[a]) \in 0..15 /\ (Score(parsed[a]) > 0 <=> Unsound(a))
                   /\ IF a.state = "active" THEN Score(parsed[a]) <= 7 ELSE Score(parsed[a]) >= 8
    BY ScoreTells
<1>3. E = {parsed[a] : a \in unsound} BY <1>2
<1>4. \A a, b \in S : parsed[a] = parsed[b] => a = b BY DEF IsArrayOf
<1>5. Cardinality(E) = Cardinality(unsound)
    <2> DEFINE f == [a \in unsound |-> parsed[a]]
    <2>1. IsFiniteSet(unsound) BY FS_Subset
    <2>2. f \in [unsound -> E] /\ \A a \in unsound : f[a] = parsed[a] BY <1>3
    <2>3. \A a, b \in unsound : f[a] = f[b] => a = b BY <2>2, <1>4
    <2>4. \A c \in E : \E a \in unsound : f[a] = c BY <2>2, <1>3
    <2> HIDE DEF f, E, unsound
    <2>5. f \in Bijection(unsound, E) BY <2>2, <2>3, <2>4 DEF Bijection, Injection, Surjection, IsInjective
    <2> QED BY <2>1, <2>5, FS_Bijection DEF ExistsBijection
<1> HIDE DEF said, listed
<1>6. ASSUME NEW line \in said
      PROVE  \E array \in unsound :
                    /\ line.array = array.name /\ line.progress = array.progress
                    /\ line.others = Cardinality(unsound) - 1
                    /\ array.state = "active" =>
                          /\ \A other \in unsound : other.state = "active"
                          /\ MembersOf(array) \cap DOMAIN Stems = {} =>
                                LET disks == {Whole(sys, b) : b \in MembersOf(array)}
                                IN  /\ line.affects \subseteq disks
                                    /\ line.extra = Cardinality(disks \ line.affects)
    <2>1. E # {} BY <1>1, <1>6
    <2>2. line = L
        <3> HIDE DEF L, E
        <3> QED BY <1>1, <1>6, <2>1
    <2>20. /\ line.array = first.name /\ line.progress = first.progress
           /\ line.others = Cardinality(E) - 1
           /\ line.affects = FirstOf(AffectedShown, affected)
           /\ line.extra = LeftOut(AffectedShown, affected)
        <3> HIDE DEF affected, first, E
        <3> QED BY <2>2
    <2>3. first \in E /\ \A d \in E : Score(d) <= Score(first)
        <3>1. \A c \in E : Score(c) \in 0..15 BY <1>2, <1>3
        <3> HIDE DEF E
        <3>2. \E c \in E : \A d \in E : Score(d) <= Score(c) BY <2>1, <3>1, WorstExists
        <3> QED BY <3>2
    <2> HIDE DEF first, E, L
    <2>4. PICK a \in unsound : first = parsed[a] BY <2>3, <1>3
    <2>5. a \in S /\ IsArrayOf(first, a) BY <2>4
    <2>6. /\ line.array = a.name /\ line.progress = a.progress
          /\ line.others = Cardinality(unsound) - 1
        BY <2>20, <2>5, <1>5 DEF IsArrayOf
    <2>7. ASSUME a.state = "active"
          PROVE  /\ \A other \in unsound : other.state = "active"
                 /\ Devices(first) = MembersOf(a)
        <3>1. Devices(first) = MembersOf(a) BY <2>5, <2>7 DEF IsArrayOf
        <3>2. ASSUME NEW other \in unsound PROVE other.state = "active"
            <4>1. other \in S /\ parsed[other] \in E BY <1>3
            <4>2. Score(parsed[other]) <= Score(parsed[a]) BY <4>1, <2>3, <2>4
            <4>3. Score(parsed[a]) <= 7 /\ Score(parsed[a]) \in 0..15 BY <2>5, <2>7, <1>2
            <4>4. Score(parsed[other]) \in 0..15 BY <4>1, <1>2
            <4> QED BY <4>1, <4>2, <4>3, <4>4, <1>2
        <3> QED BY <3>1, <3>2
    <2> DEFINE disks == {Whole(sys, b) : b \in MembersOf(a)}
    <2>8. ASSUME a.state = "active", MembersOf(a) \cap DOMAIN Stems = {}
          PROVE  line.affects \subseteq disks /\ line.extra = Cardinality(disks \ line.affects)
        <3>1. affected = Folded(sys, MembersOf(a)) BY <2>7, <2>8
        <3>2. Folded(sys, MembersOf(a)) = disks /\ IsFiniteSet(Folded(sys, MembersOf(a)))
            BY <2>5, <2>8, FoldedMembers
        <3> HIDE DEF affected, disks
        <3>3. affected = disks /\ IsFiniteSet(disks) BY <3>1, <3>2
        <3> QED BY <3>3, <2>20, ShownAssumption, CutOf
    <2> QED BY <2>6, <2>7, <2>8
<1>7. said = {} <=> unsound = {}
    <2>1. E = {} <=> unsound = {} BY <1>3
    <2> HIDE DEF E, unsound, first, L
    <2> QED BY <1>1, <2>1
<1>8. Announces(said, S, sys) BY <1>6, <1>7, Zenon DEF Announces
<1> QED BY <1>8 DEF said, listed

-----------------------------------------------------------------------------
(* zpool: the places of vdevs.  A new one is below the same places as the  *)
(* one it is cut from.                                                     *)
LEMMA PlaceBelow ==
    ASSUME NEW path \in Seq(Nat), NEW d \in 0..Len(path), NEW c \in Nat
    PROVE  LET parent == SubSeq(path, 1, d)
               place == Append(parent, c)
           IN  /\ parent \in Seq(Nat) /\ Len(parent) = d
               /\ place \in Seq(Nat) /\ Len(place) = d + 1 /\ place[d + 1] = c
               /\ SubSeq(place, 1, d) = parent /\ SubSeq(place, 1, d + 1) = place
               /\ \A k \in 0..d : SubSeq(place, 1, k) = SubSeq(path, 1, k)
<1> DEFINE parent == SubSeq(path, 1, d)
           place == Append(parent, c)
<1>1. parent \in Seq(Nat) /\ Len(parent) = d /\ \A i \in 1..d : parent[i] = path[i] OBVIOUS
<1> HIDE DEF parent
<1>2. /\ place \in Seq(Nat) /\ Len(place) = d + 1 /\ place[d + 1] = c
      /\ \A i \in 1..d : place[i] = parent[i]
    BY <1>1
<1> HIDE DEF place
<1>3. ASSUME NEW k \in 0..d PROVE SubSeq(place, 1, k) = SubSeq(path, 1, k)
    <2> DEFINE s == SubSeq(place, 1, k)
               t == SubSeq(path, 1, k)
    <2>1. s \in Seq(Nat) /\ Len(s) = k /\ \A i \in 1..k : s[i] = place[i] BY <1>2
    <2>2. t \in Seq(Nat) /\ Len(t) = k /\ \A i \in 1..k : t[i] = path[i] OBVIOUS
    <2>3. \A i \in 1..k : place[i] = path[i] BY <1>1, <1>2
    <2> HIDE DEF s, t
    <2>4. s = t BY <2>1, <2>2, <2>3, SeqEqual
    <2> QED BY <2>4 DEF s, t
<1>4. SubSeq(place, 1, d) = parent
    <2>1. d \in 0..d OBVIOUS
    <2> QED BY <2>1, <1>3 DEF parent
<1>5. SubSeq(place, 1, d + 1) = place BY <1>2, SubSeqFull
<1> QED BY <1>1, <1>2, <1>3, <1>4, <1>5 DEF place, parent

(* The vdevs that have been put into the tree of a pool so far: whatever is*)
(* below a place is below all its prefixes, numbers do not skip, only      *)
(* groups have anything below them, and a group has, unless it was the last*)
(* vdev to come.                                                           *)
Siblings(tree, d, parent) == {p \in DOMAIN tree : Len(p) = d + 1 /\ SubSeq(p, 1, d) = parent}
IsForest(tree, path) ==
    /\ IsFiniteSet(DOMAIN tree) /\ DOMAIN tree \subseteq Seq(Nat) \ {<<>>}
    /\ path \in (DOMAIN tree) \cup {<<>>}
    /\ \A p \in DOMAIN tree : \A k \in 1..Len(p) : SubSeq(p, 1, k) \in DOMAIN tree
    /\ \A p \in DOMAIN tree :
          p[Len(p)] <= Cardinality(Siblings(tree, Len(p) - 1, SubSeq(p, 1, Len(p) - 1)))
    /\ \A p, q \in DOMAIN tree : IsUnder(q, p) => tree[p].type # ""
    /\ \A p \in DOMAIN tree :
          tree[p].type # "" => p = path \/ \E q \in DOMAIN tree : IsUnder(q, p)
(* A vdev goes below the last one just when that is a group.               *)
GoesBelow(tree, path, d) ==
    path # <<>> => (tree[path].type # "" <=> d = Len(path))
GrownBy(tree, next, d, vdev) ==
    /\ IsForest(next.tree, next.path)
    /\ next.path \in DOMAIN next.tree /\ Len(next.path) = d + 1
    /\ next.tree[next.path] = vdev
    /\ {next.tree[p] : p \in DOMAIN next.tree} = {tree[p] : p \in DOMAIN tree} \cup {vdev}

LEMMA InsertGrows ==
    ASSUME NEW tree, NEW path, IsForest(tree, path), NEW d \in 0..Len(path), NEW vdev,
           GoesBelow(tree, path, d)
    PROVE  GrownBy(tree, Insert(tree, path, d, vdev), d, vdev)
<1> DEFINE parent == SubSeq(path, 1, d)
           siblings == Siblings(tree, d, parent)
           c == Cardinality(siblings) + 1
           place == Append(parent, c)
           grown == [p \in DOMAIN tree \cup {place} |-> IF p = place THEN vdev ELSE tree[p]]
           next == Insert(tree, path, d, vdev)
<1>1. /\ IsFiniteSet(DOMAIN tree) /\ DOMAIN tree \subseteq Seq(Nat) \ {<<>>}
      /\ path \in (DOMAIN tree) \cup {<<>>}
      /\ \A p \in DOMAIN tree : \A k \in 1..Len(p) : SubSeq(p, 1, k) \in DOMAIN tree
      /\ \A p \in DOMAIN tree :
            p[Len(p)] <= Cardinality(Siblings(tree, Len(p) - 1, SubSeq(p, 1, Len(p) - 1)))
      /\ \A p, q \in DOMAIN tree : IsUnder(q, p) => tree[p].type # ""
      /\ \A p \in DOMAIN tree :
            tree[p].type # "" => p = path \/ \E q \in DOMAIN tree : IsUnder(q, p)
    BY DEF IsForest
<1>2. /\ path \in Seq(Nat) /\ Len(path) \in Nat /\ d \in Nat /\ d <= Len(path)
      /\ path # <<>> => path \in DOMAIN tree
      /\ d > 0 => path \in DOMAIN tree
    <2>0. DOMAIN tree \subseteq Seq(Nat) /\ path \in (DOMAIN tree) \cup {<<>>} BY <1>1
    <2>1. path \in Seq(Nat)
        <3>1. <<>> \in Seq(Nat) OBVIOUS
        <3> QED BY <3>1, <2>0
    <2>2. Len(path) \in Nat BY <2>1
    <2>3. path = <<>> => Len(path) = 0 OBVIOUS
    <2>4. d \in Nat /\ d <= Len(path) BY <2>2
    <2>5. path # <<>> => path \in DOMAIN tree BY <2>0
    <2>6. d > 0 => path # <<>> BY <2>2, <2>3, <2>4
    <2> QED BY <2>1, <2>2, <2>4, <2>5, <2>6
<1>3. siblings \subseteq DOMAIN tree /\ IsFiniteSet(siblings) /\ Cardinality(siblings) \in Nat
    <2>1. siblings \subseteq DOMAIN tree BY DEF Siblings
    <2> QED BY <2>1, <1>1, FS_Subset, FS_CardinalityType
<1>4. /\ c \in Nat /\ parent \in Seq(Nat) /\ Len(parent) = d
      /\ place \in Seq(Nat) /\ Len(place) = d + 1 /\ place[d + 1] = c
      /\ SubSeq(place, 1, d) = parent /\ SubSeq(place, 1, d + 1) = place
      /\ \A k \in 0..d : SubSeq(place, 1, k) = SubSeq(path, 1, k)
    <2>1. c \in Nat BY <1>3
    <2> HIDE DEF c
    <2> QED BY <2>1, <1>2, PlaceBelow
<1>5. next = [tree |-> grown, path |-> place]
    <2>1. ~ (d > Len(path)) BY <1>2
    <2> QED BY <2>1, Zenon DEF Insert, Siblings
<1>6. place \notin DOMAIN tree
    <2>1. ASSUME place \in DOMAIN tree PROVE FALSE
        <3>1. place[Len(place)] <= Cardinality(Siblings(tree, Len(place) - 1, SubSeq(place, 1, Len(place) - 1)))
            BY <2>1, <1>1
        <3>2. Len(place) = d + 1 /\ Len(place) - 1 = d BY <1>2, <1>4
        <3>3. c <= Cardinality(siblings) BY <3>1, <3>2, <1>4
        <3> QED BY <3>3, <1>3
    <2> QED BY <2>1
<1> HIDE DEF place, parent, siblings, next
<1>7. /\ DOMAIN grown = DOMAIN tree \cup {place} /\ grown[place] = vdev
      /\ \A p \in DOMAIN tree : grown[p] = tree[p]
    BY <1>6
<1> HIDE DEF grown
<1>8. \A p \in DOMAIN tree : p \in Seq(Nat) /\ p # <<>> /\ Len(p) \in Nat /\ Len(p) >= 1
    <2> SUFFICES ASSUME NEW p \in DOMAIN tree PROVE p \in Seq(Nat) /\ p # <<>> /\ Len(p) \in Nat /\ Len(p) >= 1
        OBVIOUS
    <2>1. p \in Seq(Nat) /\ p # <<>> BY <1>1
    <2> QED BY <2>1
<1>9. IsFiniteSet(DOMAIN grown) BY <1>1, <1>7, FS_AddElement
<1>10. ASSUME NEW p \in DOMAIN grown, NEW k \in 1..Len(p)
       PROVE  SubSeq(p, 1, k) \in DOMAIN grown
    <2>1. CASE p \in DOMAIN tree BY <2>1, <1>1, <1>7
    <2>2. CASE p = place
        <3>1. k \in 1..(d + 1) BY <2>2, <1>4
        <3>2. CASE k = d + 1
            <4>1. SubSeq(p, 1, k) = place BY <3>2, <2>2, <1>4
            <4> QED BY <4>1, <1>7
        <3>3. CASE k # d + 1
            <4>1. k \in 0..d /\ d > 0 /\ k \in 1..Len(path) BY <3>1, <3>3, <1>2
            <4>2. SubSeq(p, 1, k) = SubSeq(path, 1, k) BY <4>1, <2>2, <1>4
            <4> QED BY <4>1, <4>2, <1>1, <1>2, <1>7
        <3> QED BY <3>2, <3>3
    <2> QED BY <2>1, <2>2, <1>7
<1>11. ASSUME NEW p \in DOMAIN grown
       PROVE  p[Len(p)] <= Cardinality(Siblings(grown, Len(p) - 1, SubSeq(p, 1, Len(p) - 1)))
    <2> DEFINE e == Len(p) - 1
               over == SubSeq(p, 1, e)
    <2>1. Siblings(tree, e, over) \subseteq Siblings(grown, e, over)
        BY <1>7 DEF Siblings
    <2>2. IsFiniteSet(Siblings(grown, e, over))
        <3>1. Siblings(grown, e, over) \in SUBSET DOMAIN grown BY DEF Siblings
        <3> QED BY <3>1, <1>9, FS_Subset
    <2>3. CASE p \in DOMAIN tree
        <3>1. p[Len(p)] <= Cardinality(Siblings(tree, e, over)) BY <2>3, <1>1
        <3>2. /\ Cardinality(Siblings(tree, e, over)) <= Cardinality(Siblings(grown, e, over))
              /\ IsFiniteSet(Siblings(tree, e, over))
            BY <2>1, <2>2, FS_Subset
        <3>3. Cardinality(Siblings(tree, e, over)) \in Nat /\ Cardinality(Siblings(grown, e, over)) \in Nat
            BY <3>2, <2>2, FS_CardinalityType
        <3>4. p[Len(p)] \in Nat
            <4>1. p \in Seq(Nat) /\ Len(p) \in 1..Len(p) BY <2>3, <1>8
            <4> QED BY <4>1, ElementOfSeq
        <3> QED BY <3>1, <3>2, <3>3, <3>4
    <2>4. CASE p = place
        <3>1. Len(p) = d + 1 /\ e = d BY <2>4, <1>2, <1>4
        <3>2. over = parent BY <3>1, <2>4, <1>4
        <3>3. Siblings(grown, e, over) = siblings \cup {place}
            BY <3>1, <3>2, <1>4, <1>7 DEF Siblings, siblings
        <3>4. place \notin siblings BY <1>3, <1>6
        <3>5. Cardinality(siblings \cup {place}) = c BY <3>4, <1>3, FS_AddElement
        <3>6. p[Len(p)] = c BY <3>1, <2>4, <1>4
        <3>7. Cardinality(Siblings(grown, e, over)) = c BY <3>3, <3>5
        <3> HIDE DEF c
        <3> QED BY <3>6, <3>7, <1>4
    <2> QED BY <2>3, <2>4, <1>7
<1>12. ASSUME NEW p \in DOMAIN grown, NEW q \in DOMAIN grown, IsUnder(q, p)
       PROVE  grown[p].type # ""
    <2>1. CASE p \in DOMAIN tree /\ q \in DOMAIN tree BY <2>1, <1>1, <1>7, <1>12
    <2>2. CASE p \in DOMAIN tree /\ q = place
        <3>1. Len(p) < d + 1 /\ SubSeq(place, 1, Len(p)) = p BY <2>2, <1>4, <1>12 DEF IsUnder
        <3>2. Len(p) \in 0..d /\ Len(p) >= 1 /\ d > 0 BY <3>1, <2>2, <1>2, <1>8
        <3>3. p = SubSeq(path, 1, Len(p)) /\ path \in DOMAIN tree /\ path # <<>>
            BY <3>1, <3>2, <1>1, <1>2, <1>4
        <3>4. CASE Len(p) = Len(path)
            <4>1. p = path BY <3>3, <3>4, <1>2, SubSeqFull
            <4>2. d = Len(path) BY <3>2, <3>4, <1>2
            <4>3. tree[path].type # "" BY <4>2, <3>3 DEF GoesBelow
            <4> QED BY <4>1, <4>3, <2>2, <1>7
        <3>5. CASE Len(p) # Len(path)
            <4>1. Len(p) < Len(path) BY <3>2, <3>5, <1>2
            <4>2. IsUnder(path, p) BY <4>1, <3>3 DEF IsUnder
            <4> QED BY <4>2, <3>3, <2>2, <1>1, <1>7
        <3> QED BY <3>4, <3>5
    <2>3. CASE p = place /\ q \in DOMAIN tree
        <3>1. d + 1 < Len(q) /\ SubSeq(q, 1, d + 1) = place BY <2>3, <1>4, <1>12 DEF IsUnder
        <3>2. d + 1 \in 1..Len(q) BY <3>1, <2>3, <1>2, <1>8
        <3> QED BY <3>1, <3>2, <2>3, <1>1, <1>6
    <2>4. CASE p = place /\ q = place
        <3>1. Len(place) < Len(place) BY <2>4, <1>12 DEF IsUnder
        <3>2. Len(place) \in Nat BY <1>2, <1>4
        <3>3. FALSE BY <3>1, <3>2
        <3> QED BY <3>3
    <2> QED BY <2>1, <2>2, <2>3, <2>4, <1>7
<1>13. ASSUME NEW p \in DOMAIN grown, grown[p].type # "", p # place
       PROVE  \E q \in DOMAIN grown : IsUnder(q, p)
    <2>1. p \in DOMAIN tree /\ tree[p].type # "" BY <1>7, <1>13
    <2>2. CASE p = path
        <3>1. d = Len(path) BY <2>1, <2>2, <1>8 DEF GoesBelow
        <3>2. SubSeq(place, 1, d) = path
            <4>1. d \in 0..d BY <1>2
            <4>2. SubSeq(path, 1, d) = path BY <3>1, <1>2, SubSeqFull
            <4> QED BY <4>1, <4>2, <1>4
        <3>3. IsUnder(place, p) BY <3>1, <3>2, <2>2, <1>2, <1>4 DEF IsUnder
        <3> QED BY <3>3, <1>7
    <2>3. CASE \E q \in DOMAIN tree : IsUnder(q, p) BY <2>3, <1>7
    <2> QED BY <2>1, <2>2, <2>3, <1>1
<1>14. DOMAIN grown \subseteq Seq(Nat) \ {<<>>}
    <2>1. place # <<>> BY <1>2, <1>4
    <2> QED BY <2>1, <1>1, <1>4, <1>7
<1>15. IsForest(grown, place)
    <2>1. place \in (DOMAIN grown) \cup {<<>>} BY <1>7
    <2>2. \A p \in DOMAIN grown : \A k \in 1..Len(p) : SubSeq(p, 1, k) \in DOMAIN grown BY <1>10
    <2>3. \A p, q \in DOMAIN grown : IsUnder(q, p) => grown[p].type # "" BY <1>12
    <2>4. \A p \in DOMAIN grown :
              grown[p].type # "" => p = place \/ \E q \in DOMAIN grown : IsUnder(q, p)
        BY <1>13
    <2>5. \A p \in DOMAIN grown :
              p[Len(p)] <= Cardinality(Siblings(grown, Len(p) - 1, SubSeq(p, 1, Len(p) - 1)))
        BY <1>11
    <2> QED BY <2>1, <2>2, <2>3, <2>4, <2>5, <1>9, <1>14 DEF IsForest
<1>16. {grown[p] : p \in DOMAIN grown} = {tree[p] : p \in DOMAIN tree} \cup {vdev}
    BY <1>7
<1>17. next.tree = grown /\ next.path = place BY <1>5
<1>18. GrownBy(tree, next, d, vdev) BY <1>4, <1>7, <1>15, <1>16, <1>17 DEF GrownBy
<1> QED BY <1>18 DEF next

-----------------------------------------------------------------------------
(* zpool list, as text: a pool as the reader has it after some of its      *)
(* vdevs.                                                                  *)
IsGroup(v) == v.type \in GroupTypes
AsRead(v) == [name |-> v.name, type |-> InferredType(VdevLine(v)), section |-> v.section,
              alloc |-> v.alloc]
SectionBefore(pool, i) == IF i = 1 THEN "data" ELSE pool.vdevs[i - 1].section
HeaderAt(pool, i) ==
    IF pool.vdevs[i].section = SectionBefore(pool, i) THEN <<>> ELSE <<ClassLine(pool.vdevs[i].section)>>
LinesAt(pool, i) == HeaderAt(pool, i) \o <<VdevLine(pool.vdevs[i])>>
StateFields == {"done", "current", "section", "path"}
PoolSoFar(c, pool, path, i) ==
    /\ {"name", "health", "tree"} \subseteq DOMAIN c /\ c.name = pool.name /\ c.health = pool.health
    /\ IsForest(c.tree, path)
    /\ {c.tree[p] : p \in DOMAIN c.tree} = {AsRead(pool.vdevs[j]) : j \in 1..i}
LastPlace(tree, path, pool, i) ==
    IF i = 0 THEN path = <<>>
    ELSE /\ path \in DOMAIN tree /\ Len(path) = pool.vdevs[i].depth + 1
         /\ tree[path] = AsRead(pool.vdevs[i])
HasRead(s, done, pool, i) ==
    /\ DOMAIN s = StateFields /\ s.done = done
    /\ s.section = SectionBefore(pool, i + 1)
    /\ PoolSoFar(s.current, pool, s.path, i)
    /\ LastPlace(s.current.tree, s.path, pool, i)

(* How the vdevs of a pool follow each other.                              *)
LEMMA VdevsOfPool ==
    ASSUME NEW pool, IsPool(pool)
    PROVE  /\ Len(pool.vdevs) \in Nat /\ DOMAIN pool.vdevs = 1..Len(pool.vdevs)
           /\ \A i \in 1..Len(pool.vdevs) : pool.vdevs[i] \in AnyVdev /\ pool.vdevs[i].depth \in Nat
           /\ 1 \in 1..Len(pool.vdevs) => pool.vdevs[1].depth = 0
           /\ \A i \in 2..Len(pool.vdevs) :
                /\ IsGroup(pool.vdevs[i - 1]) => pool.vdevs[i].depth = pool.vdevs[i - 1].depth + 1
                /\ ~IsGroup(pool.vdevs[i - 1]) => pool.vdevs[i].depth <= pool.vdevs[i - 1].depth
                /\ pool.vdevs[i].depth > 0 => pool.vdevs[i].section = pool.vdevs[i - 1].section
<1> DEFINE vdevs == pool.vdevs
<1>1. vdevs \in Seq(AnyVdev) BY DEF IsPool
<1>2. Len(vdevs) \in Nat /\ DOMAIN vdevs = 1..Len(vdevs) BY <1>1
<1>3. \A i \in 1..Len(vdevs) : vdevs[i] \in AnyVdev BY <1>1
<1>4. \A v \in AnyVdev : v.depth \in Nat BY DEF AnyVdev
<1>5. 1 \in 1..Len(vdevs) => vdevs[1].depth = 0
    <2>1. vdevs # <<>> => vdevs[1].depth = 0 BY DEF IsPool
    <2>2. 1 \in 1..Len(vdevs) => vdevs # <<>> BY <1>1
    <2> QED BY <2>1, <2>2
<1>6. \A i \in 2..Len(vdevs) :
        /\ IF vdevs[i - 1].type \in GroupTypes THEN vdevs[i].depth = vdevs[i - 1].depth + 1
           ELSE vdevs[i].depth <= vdevs[i - 1].depth
        /\ vdevs[i].depth > 0 => vdevs[i].section = vdevs[i - 1].section
    BY DEF IsPool
<1> HIDE DEF vdevs
<1> QED BY <1>2, <1>3, <1>4, <1>5, <1>6 DEF vdevs, IsGroup

(* Only groups have a type in the text.                                    *)
LEMMA TypeTellsGroup ==
    ASSUME NEW v
    PROVE  /\ AsRead(v).name = v.name /\ AsRead(v).section = v.section
           /\ AsRead(v).type # "" <=> IsGroup(v)
<1>1. InferredType(VdevLine(v)) = IF v.type \in GroupTypes THEN v.type ELSE ""
    BY DEF InferredType, VdevLine
<1>2. "" \notin GroupTypes BY DEF GroupTypes
<1>3. AsRead(v).type = InferredType(VdevLine(v)) /\ AsRead(v).name = v.name /\ AsRead(v).section = v.section
    BY DEF AsRead
<1> QED BY <1>1, <1>2, <1>3 DEF IsGroup

LEMMA ForestLetGo ==
    ASSUME NEW tree, NEW path, IsForest(tree, path), GoesBelow(tree, path, 0)
    PROVE  IsForest(tree, <<>>)
<1>1. /\ IsFiniteSet(DOMAIN tree) /\ DOMAIN tree \subseteq Seq(Nat) \ {<<>>}
      /\ path \in (DOMAIN tree) \cup {<<>>}
      /\ \A p \in DOMAIN tree : \A k \in 1..Len(p) : SubSeq(p, 1, k) \in DOMAIN tree
      /\ \A p \in DOMAIN tree :
            p[Len(p)] <= Cardinality(Siblings(tree, Len(p) - 1, SubSeq(p, 1, Len(p) - 1)))
      /\ \A p, q \in DOMAIN tree : IsUnder(q, p) => tree[p].type # ""
      /\ \A p \in DOMAIN tree :
            tree[p].type # "" => p = path \/ \E q \in DOMAIN tree : IsUnder(q, p)
    BY DEF IsForest
<1>2. ASSUME path \in DOMAIN tree PROVE tree[path].type = ""
    <2>1. path \in Seq(Nat) /\ path # <<>> BY <1>1, <1>2
    <2>2. Len(path) # 0 BY <2>1
    <2> QED BY <2>1, <2>2 DEF GoesBelow
<1>3. \A p \in DOMAIN tree :
        tree[p].type # "" => p = <<>> \/ \E q \in DOMAIN tree : IsUnder(q, p)
    BY <1>1, <1>2
<1>4. <<>> \in (DOMAIN tree) \cup {<<>>} OBVIOUS
<1> QED BY <1>1, <1>3, <1>4 DEF IsForest

(* The first line of a pool ends the one before it.                        *)
LEMMA PoolLineIsRead ==
    ASSUME NEW pool, NEW s, DOMAIN s = StateFields
    PROVE  HasRead(After("zpool", s, <<PoolLine(pool)>>), Finished(s), pool, 0)
<1> DEFINE c == [name |-> pool.name, health |-> pool.health, tree |-> <<>>]
           t == [s EXCEPT !.done = Finished(s), !.current = c, !.section = "data", !.path = <<>>]
<1>1. After("zpool", s, <<PoolLine(pool)>>) = t
    <2>1. After("zpool", s, <<PoolLine(pool)>>) = ReadLine(s, PoolLine(pool)) BY AfterOne DEF ReadAny
    <2>2. PoolLine(pool).kind = "pool" /\ PoolLine(pool).name = pool.name /\ PoolLine(pool).health = pool.health
        BY DEF PoolLine
    <2>3. ReadLine(s, PoolLine(pool)) = ReadPoolLine(s, PoolLine(pool)) BY <2>2 DEF ReadLine
    <2>4. ReadPoolLine(s, PoolLine(pool)) = t BY <2>2 DEF ReadPoolLine
    <2> QED BY <2>1, <2>3, <2>4
<1>2. DOMAIN t = StateFields /\ t.done = Finished(s) /\ t.section = "data" /\ t.current = c /\ t.path = <<>>
    <2> HIDE DEF c
    <2> QED BY DEF StateFields
<1>3. /\ {"name", "health", "tree"} \subseteq DOMAIN c /\ c.name = pool.name
      /\ c.health = pool.health /\ c.tree = <<>>
    OBVIOUS
<1>4. IsForest(<<>>, <<>>)
    <2>1. DOMAIN <<>> = {} OBVIOUS
    <2> QED BY <2>1, FS_EmptySet DEF IsForest
<1>5. {<<>>[p] : p \in DOMAIN <<>>} = {AsRead(pool.vdevs[j]) : j \in 1..0} OBVIOUS
<1> HIDE DEF c, t
<1>6. PoolSoFar(c, pool, <<>>, 0) BY <1>3, <1>4, <1>5 DEF PoolSoFar
<1>7. SectionBefore(pool, 0 + 1) = "data" BY DEF SectionBefore
<1>8. HasRead(t, Finished(s), pool, 0) BY <1>2, <1>6, <1>7 DEF HasRead, LastPlace
<1> QED BY <1>1, <1>8

(* The line of a section leaves the last vdev, which is not a group.       *)
LEMMA HeaderIsRead ==
    ASSUME NEW pool, IsPool(pool), NEW i \in 1..Len(pool.vdevs), NEW s, NEW done,
           HasRead(s, done, pool, i - 1)
    PROVE  LET t == After("zpool", s, HeaderAt(pool, i))
               d == pool.vdevs[i].depth
           IN  /\ DOMAIN t = StateFields /\ t.done = done /\ t.current = s.current
               /\ t.section = pool.vdevs[i].section
               /\ IsForest(t.current.tree, t.path) /\ d \in 0..Len(t.path)
               /\ GoesBelow(t.current.tree, t.path, d)
<1> DEFINE d == pool.vdevs[i].depth
           tree == s.current.tree
           path == s.path
           v == pool.vdevs[i]
           n == Len(pool.vdevs)
<1>1. n \in Nat /\ d \in Nat BY VdevsOfPool
<1>2. /\ DOMAIN s = StateFields /\ s.done = done /\ s.section = SectionBefore(pool, (i - 1) + 1)
      /\ PoolSoFar(s.current, pool, path, i - 1) /\ LastPlace(tree, path, pool, i - 1)
    BY DEF HasRead
<1>3. IsForest(tree, path) BY <1>2 DEF PoolSoFar
<1>4. CASE i = 1
    <2>1. d = 0 /\ path = <<>> BY <1>2, <1>4, VdevsOfPool DEF LastPlace
    <2>2. Len(path) = 0 BY <2>1
    <2>3. d \in 0..Len(path) /\ GoesBelow(tree, path, d) /\ IsForest(tree, <<>>) /\ GoesBelow(tree, <<>>, d)
        BY <2>1, <2>2, <1>3 DEF GoesBelow
    <2>4. s.section = SectionBefore(pool, i) BY <1>2, <1>4
    <2>5. CASE v.section = SectionBefore(pool, i)
        <3>1. After("zpool", s, HeaderAt(pool, i)) = s BY <2>5, AfterNothing DEF HeaderAt
        <3> QED BY <3>1, <2>3, <2>4, <2>5, <1>2, <1>3
    <2>6. CASE v.section # SectionBefore(pool, i)
        <3> DEFINE t == [s EXCEPT !.section = v.section, !.path = <<>>]
        <3>1. After("zpool", s, HeaderAt(pool, i)) = t
            <4>1. HeaderAt(pool, i) = <<ClassLine(v.section)>> BY <2>6 DEF HeaderAt
            <4>2. ReadLine(s, ClassLine(v.section)) = t BY DEF ReadLine, ReadClassLine, ClassLine
            <4>3. After("zpool", s, <<ClassLine(v.section)>>) = ReadLine(s, ClassLine(v.section))
                BY AfterOne DEF ReadAny
            <4> QED BY <4>1, <4>2, <4>3
        <3>2. DOMAIN t = StateFields /\ t.done = s.done /\ t.current = s.current /\ t.section = v.section /\ t.path = <<>>
            <4> HIDE DEF v
            <4> QED BY <1>2 DEF StateFields
        <3> HIDE DEF t
        <3> QED BY <3>1, <3>2, <2>1, <2>2, <2>3, <1>2
    <2> QED BY <2>5, <2>6
<1>5. CASE i # 1
    <2> DEFINE w == pool.vdevs[i - 1]
    <2>1. i \in 2..n /\ i - 1 \in 1..n /\ i - 1 # 0 /\ (i - 1) + 1 = i
        <3> HIDE DEF n
        <3> QED BY <1>1, <1>5 DEF n
    <2>2. /\ path \in DOMAIN tree /\ Len(path) = w.depth + 1 /\ tree[path] = AsRead(w)
        BY <1>2, <2>1 DEF LastPlace
    <2>3. w.depth \in Nat BY <2>1, VdevsOfPool
    <2>4. /\ IsGroup(w) => d = w.depth + 1
          /\ ~IsGroup(w) => d <= w.depth
          /\ d > 0 => v.section = w.section
        BY <2>1, VdevsOfPool
    <2>5. tree[path].type # "" <=> IsGroup(w) BY <2>2, TypeTellsGroup
    <2> HIDE DEF d, tree, path, w, n
    <2>6. d \in 0..Len(path) /\ GoesBelow(tree, path, d)
        <3>1. Len(path) = w.depth + 1 BY <2>2
        <3>2. CASE IsGroup(w)
            <4>1. d = w.depth + 1 BY <2>4, <3>2
            <4>2. tree[path].type # "" BY <2>5, <3>2
            <4>3. GoesBelow(tree, path, d) BY <3>1, <4>1, <4>2 DEF GoesBelow
            <4>4. d \in 0..Len(path) BY <3>1, <4>1, <1>1
            <4> QED BY <4>3, <4>4
        <3>3. CASE ~IsGroup(w)
            <4>1. d <= w.depth BY <2>4, <3>3
            <4>2. tree[path].type = "" BY <2>5, <3>3
            <4>3. d # Len(path) /\ d \in 0..Len(path) BY <3>1, <4>1, <2>3, <1>1
            <4>4. GoesBelow(tree, path, d) BY <4>2, <4>3 DEF GoesBelow
            <4> QED BY <4>3, <4>4
        <3> QED BY <3>2, <3>3
    <2>7. SectionBefore(pool, i) = w.section /\ s.section = w.section
        BY <1>2, <1>5, <2>1 DEF SectionBefore, w
    <2>8. CASE v.section = w.section
        <3>1. After("zpool", s, HeaderAt(pool, i)) = s BY <2>7, <2>8, AfterNothing DEF HeaderAt
        <3> QED BY <3>1, <2>6, <2>7, <2>8, <1>2, <1>3 DEF d, tree, path
    <2>9. CASE v.section # w.section
        <3> DEFINE t == [s EXCEPT !.section = v.section, !.path = <<>>]
        <3>1. After("zpool", s, HeaderAt(pool, i)) = t
            <4>1. HeaderAt(pool, i) = <<ClassLine(v.section)>> BY <2>7, <2>9 DEF HeaderAt
            <4>2. ReadLine(s, ClassLine(v.section)) = t BY DEF ReadLine, ReadClassLine, ClassLine
            <4>3. After("zpool", s, <<ClassLine(v.section)>>) = ReadLine(s, ClassLine(v.section))
                BY AfterOne DEF ReadAny
            <4> QED BY <4>1, <4>2, <4>3
        <3>2. DOMAIN t = StateFields /\ t.done = s.done /\ t.current = s.current /\ t.section = v.section /\ t.path = <<>>
            <4> HIDE DEF v
            <4> QED BY <1>2 DEF StateFields
        <3>3. d = 0 BY <2>4, <2>9, <1>1
        <3>4. IsForest(tree, <<>>) BY <3>3, <2>6, <1>3, ForestLetGo
        <3>5. Len(<<>>) = 0 /\ GoesBelow(tree, <<>>, d) BY DEF GoesBelow
        <3> HIDE DEF t
        <3> QED BY <3>1, <3>2, <3>3, <3>4, <3>5, <1>2 DEF d, tree
    <2> QED BY <2>8, <2>9
<1> QED BY <1>4, <1>5

(* The line of a vdev puts it where it is.                                 *)
LEMMA VdevIsRead ==
    ASSUME NEW pool, IsPool(pool), NEW i \in 1..Len(pool.vdevs), NEW s, NEW done,
           HasRead(s, done, pool, i - 1)
    PROVE  HasRead(After("zpool", s, LinesAt(pool, i)), done, pool, i)
<1> DEFINE v == pool.vdevs[i]
           d == v.depth
           line == VdevLine(v)
           L == {line, ClassLine(v.section)}
           m == After("zpool", s, HeaderAt(pool, i))
           t == After("zpool", s, LinesAt(pool, i))
<1>1. d \in Nat /\ v \in AnyVdev BY VdevsOfPool
<1>2. /\ DOMAIN m = StateFields /\ m.done = done /\ m.current = s.current
      /\ m.section = v.section
      /\ IsForest(m.current.tree, m.path) /\ d \in 0..Len(m.path)
      /\ GoesBelow(m.current.tree, m.path, d)
    BY HeaderIsRead
<1>3. /\ {"name", "health", "tree"} \subseteq DOMAIN s.current
      /\ s.current.name = pool.name /\ s.current.health = pool.health
      /\ {s.current.tree[p] : p \in DOMAIN s.current.tree} = {AsRead(pool.vdevs[j]) : j \in 1..(i - 1)}
    BY DEF HasRead, PoolSoFar
<1> DEFINE tree == m.current.tree
           vdev == AsRead(v)
           next == Insert(tree, m.path, d, vdev)
<1>4. t = ReadVdevLine(m, line)
    <2>1. HeaderAt(pool, i) \in Seq(L) /\ <<line>> \in Seq(L)
        <3>1. <<>> \in Seq(L) /\ <<line>> \in Seq(L) /\ <<ClassLine(v.section)>> \in Seq(L) OBVIOUS
        <3>2. HeaderAt(pool, i) = <<>> \/ HeaderAt(pool, i) = <<ClassLine(v.section)>> BY DEF HeaderAt
        <3> HIDE DEF L
        <3> QED BY <3>1, <3>2
    <2>2. t = After("zpool", m, <<line>>)
        <3> HIDE DEF L, line
        <3>1. After("zpool", s, HeaderAt(pool, i) \o <<line>>)
                = After("zpool", After("zpool", s, HeaderAt(pool, i)), <<line>>)
            BY <2>1, AfterBoth
        <3> QED BY <3>1 DEF LinesAt, line
    <2>3. line.kind = "vdev" BY DEF VdevLine
    <2> HIDE DEF line, m, t
    <2>4. ReadLine(m, line) = ReadVdevLine(m, line) BY <2>3 DEF ReadLine
    <2> QED BY <2>2, <2>4, AfterOne DEF ReadAny
<1>5. line.indent \div 2 - 1 = d /\ line.name = v.name /\ line.alloc = v.alloc
    <2>1. line.indent = 2 * (d + 1) /\ line.name = v.name /\ line.alloc = v.alloc BY DEF VdevLine
    <2> HIDE DEF line, d
    <2> QED BY <2>1, <1>1
<1>6. [name |-> line.name, type |-> InferredType(line), section |-> m.section, alloc |-> line.alloc] = vdev
    <2> HIDE DEF m, v
    <2> QED BY <1>2, <1>5 DEF AsRead
<1>7. m.current # NoPool
    <2>1. NoPool.name = "" BY DEF NoPool
    <2>2. pool.name # "" BY DEF IsPool
    <2> HIDE DEF m
    <2> QED BY <2>1, <2>2, <1>2, <1>3
<1>8. t = [m EXCEPT !.current.tree = next.tree, !.path = next.path]
    <2>1. t = IF m.current = NoPool THEN m
              ELSE [m EXCEPT !.current.tree = Insert(m.current.tree, m.path, line.indent \div 2 - 1,
                        [name |-> line.name, type |-> InferredType(line), section |-> m.section, alloc |-> line.alloc]).tree,
                    !.path = Insert(m.current.tree, m.path, line.indent \div 2 - 1,
                        [name |-> line.name, type |-> InferredType(line), section |-> m.section, alloc |-> line.alloc]).path]
        BY <1>4 DEF ReadVdevLine
    <2> HIDE DEF m, line, vdev, t
    <2> QED BY <2>1, <1>5, <1>6, <1>7
<1>9. /\ IsForest(next.tree, next.path)
      /\ next.path \in DOMAIN next.tree /\ Len(next.path) = d + 1
      /\ next.tree[next.path] = vdev
      /\ {next.tree[p] : p \in DOMAIN next.tree} = {tree[p] : p \in DOMAIN tree} \cup {vdev}
    <2> DEFINE path == m.path
    <2>1. IsForest(tree, path) /\ d \in 0..Len(path) /\ GoesBelow(tree, path, d) BY <1>2
    <2> HIDE DEF m, vdev, d, tree, path
    <2>2. GrownBy(tree, Insert(tree, path, d, vdev), d, vdev) BY <2>1, InsertGrows
    <2>3. GrownBy(tree, next, d, vdev) BY <2>2 DEF path
    <2> HIDE DEF next
    <2> QED BY <2>3 DEF GrownBy
<1> DEFINE grown == next.tree
           place == next.path
<1> HIDE DEF m, next, t, line, vdev, v
<1>10. /\ DOMAIN t = StateFields /\ t.done = done /\ t.section = v.section /\ t.path = place
       /\ t.current = [m.current EXCEPT !.tree = grown]
    <2> HIDE DEF grown, place
    <2> QED BY <1>2, <1>8 DEF StateFields, grown, place
<1> DEFINE c == m.current
<1>11. /\ {"name", "health", "tree"} \subseteq DOMAIN t.current /\ t.current.name = pool.name
       /\ t.current.health = pool.health /\ t.current.tree = grown
    <2>1. {"name", "health", "tree"} \subseteq DOMAIN c /\ c.name = pool.name /\ c.health = pool.health
        BY <1>2, <1>3
    <2> HIDE DEF c, grown
    <2> QED BY <2>1, <1>10 DEF c
<1>12. {grown[p] : p \in DOMAIN grown} = {AsRead(pool.vdevs[j]) : j \in 1..i}
    <2>1. {grown[p] : p \in DOMAIN grown} = {AsRead(pool.vdevs[j]) : j \in 1..(i - 1)} \cup {vdev}
        <3>1. tree = s.current.tree BY <1>2
        <3> HIDE DEF tree, grown
        <3> QED BY <3>1, <1>3, <1>9 DEF grown
    <2>2. i \in Nat /\ i >= 1 /\ \A j : j \in 1..i <=> j \in 1..(i - 1) \/ j = i
        <3>1. Len(pool.vdevs) \in Nat BY VdevsOfPool
        <3> QED BY <3>1
    <2>3. vdev = AsRead(pool.vdevs[i]) BY DEF vdev, v
    <2> HIDE DEF grown
    <2> QED BY <2>1, <2>2, <2>3
<1>13. PoolSoFar(t.current, pool, t.path, i)
    <2> HIDE DEF grown, place
    <2> QED BY <1>9, <1>10, <1>11, <1>12 DEF PoolSoFar, grown, place
<1>14. i \in Nat /\ i # 0 /\ i + 1 # 1 /\ (i + 1) - 1 = i
    <2>1. Len(pool.vdevs) \in Nat BY VdevsOfPool
    <2> QED BY <2>1
<1>15. LastPlace(t.current.tree, t.path, pool, i)
    <2> HIDE DEF grown, place
    <2> QED BY <1>9, <1>10, <1>11, <1>14 DEF LastPlace, grown, place, vdev, v
<1>16. t.section = SectionBefore(pool, i + 1) BY <1>10, <1>14 DEF SectionBefore, v
<1> HIDE DEF grown, place
<1>17. HasRead(t, done, pool, i) BY <1>10, <1>13, <1>15, <1>16 DEF HasRead
<1> QED BY <1>17 DEF t

(* What iodyne knows of a pool when it has read the list of it: its name,  *)
(* its health, its disks, and which of them have data of it.               *)
HasData(v) == v.section \notin {"cache", "spare"}
DataDisks(pool) ==
    {pool.vdevs[i].name : i \in {j \in DOMAIN pool.vdevs :
                                    pool.vdevs[j].type = "disk" /\ HasData(pool.vdevs[j])}}
LeafNames(t) == {leaf.name : leaf \in Leaves(t)}
IsParse(t, pool) ==
    /\ t.name = pool.name /\ t.health = pool.health
    /\ DataLeaves(t) = DataDisks(pool) /\ LeafNames(t) = PoolDevices(pool)

(* A leaf of the tree is a disk, and every disk is a leaf.                 *)
LEMMA ReadIsParse ==
    ASSUME NEW pool, IsPool(pool), NEW s, NEW done, HasRead(s, done, pool, Len(pool.vdevs))
    PROVE  IsParse(s.current, pool)
<1> DEFINE n == Len(pool.vdevs)
           t == s.current
           tree == t.tree
           path == s.path
<1>1. /\ n \in Nat /\ DOMAIN pool.vdevs = 1..n
      /\ \A i \in 1..n : pool.vdevs[i] \in AnyVdev
    BY VdevsOfPool
<1>2. t.name = pool.name /\ t.health = pool.health BY DEF HasRead, PoolSoFar
<1>3. /\ \A p, q \in DOMAIN tree : IsUnder(q, p) => tree[p].type # ""
      /\ \A p \in DOMAIN tree :
            tree[p].type # "" => p = path \/ \E q \in DOMAIN tree : IsUnder(q, p)
    BY DEF HasRead, PoolSoFar, IsForest
<1>4. {tree[p] : p \in DOMAIN tree} = {AsRead(pool.vdevs[j]) : j \in 1..n}
    BY DEF HasRead, PoolSoFar
<1>5. n # 0 => tree[path] = AsRead(pool.vdevs[n]) /\ n \in 1..n
    BY <1>1 DEF HasRead, LastPlace
<1>6. n # 0 => ~IsGroup(pool.vdevs[n])
    <2>1. ASSUME n # 0 PROVE ~IsGroup(pool.vdevs[n])
        <3>1. pool.vdevs # <<>> BY <2>1
        <3>2. Last(pool.vdevs).type \notin GroupTypes BY <3>1 DEF IsPool
        <3> QED BY <3>2 DEF Last, IsGroup
    <2> QED BY <2>1
<1> DEFINE v(i) == pool.vdevs[i]
           Ends(p) == \A q \in DOMAIN tree : ~IsUnder(q, p)
<1>7. \A i \in 1..n : v(i).type = "disk" <=> ~IsGroup(v(i))
    <2>1. \A w \in AnyVdev : w.type \in GroupTypes \cup {"disk"} BY DEF AnyVdev
    <2>2. "disk" \notin GroupTypes BY DEF GroupTypes
    <2> QED BY <2>1, <2>2, <1>1 DEF IsGroup
<1>8. /\ DataLeaves(t) = {tree[p].name : p \in {q \in DOMAIN tree : Ends(q) /\ HasData(tree[q])}}
      /\ LeafNames(t) = {tree[p].name : p \in {q \in DOMAIN tree : Ends(q)}}
    <2>1. DataLeaves(t) = {tree[p].name : p \in {q \in DOMAIN tree : Ends(q) /\ HasData(tree[q])}}
        BY Zenon DEF DataLeaves, Leaves, LeafPaths, HasData
    <2>2. LeafNames(t) = {tree[p].name : p \in {q \in DOMAIN tree : Ends(q)}}
        BY Zenon DEF LeafNames, Leaves, LeafPaths
    <2> QED BY <2>1, <2>2
<1>9. /\ DataDisks(pool) = {v(i).name : i \in {j \in 1..n : v(j).type = "disk" /\ HasData(v(j))}}
      /\ PoolDevices(pool) = {v(i).name : i \in {j \in 1..n : v(j).type = "disk"}}
    <2>1. DataDisks(pool) = {v(i).name : i \in {j \in 1..n : v(j).type = "disk" /\ HasData(v(j))}}
        BY <1>1, Zenon DEF DataDisks
    <2>2. PoolDevices(pool) = {v(i).name : i \in {j \in 1..n : v(j).type = "disk"}}
        BY <1>1, Zenon DEF PoolDevices
    <2> QED BY <2>1, <2>2
<1>10. \A i \in 1..n : /\ AsRead(v(i)).name = v(i).name
                       /\ HasData(AsRead(v(i))) <=> HasData(v(i))
                       /\ AsRead(v(i)).type # "" <=> IsGroup(v(i))
    BY TypeTellsGroup DEF HasData
<1>11. ASSUME NEW p \in DOMAIN tree, Ends(p)
       PROVE  \E i \in 1..n : /\ v(i).type = "disk" /\ tree[p].name = v(i).name
                              /\ HasData(tree[p]) <=> HasData(v(i))
    <2>1. PICK i \in 1..n : tree[p] = AsRead(v(i)) BY <1>4
    <2>2. ~IsGroup(v(i))
        <3>1. ASSUME IsGroup(v(i)) PROVE FALSE
            <4>1. tree[p].type # "" BY <3>1, <2>1, <1>10
            <4>2. p = path BY <4>1, <1>3, <1>11
            <4>3. n # 0 /\ n \in 1..n /\ tree[p] = AsRead(v(n))
                <5>1. n # 0 BY <1>1
                <5> QED BY <5>1, <4>2, <1>5
            <4>4. IsGroup(v(n)) BY <4>1, <4>3, <1>10
            <4> QED BY <4>3, <4>4, <1>6
        <3> QED BY <3>1
    <2> QED BY <2>1, <2>2, <1>7, <1>10, <1>11
<1>12. ASSUME NEW i \in 1..n, v(i).type = "disk"
       PROVE  \E p \in DOMAIN tree : /\ Ends(p) /\ tree[p].name = v(i).name
                                     /\ HasData(tree[p]) <=> HasData(v(i))
    <2>1. PICK p \in DOMAIN tree : tree[p] = AsRead(v(i)) BY <1>4
    <2>2. ~IsGroup(v(i)) BY <1>7, <1>12
    <2>3. tree[p].type = "" BY <2>1, <2>2, <1>10
    <2>4. Ends(p) BY <2>3, <1>3
    <2> QED BY <2>1, <2>4, <1>10, <1>12
<1>13. DataLeaves(t) = DataDisks(pool) /\ LeafNames(t) = PoolDevices(pool)
    <2> HIDE DEF Ends, v, tree, n
    <2>1. DataLeaves(t) = DataDisks(pool) BY <1>8, <1>9, <1>11, <1>12
    <2>2. LeafNames(t) = PoolDevices(pool) BY <1>8, <1>9, <1>11, <1>12
    <2> QED BY <2>1, <2>2
<1> QED BY <1>2, <1>13 DEF IsParse

ZpoolLines(pools) ==
    {PoolLine(pool) : pool \in pools} \cup {ClassLine(text) : text \in STRING}
    \cup {VdevLine(v) : v \in AnyVdev}

(* All lines of a pool.                                                    *)
LEMMA PoolIsRead ==
    ASSUME NEW pools, NEW pool \in pools, IsPool(pool), NEW s, DOMAIN s = StateFields
    PROVE  /\ TextOf(pool) \in Seq(ZpoolLines(pools))
           /\ HasRead(After("zpool", s, TextOf(pool)), Finished(s), pool, Len(pool.vdevs))
<1> DEFINE L == ZpoolLines(pools)
           n == Len(pool.vdevs)
           seqs == [i \in DOMAIN pool.vdevs |-> LinesAt(pool, i)]
           one == <<PoolLine(pool)>>
           all == FlattenSeq(seqs)
           done == Finished(s)
           s0 == After("zpool", s, one)
<1>1. n \in Nat /\ DOMAIN pool.vdevs = 1..n /\ \A i \in 1..n : pool.vdevs[i] \in AnyVdev
    BY VdevsOfPool
<1>2. TextOf(pool) = one \o all
    BY Zenon DEF TextOf, LinesAt, HeaderAt, SectionBefore
<1>3. \A i \in 1..n : LinesAt(pool, i) \in Seq(L)
    <2> TAKE i \in 1..n
    <2> DEFINE v == pool.vdevs[i]
    <2>1. v \in AnyVdev BY <1>1
    <2>2. v.section \in STRING BY <2>1 DEF AnyVdev
    <2>3. ClassLine(v.section) \in L /\ VdevLine(v) \in L BY <2>1, <2>2 DEF ZpoolLines
    <2> HIDE DEF L
    <2>4. <<>> \in Seq(L) /\ <<ClassLine(v.section)>> \in Seq(L) /\ <<VdevLine(v)>> \in Seq(L) BY <2>3
    <2>5. HeaderAt(pool, i) \in Seq(L) BY <2>4 DEF HeaderAt
    <2> DEFINE h == HeaderAt(pool, i)
               l == <<VdevLine(v)>>
    <2> HIDE DEF h, l
    <2>6. h \o l \in Seq(L) BY <2>4, <2>5 DEF h, l
    <2> QED BY <2>6 DEF LinesAt, h, l
<1>4. seqs \in Seq(Seq(L)) /\ Len(seqs) = n /\ \A i \in 1..n : seqs[i] = LinesAt(pool, i)
    <2> HIDE DEF L, n
    <2> QED BY <1>1, <1>3
<1>5. one \in Seq(L)
    <2>1. PoolLine(pool) \in L BY DEF ZpoolLines
    <2> QED BY <2>1
<1> HIDE DEF L, seqs
<1>6. PICK g : /\ all \in Seq(L) /\ g[0] = s0
               /\ After("zpool", s0, all) = g[n]
               /\ \A i \in 1..n : g[i] = After("zpool", g[i - 1], seqs[i])
    <2> HIDE DEF s0
    <2>1. seqs \in Seq(Seq(L)) BY <1>4
    <2>2. /\ FlattenSeq(seqs) \in Seq(L)
          /\ \E g : /\ g[0] = s0 /\ After("zpool", s0, FlattenSeq(seqs)) = g[Len(seqs)]
                    /\ \A i \in 1..Len(seqs) : g[i] = After("zpool", g[i - 1], seqs[i])
        BY <2>1, AfterFlattened, SMTT(60)
    <2>3. Len(seqs) = n BY <1>4
    <2> HIDE DEF n
    <2> QED BY <2>2, <2>3
<1>7. HasRead(s0, done, pool, 0) BY PoolLineIsRead
<1> HIDE DEF one, all, s0, done
<1>8. After("zpool", s, TextOf(pool)) = g[n] /\ TextOf(pool) \in Seq(L)
    <2>1. one \o all \in Seq(L) BY <1>5, <1>6
    <2>2. After("zpool", s, one \o all) = After("zpool", s0, all) BY <1>5, <1>6, AfterBoth DEF s0
    <2> QED BY <2>1, <2>2, <1>2, <1>6
<1>9. HasRead(g[n], done, pool, n)
    <2> DEFINE T == {k \in 0..n : HasRead(g[k], done, pool, k)}
    <2>1. 0 \in T BY <1>1, <1>6, <1>7
    <2>2. ASSUME NEW k \in 1..n, k - 1 \in T PROVE k \in T
        <3>1. k \in 0..n /\ k \in 1..Len(pool.vdevs) BY <1>1
        <3>2. HasRead(g[k - 1], done, pool, k - 1) BY <2>2
        <3> DEFINE h == g[k - 1]
        <3>3. HasRead(h, done, pool, k - 1) BY <3>2
        <3> HIDE DEF h
        <3>4. HasRead(After("zpool", h, LinesAt(pool, k)), done, pool, k) BY <3>1, <3>3, VdevIsRead
        <3>5. g[k] = After("zpool", h, LinesAt(pool, k)) BY <1>4, <1>6 DEF h
        <3> QED BY <3>1, <3>4, <3>5
    <2> HIDE DEF T, n
    <2>3. 0..n \subseteq T BY <1>1, <2>1, <2>2, OneByOne
    <2>4. n \in T BY <1>1, <2>3
    <2> QED BY <2>4 DEF T
<1> QED BY <1>8, <1>9 DEF L, done

(* What was listed of some pools: one of each, and nothing else.           *)
IsListing(zfs, pools) ==
    \E parsed : zfs = {parsed[pool] : pool \in pools} /\ \A pool \in pools : IsParse(parsed[pool], pool)

LEMMA TextIsRead ==
    ASSUME NEW pools, IsFiniteSet(pools), \A pool \in pools : IsPool(pool), NEW order \in SetToSeqs(pools)
    PROVE  IsListing(ParseText(FlattenSeq([i \in DOMAIN order |-> TextOf(order[i])])), pools)
<1> DEFINE n == Cardinality(pools)
           L == ZpoolLines(pools)
           seqs == [i \in DOMAIN order |-> TextOf(order[i])]
           all == FlattenSeq(seqs)
<1>1. order \in [1..n -> pools] /\ \A i, j \in 1..n : i # j => order[i] # order[j]
    BY DEF SetToSeqs
<1>2. n \in Nat /\ \A pool \in pools : \E i \in 1..n : order[i] = pool
    BY <1>1, OrderHasAll
<1> HIDE DEF n
<1>3. DOMAIN Nowhere = StateFields /\ Finished(Nowhere) = {}
    BY DEF Nowhere, StateFields, Finished
<1>4. seqs \in Seq(Seq(L)) /\ Len(seqs) = n /\ \A i \in 1..n : seqs[i] = TextOf(order[i])
    <2>1. \A i \in 1..n : TextOf(order[i]) \in Seq(L) BY <1>1, <1>3, PoolIsRead
    <2>2. DOMAIN order = 1..n BY <1>1
    <2> HIDE DEF L
    <2> QED BY <1>2, <2>1, <2>2
<1> HIDE DEF seqs, L
<1>5. PICK g : /\ all \in Seq(L) /\ g[0] = Nowhere
               /\ After("zpool", Nowhere, all) = g[n]
               /\ \A i \in 1..n : g[i] = After("zpool", g[i - 1], seqs[i])
    <2>1. seqs \in Seq(Seq(L)) BY <1>4
    <2>2. /\ FlattenSeq(seqs) \in Seq(L)
          /\ \E g : /\ g[0] = Nowhere /\ After("zpool", Nowhere, FlattenSeq(seqs)) = g[Len(seqs)]
                    /\ \A i \in 1..Len(seqs) : g[i] = After("zpool", g[i - 1], seqs[i])
        BY <2>1, AfterFlattened
    <2> QED BY <2>2, <1>4
<1> HIDE DEF all
<1>6. ParseText(all) = Finished(g[n])
    <2>1. Len(all) \in Nat BY <1>5
    <2> QED BY <2>1, <1>5, ParseTextIs
<1>7. ASSUME NEW i \in 1..n, DOMAIN g[i - 1] = StateFields
      PROVE  /\ DOMAIN g[i] = StateFields /\ IsParse(g[i].current, order[i])
             /\ Finished(g[i]) = Finished(g[i - 1]) \cup {g[i].current}
    <2> DEFINE pool == order[i]
               s == g[i - 1]
               t == g[i]
    <2>1. pool \in pools /\ IsPool(pool) /\ DOMAIN s = StateFields BY <1>1, <1>7
    <2>2. t = After("zpool", s, TextOf(pool)) BY <1>4, <1>5
    <2> HIDE DEF pool, s, t
    <2>3. HasRead(t, Finished(s), pool, Len(pool.vdevs)) BY <2>1, <2>2, PoolIsRead
    <2>4. DOMAIN t = StateFields /\ t.done = Finished(s) BY <2>3 DEF HasRead
    <2>5. IsParse(t.current, pool) BY <2>1, <2>3, ReadIsParse
    <2>6. t.current # NoPool
        <3>1. NoPool.name = "" BY DEF NoPool
        <3>2. pool.name # "" BY <2>1 DEF IsPool
        <3> QED BY <3>1, <3>2, <2>5 DEF IsParse
    <2>7. Finished(t) = Finished(s) \cup {t.current} BY <2>4, <2>6 DEF Finished
    <2> QED BY <2>4, <2>5, <2>7 DEF pool, s, t
<1>8. \A k \in 0..n : DOMAIN g[k] = StateFields
    <2> DEFINE T == {k \in 0..n : DOMAIN g[k] = StateFields}
    <2>1. 0 \in T BY <1>2, <1>3, <1>5
    <2>2. ASSUME NEW k \in 1..n, k - 1 \in T PROVE k \in T
        <3>1. k \in 0..n BY <1>2
        <3>2. DOMAIN g[k - 1] = StateFields BY <2>2
        <3> QED BY <3>1, <3>2, <1>7
    <2> HIDE DEF T
    <2>3. 0..n \subseteq T BY <1>2, <2>1, <2>2, OneByOne
    <2> QED BY <2>3 DEF T
<1>9. ASSUME NEW i \in 1..n
      PROVE  IsParse(g[i].current, order[i]) /\ Finished(g[i]) = Finished(g[i - 1]) \cup {g[i].current}
    <2>1. i - 1 \in 0..n BY <1>2
    <2> QED BY <2>1, <1>7, <1>8
<1>10. Finished(g[n]) = {g[i].current : i \in 1..n}
    <2> DEFINE T == {k \in 0..n : Finished(g[k]) = {g[i].current : i \in 1..k}}
    <2>1. 0 \in T
        <3>1. {g[i].current : i \in 1..0} = {} OBVIOUS
        <3>2. 0 \in 0..n BY <1>2
        <3> QED BY <3>1, <3>2, <1>3, <1>5
    <2>2. ASSUME NEW k \in 1..n, k - 1 \in T PROVE k \in T
        <3>1. Finished(g[k]) = {g[i].current : i \in 1..(k - 1)} \cup {g[k].current} BY <2>2, <1>9
        <3>2. \A i : i \in 1..k <=> i \in 1..(k - 1) \/ i = k BY <1>2
        <3>3. {g[i].current : i \in 1..k} = {g[i].current : i \in 1..(k - 1)} \cup {g[k].current}
            BY <3>2
        <3>4. k \in 0..n BY <1>2
        <3> QED BY <3>1, <3>3, <3>4
    <2> HIDE DEF T
    <2>3. 0..n \subseteq T BY <1>2, <2>1, <2>2, OneByOne
    <2>4. n \in T BY <1>2, <2>3
    <2> QED BY <2>4 DEF T
<1> DEFINE at1(pool) == CHOOSE i \in 1..n : order[i] = pool
           parsed == [pool \in pools |-> g[at1(pool)].current]
<1>11. \A pool \in pools : at1(pool) \in 1..n /\ order[at1(pool)] = pool BY <1>2
<1>12. \A i \in 1..n : at1(order[i]) = i BY <1>1, <1>11
<1> HIDE DEF at1
<1>13. \A pool \in pools : IsParse(parsed[pool], pool) BY <1>9, <1>11
<1>14. {parsed[pool] : pool \in pools} = {g[i].current : i \in 1..n}
    <2>1. \A pool \in pools : parsed[pool] = g[at1(pool)].current OBVIOUS
    <2>2. \A i \in 1..n : order[i] \in pools /\ parsed[order[i]] = g[i].current BY <1>1, <1>12
    <2> HIDE DEF parsed
    <2> QED BY <2>1, <2>2, <1>11
<1> HIDE DEF parsed
<1>15. ParseText(all) = {parsed[pool] : pool \in pools} BY <1>6, <1>10, <1>14
<1>16. IsListing(ParseText(all), pools) BY <1>13, <1>15 DEF IsListing
<1> QED BY <1>16 DEF all, seqs

-----------------------------------------------------------------------------
(* zpool list, as JSON: the place of a vdev says which vdevs it is in.     *)
LEMMA LargestNatural ==
    ASSUME NEW m \in Nat, NEW S, S \subseteq 0..m, S # {}
    PROVE  Max(S) \in S /\ \A x \in S : x <= Max(S)
<1> DEFINE U == {k \in 0..m : \A x \in S : x <= k}
<1>1. PICK k \in U : \A l \in U : k <= l
    <2>1. m \in U /\ U \subseteq Nat OBVIOUS
    <2> HIDE DEF U
    <2> QED BY <2>1, LeastNatural
<1>2. k \in S
    <2>1. ASSUME k \notin S PROVE FALSE
        <3>1. \A x \in S : x \in 0..m /\ x <= k /\ x # k BY <2>1
        <3>2. PICK x \in S : x \in 0..m /\ x <= k /\ x # k BY <3>1
        <3>4. k # 0 BY <3>2
        <3>3. k - 1 \in U BY <3>1, <3>4
        <3> QED BY <3>3, <1>1
    <2> QED BY <2>1
<1>3. \E x \in S : \A y \in S : x >= y BY <1>2
<1>4. Max(S) \in S /\ \A y \in S : Max(S) >= y BY <1>3 DEF Max
<1> QED BY <1>4

(* The last vdev of some depth, up to one.                                 *)
LastOf(pool, i, d) == Max({j \in 1..i : pool.vdevs[j].depth = d} \cup {0})
NumberOf(pool, i, d) ==
    Cardinality({j \in (LastOf(pool, i, d - 1) + 1)..LastOf(pool, i, d) : pool.vdevs[j].depth = d})

LEMMA LastOfDepth ==
    ASSUME NEW pool, NEW i \in Nat, NEW d
    PROVE  /\ LastOf(pool, i, d) \in 0..i
           /\ LastOf(pool, i, d) # 0 => pool.vdevs[LastOf(pool, i, d)].depth = d
           /\ \A j \in 1..i : pool.vdevs[j].depth = d => j <= LastOf(pool, i, d)
<1> DEFINE S == {j \in 1..i : pool.vdevs[j].depth = d} \cup {0}
<1>1. S \subseteq 0..i /\ S # {} OBVIOUS
<1>2. LastOf(pool, i, d) = Max(S) BY DEF LastOf
<1>3. Max(S) \in S /\ \A x \in S : x <= Max(S)
    <2> HIDE DEF S
    <2> QED BY <1>1, LargestNatural
<1> DEFINE l == Max(S)
<1>4. /\ l \in 0..i /\ (l # 0 => pool.vdevs[l].depth = d)
      /\ \A j \in 1..i : pool.vdevs[j].depth = d => j <= l
    <2>1. l \in S /\ \A x \in S : x <= l BY <1>3
    <2> HIDE DEF l
    <2> QED BY <2>1
<1> QED BY <1>2, <1>4

LEMMA PlaceIs ==
    ASSUME NEW pool, NEW i
    PROVE  PlaceOf(pool.vdevs, i)
             = [k \in 1..(pool.vdevs[i].depth + 1) |-> NumberOf(pool, i, k - 1)]
BY Zenon DEF PlaceOf, NumberOf, LastOf

(* The depth grows by one at a time, so none is passed over.               *)
LEMMA NoDepthPassed ==
    ASSUME NEW pool, IsPool(pool), NEW i \in 1..Len(pool.vdevs), NEW c \in 1..i, NEW d \in Nat,
           pool.vdevs[c].depth < d, d <= pool.vdevs[i].depth
    PROVE  \E k \in (c + 1)..i : pool.vdevs[k].depth = d
<1> DEFINE n == Len(pool.vdevs)
           D(k) == pool.vdevs[k].depth
<1> SUFFICES ASSUME \A k \in (c + 1)..i : D(k) # d PROVE FALSE
    OBVIOUS
<1>1. n \in Nat /\ \A k \in 1..n : D(k) \in Nat BY VdevsOfPool
<1>2. \A k \in 2..n : D(k) <= D(k - 1) + 1
    <2> TAKE k \in 2..n
    <2>1. k \in 1..n /\ k - 1 \in 1..n
        <3> HIDE DEF n
        <3> QED BY <1>1
    <2>2. D(k) = D(k - 1) + 1 \/ D(k) <= D(k - 1) BY VdevsOfPool
    <2>3. D(k) \in Nat /\ D(k - 1) \in Nat BY <1>1, <2>1
    <2> HIDE DEF D
    <2> QED BY <2>2, <2>3
<1> DEFINE m == i - c
           T == {l \in 0..m : D(c + l) < d}
<1>3. i \in 1..n /\ D(c) < d /\ d <= D(i) /\ \A k \in (c + 1)..i : D(k) # d OBVIOUS
<1> HIDE DEF n, D
<1>4. m \in Nat BY <1>1, <1>3
<1>5. 0 \in T
    <2>1. c + 0 = c BY <1>1, <1>3
    <2> QED BY <2>1, <1>3, <1>4
<1>6. ASSUME NEW l \in 1..m, l - 1 \in T PROVE l \in T
    <2>1. /\ c + l \in 2..n /\ (c + l) - 1 = c + (l - 1) /\ c + l \in (c + 1)..i
          /\ c + l \in 1..n /\ c + (l - 1) \in 1..n
        BY <1>1, <1>3
    <2>2. D(c + (l - 1)) < d BY <1>6
    <2>3. D(c + l) <= D(c + (l - 1)) + 1 BY <2>1, <1>2
    <2>4. D(c + l) # d BY <2>1, <1>3
    <2>5. D(c + l) \in Nat /\ D(c + (l - 1)) \in Nat BY <2>1, <1>1
    <2>6. D(c + l) < d BY <2>2, <2>3, <2>4, <2>5
    <2>7. l \in 0..m BY <1>4
    <2> QED BY <2>6, <2>7
<1> HIDE DEF T
<1>7. 0..m \subseteq T
    <2> HIDE DEF m
    <2> QED BY <1>4, <1>5, <1>6, OneByOne
<1>8. m \in T BY <1>4, <1>7
<1>9. D(c + m) < d BY <1>8 DEF T
<1>10. c + m = i BY <1>1, <1>3
<1>11. D(i) < d BY <1>9, <1>10
<1> QED BY <1>11, <1>1, <1>3

(* What a vdev is in comes before it, deeper and deeper.                   *)
LEMMA LastsAscend ==
    ASSUME NEW pool, IsPool(pool), NEW i \in 1..Len(pool.vdevs), NEW d \in 0..pool.vdevs[i].depth
    PROVE  LastOf(pool, i, d - 1) < LastOf(pool, i, d)
<1> DEFINE n == Len(pool.vdevs)
           D(k) == pool.vdevs[k].depth
           c == LastOf(pool, i, d - 1)
           l == LastOf(pool, i, d)
<1>1. n \in Nat /\ i \in 1..n /\ i \in Nat /\ \A k \in 1..n : D(k) \in Nat BY VdevsOfPool
<1>2. d \in Nat /\ d <= D(i)
    <2>1. D(i) \in Nat BY <1>1
    <2> QED BY <2>1
<1>3. c \in 0..i /\ (c # 0 => D(c) = d - 1) BY <1>1, LastOfDepth
<1>4. l \in 0..i /\ \A j \in 1..i : D(j) = d => j <= l BY <1>1, LastOfDepth
<1>5. 1 \in 1..n => D(1) = 0 BY VdevsOfPool
<1>6. \E k \in 1..i : k > c /\ D(k) = d
    <2>1. CASE c # 0
        <3>1. c \in 1..i /\ D(c) < d
            <4>1. D(c) = d - 1 BY <2>1, <1>3
            <4> HIDE DEF D, c
            <4> QED BY <4>1, <2>1, <1>2, <1>3
        <3>2. \E k \in (c + 1)..i : D(k) = d
            <4>1. c \in 1..i /\ d \in Nat /\ pool.vdevs[c].depth < d /\ d <= pool.vdevs[i].depth
                BY <3>1, <1>2
            <4> HIDE DEF c
            <4> QED BY <4>1, NoDepthPassed
        <3>3. PICK k \in (c + 1)..i : D(k) = d BY <3>2
        <3> HIDE DEF c, D
        <3>4. k \in 1..i /\ k > c BY <1>1, <1>3
        <3> QED BY <3>3, <3>4
    <2>2. CASE c = 0 /\ d = 0
        <3>1. 1 \in 1..i /\ 1 \in 1..n /\ D(1) = d BY <2>2, <1>1, <1>5
        <3> HIDE DEF c, D
        <3>2. 1 > c BY <2>2
        <3> QED BY <3>1, <3>2
    <2>3. CASE c = 0 /\ d # 0
        <3>1. 1 \in 1..i /\ 1 \in 1..n /\ D(1) < d
            <4>1. 1 \in 1..i /\ 1 \in 1..n /\ D(1) = 0 BY <1>1, <1>5
            <4> HIDE DEF D, c
            <4> QED BY <4>1, <2>3, <1>2
        <3>2. \E k \in (1 + 1)..i : D(k) = d
            <4>1. 1 \in 1..i /\ d \in Nat /\ pool.vdevs[1].depth < d /\ d <= pool.vdevs[i].depth
                BY <3>1, <1>2
            <4> QED BY <4>1, NoDepthPassed
        <3>3. PICK k \in (1 + 1)..i : D(k) = d BY <3>2
        <3> HIDE DEF c, D
        <3>4. k \in 1..i /\ k > c BY <2>3, <1>1
        <3> QED BY <3>3, <3>4
    <2> QED BY <2>1, <2>2, <2>3
<1>7. PICK k \in 1..i : k > c /\ D(k) = d BY <1>6
<1>8. k <= l BY <1>4, <1>7
<1> HIDE DEF c, l, D
<1>9. c < l BY <1>3, <1>4, <1>7, <1>8
<1> QED BY <1>9 DEF c, l

(* Numbers tell apart what is in the same vdev.                            *)
LEMMA NumbersDiffer ==
    ASSUME NEW pool, IsPool(pool), NEW i \in 1..Len(pool.vdevs), NEW j \in 1..Len(pool.vdevs),
           NEW d \in 0..pool.vdevs[j].depth,
           LastOf(pool, i, d - 1) = LastOf(pool, j, d - 1),
           LastOf(pool, i, d) < LastOf(pool, j, d)
    PROVE  NumberOf(pool, i, d) # NumberOf(pool, j, d)
<1> DEFINE c == LastOf(pool, j, d - 1)
           a == LastOf(pool, i, d)
           b == LastOf(pool, j, d)
           A == {k \in (c + 1)..a : pool.vdevs[k].depth = d}
           B == {k \in (c + 1)..b : pool.vdevs[k].depth = d}
<1>1. i \in Nat /\ j \in Nat
    <2>1. Len(pool.vdevs) \in Nat BY VdevsOfPool
    <2> QED BY <2>1
<1>2. a \in Nat /\ b \in Nat /\ c \in Nat /\ (b # 0 => pool.vdevs[b].depth = d)
    <2>1. a \in 0..i /\ b \in 0..j /\ c \in 0..j /\ (b # 0 => pool.vdevs[b].depth = d)
        BY <1>1, LastOfDepth
    <2> HIDE DEF a, b, c
    <2> QED BY <2>1, <1>1
<1>3. c < b /\ a < b BY LastsAscend
<1>4. NumberOf(pool, i, d) = Cardinality(A) /\ NumberOf(pool, j, d) = Cardinality(B)
    BY DEF NumberOf
<1> HIDE DEF a, b, c
<1>5. b \in B /\ b \notin A /\ A \subseteq B BY <1>2, <1>3
<1>6. IsFiniteSet(B)
    <2>0. c + 1 \in Int /\ b \in Int BY <1>2
    <2>1. IsFiniteSet((c + 1)..b) BY <2>0, FS_Interval
    <2>2. B \subseteq (c + 1)..b OBVIOUS
    <2> QED BY <2>1, <2>2, FS_Subset
<1> HIDE DEF A, B
<1>7. Cardinality(A) # Cardinality(B)
    <2>1. A # B BY <1>5
    <2> QED BY <2>1, <1>5, <1>6, FS_Subset
<1> QED BY <1>4, <1>7

(* A vdev whose place has the place of another as its first part is in it, *)
(* or is that one.                                                         *)
SameUpTo(pool, i, j, e) == \A d \in 0..e : NumberOf(pool, i, d) = NumberOf(pool, j, d)
LEMMA PlaceTells ==
    ASSUME NEW pool, IsPool(pool), NEW i \in 1..Len(pool.vdevs), NEW j \in 1..Len(pool.vdevs),
           pool.vdevs[i].depth <= pool.vdevs[j].depth,
           SameUpTo(pool, i, j, pool.vdevs[i].depth)
    PROVE  LastOf(pool, j, pool.vdevs[i].depth) = i
<1> DEFINE n == Len(pool.vdevs)
           e == pool.vdevs[i].depth
           f == pool.vdevs[j].depth
           a(d) == LastOf(pool, i, d)
           b(d) == LastOf(pool, j, d)
           T == {d \in 0..e : a(d) = b(d)}
<1>1. /\ n \in Nat /\ i \in 1..n /\ j \in 1..n /\ i \in Nat /\ j \in Nat
      /\ e \in Nat /\ f \in Nat /\ e <= f
      /\ \A k \in 1..n : pool.vdevs[k].depth \in Nat
    <2>1. n \in Nat /\ \A k \in 1..n : pool.vdevs[k].depth \in Nat BY VdevsOfPool
    <2>2. i \in Nat /\ j \in Nat BY <2>1
    <2> QED BY <2>1, <2>2
<1>2. a(-1) = 0 /\ b(-1) = 0
    <2>1. a(-1) \in 0..i /\ (a(-1) # 0 => pool.vdevs[a(-1)].depth = -1) BY <1>1, LastOfDepth
    <2>2. b(-1) \in 0..j /\ (b(-1) # 0 => pool.vdevs[b(-1)].depth = -1) BY <1>1, LastOfDepth
    <2>3. ASSUME NEW k \in 1..n PROVE pool.vdevs[k].depth # -1
        <3>1. pool.vdevs[k].depth \in Nat BY <1>1
        <3> QED BY <3>1
    <2> HIDE DEF a, b, n
    <2>4. (a(-1) # 0 => a(-1) \in 1..n) /\ (b(-1) # 0 => b(-1) \in 1..n) BY <2>1, <2>2, <1>1
    <2> QED BY <2>1, <2>2, <2>3, <2>4
<1>3. ASSUME NEW d \in 0..e, a(d - 1) = b(d - 1) PROVE a(d) = b(d)
    <2>1. d \in 0..f BY <1>1
    <2>2. NumberOf(pool, i, d) = NumberOf(pool, j, d) BY DEF SameUpTo
    <2>3. ~(a(d) < b(d)) BY <2>1, <2>2, <1>3, NumbersDiffer
    <2>4. ~(b(d) < a(d)) BY <2>2, <1>3, NumbersDiffer
    <2>5. a(d) \in 0..i /\ b(d) \in 0..j BY <1>1, LastOfDepth
    <2> HIDE DEF a, b
    <2> QED BY <2>3, <2>4, <2>5, <1>1
<1>4. 0..e \subseteq T
    <2>1. 0 \in T
        <3>1. 0 \in 0..e /\ 0 - 1 = -1 BY <1>1
        <3>2. a(0 - 1) = b(0 - 1) BY <3>1, <1>2
        <3> HIDE DEF a, b
        <3> QED BY <3>1, <3>2, <1>3
    <2>2. ASSUME NEW d \in 1..e, d - 1 \in T PROVE d \in T
        <3>1. d \in 0..e BY <1>1
        <3>2. a(d - 1) = b(d - 1) BY <2>2
        <3> HIDE DEF a, b
        <3> QED BY <3>1, <3>2, <1>3
    <2> HIDE DEF T, e
    <2> QED BY <2>1, <2>2, <1>1, OneByOne
<1>5. e \in T BY <1>1, <1>4
<1>6. a(e) = b(e) BY <1>5
<1>7. a(e) = i
    <2>1. a(e) \in 0..i /\ (i \in 1..i => i <= a(e)) BY <1>1, LastOfDepth
    <2> HIDE DEF a, e
    <2> QED BY <2>1, <1>1
<1> QED BY <1>6, <1>7

(* The places: one for each vdev, below the place of a group, and each with*)
(* the section of the outermost vdev it is in.                             *)
Depth(pool, i) == pool.vdevs[i].depth
LEMMA PlaceHas ==
    ASSUME NEW pool, IsPool(pool), NEW i \in 1..Len(pool.vdevs)
    PROVE  /\ i \in Nat /\ Depth(pool, i) \in Nat
           /\ PlaceOf(pool.vdevs, i) \in Seq(Nat) /\ Len(PlaceOf(pool.vdevs, i)) = Depth(pool, i) + 1
           /\ \A d \in 0..Depth(pool, i) : PlaceOf(pool.vdevs, i)[d + 1] = NumberOf(pool, i, d)
<1> DEFINE e == Depth(pool, i)
           place == PlaceOf(pool.vdevs, i)
<1>1. i \in Nat /\ e \in Nat
    <2>1. Len(pool.vdevs) \in Nat BY VdevsOfPool
    <2>2. i \in Nat BY <2>1
    <2>3. e \in Nat BY VdevsOfPool DEF Depth
    <2> QED BY <2>2, <2>3
<1>2. place = [k \in 1..(e + 1) |-> NumberOf(pool, i, k - 1)] BY PlaceIs DEF Depth
<1>3. ASSUME NEW d \in Int PROVE NumberOf(pool, i, d) \in Nat
    <2> DEFINE c == LastOf(pool, i, d - 1)
               a == LastOf(pool, i, d)
               B == {j \in (c + 1)..a : pool.vdevs[j].depth = d}
    <2>1. c \in 0..i /\ a \in 0..i BY <1>1, LastOfDepth
    <2>2. NumberOf(pool, i, d) = Cardinality(B) BY DEF NumberOf
    <2> HIDE DEF a, c
    <2>3. c + 1 \in Int /\ a \in Int BY <2>1
    <2>4. IsFiniteSet((c + 1)..a) BY <2>3, FS_Interval
    <2>5. B \subseteq (c + 1)..a OBVIOUS
    <2> HIDE DEF B
    <2>6. Cardinality(B) \in Nat BY <2>4, <2>5, FS_Subset, FS_CardinalityType
    <2> QED BY <2>2, <2>6
<1> HIDE DEF e, place
<1>4. place \in Seq(Nat) /\ Len(place) = e + 1
    <2>1. e + 1 \in Nat BY <1>1
    <2>2. \A k \in 1..(e + 1) : NumberOf(pool, i, k - 1) \in Nat
        <3>1. \A k \in 1..(e + 1) : k - 1 \in Int OBVIOUS
        <3> QED BY <3>1, <1>3
    <2> QED BY <2>1, <2>2, <1>2
<1>5. ASSUME NEW d \in 0..e PROVE place[d + 1] = NumberOf(pool, i, d)
    <2>1. d + 1 \in 1..(e + 1) /\ (d + 1) - 1 = d BY <1>1
    <2> DEFINE x == d + 1
    <2>2. x \in 1..(e + 1) /\ x - 1 = d BY <2>1
    <2> HIDE DEF x
    <2>3. place[x] = NumberOf(pool, i, x - 1) BY <2>2, <1>2
    <2> QED BY <2>2, <2>3 DEF x
<1> QED BY <1>1, <1>4, <1>5 DEF e, place

LEMMA PlaceStarts ==
    ASSUME NEW pool, IsPool(pool), NEW i \in 1..Len(pool.vdevs), NEW j \in 1..Len(pool.vdevs),
           Depth(pool, i) <= Depth(pool, j)
    PROVE  SubSeq(PlaceOf(pool.vdevs, j), 1, Depth(pool, i) + 1) = PlaceOf(pool.vdevs, i)
             <=> SameUpTo(pool, i, j, Depth(pool, i))
<1> DEFINE e == Depth(pool, i)
           f == Depth(pool, j)
           p == PlaceOf(pool.vdevs, i)
           q == PlaceOf(pool.vdevs, j)
           s == SubSeq(q, 1, e + 1)
<1>1. /\ e \in Nat /\ p \in Seq(Nat) /\ Len(p) = e + 1
      /\ \A d \in 0..e : p[d + 1] = NumberOf(pool, i, d)
    BY PlaceHas
<1>2. /\ f \in Nat /\ q \in Seq(Nat) /\ Len(q) = f + 1
      /\ \A d \in 0..f : q[d + 1] = NumberOf(pool, j, d)
    BY PlaceHas
<1>3. e <= f OBVIOUS
<1> HIDE DEF e, f, p, q
<1>4. s \in Seq(Nat) /\ Len(s) = e + 1 /\ \A k \in 1..(e + 1) : s[k] = q[k]
    <2> DEFINE m == e + 1
    <2>1. m \in Nat /\ m <= Len(q) /\ q \in Seq(Nat) BY <1>1, <1>2, <1>3
    <2> HIDE DEF m
    <2>2. SubSeq(q, 1, m) \in Seq(Nat) /\ Len(SubSeq(q, 1, m)) = m
          /\ \A k \in 1..m : SubSeq(q, 1, m)[k] = q[k]
        BY <2>1
    <2> QED BY <2>2 DEF m
<1> HIDE DEF s
<1>5. ASSUME s = p PROVE SameUpTo(pool, i, j, e)
    <2> SUFFICES ASSUME NEW d \in 0..e PROVE NumberOf(pool, i, d) = NumberOf(pool, j, d)
        BY DEF SameUpTo
    <2>1. d \in 0..f /\ d + 1 \in 1..(e + 1) BY <1>1, <1>2, <1>3
    <2>2. s[d + 1] = q[d + 1] BY <2>1, <1>4
    <2> QED BY <2>1, <2>2, <1>1, <1>2, <1>5
<1>6. ASSUME SameUpTo(pool, i, j, e) PROVE s = p
    <2>1. ASSUME NEW k \in 1..(e + 1) PROVE s[k] = p[k]
        <3>1. k - 1 \in 0..e /\ k - 1 \in 0..f /\ (k - 1) + 1 = k BY <1>1, <1>2, <1>3
        <3> DEFINE d == k - 1
        <3>2. d \in 0..e /\ d \in 0..f /\ k = d + 1 BY <3>1
        <3> HIDE DEF d
        <3>3. NumberOf(pool, i, d) = NumberOf(pool, j, d) BY <3>2, <1>6 DEF SameUpTo
        <3>4. p[k] = NumberOf(pool, i, d) /\ q[k] = NumberOf(pool, j, d) BY <3>2, <1>1, <1>2
        <3> QED BY <3>3, <3>4, <1>4
    <2> QED BY <2>1, <1>1, <1>4, SeqEqual
<1> QED BY <1>5, <1>6 DEF e, p, s, q

LEMMA OnePlaceEach ==
    ASSUME NEW pool, IsPool(pool), NEW i \in 1..Len(pool.vdevs), NEW j \in 1..Len(pool.vdevs),
           PlaceOf(pool.vdevs, i) = PlaceOf(pool.vdevs, j)
    PROVE  i = j
<1> DEFINE e == Depth(pool, i)
           p == PlaceOf(pool.vdevs, i)
<1>1. e \in Nat /\ Depth(pool, j) \in Nat /\ p \in Seq(Nat)
      /\ Len(p) = e + 1 /\ Len(p) = Depth(pool, j) + 1
    BY PlaceHas
<1>2. e = Depth(pool, j) /\ e <= Depth(pool, j)
    <2> HIDE DEF e, p
    <2> QED BY <1>1
<1>3. SubSeq(PlaceOf(pool.vdevs, j), 1, e + 1) = PlaceOf(pool.vdevs, i)
    <2>1. SubSeq(p, 1, e + 1) = p
        <3> HIDE DEF p, e
        <3> QED BY <1>1, SubSeqFull
    <2> QED BY <2>1
<1>4. SameUpTo(pool, i, j, e) BY <1>2, <1>3, PlaceStarts
<1>5. LastOf(pool, j, e) = i BY <1>2, <1>4, PlaceTells DEF Depth
<1>6. SameUpTo(pool, j, j, e) BY DEF SameUpTo
<1>7. LastOf(pool, j, Depth(pool, j)) = j
    <2>1. SameUpTo(pool, j, j, Depth(pool, j)) BY DEF SameUpTo
    <2>2. Depth(pool, j) <= Depth(pool, j) BY <1>1
    <2> QED BY <2>1, <2>2, PlaceTells DEF Depth
<1> QED BY <1>2, <1>5, <1>7

(* Just the groups have something below them.                              *)
LEMMA UnderGroups ==
    ASSUME NEW pool, IsPool(pool), NEW i \in 1..Len(pool.vdevs)
    PROVE  IsGroup(pool.vdevs[i])
             <=> \E j \in 1..Len(pool.vdevs) :
                    IsUnder(PlaceOf(pool.vdevs, j), PlaceOf(pool.vdevs, i))
<1> DEFINE n == Len(pool.vdevs)
           P(j) == PlaceOf(pool.vdevs, j)
           e == Depth(pool, i)
<1>1. n \in Nat /\ i \in Nat /\ e \in Nat /\ Len(P(i)) = e + 1
    <2>1. n \in Nat BY VdevsOfPool
    <2>2. i \in Nat /\ e \in Nat /\ Len(P(i)) = e + 1 BY PlaceHas
    <2> QED BY <2>1, <2>2
<1>2. ASSUME IsGroup(pool.vdevs[i]) PROVE \E j \in 1..n : IsUnder(P(j), P(i))
    <2>1. i # n
        <3>1. ASSUME i = n PROVE FALSE
            <4>1. pool.vdevs # <<>> BY <3>1
            <4>2. Last(pool.vdevs).type \notin GroupTypes BY <4>1 DEF IsPool
            <4> QED BY <4>2, <3>1, <1>2 DEF Last, IsGroup
        <3> QED BY <3>1
    <2> DEFINE j == i + 1
    <2>2. j \in 2..n /\ j \in 1..n /\ j - 1 = i /\ j \in Nat
        <3>1. i \in 1..n OBVIOUS
        <3> HIDE DEF n
        <3> QED BY <3>1, <2>1, <1>1
    <2> HIDE DEF j
    <2>3. Depth(pool, j) = e + 1 BY <2>2, <1>2, VdevsOfPool DEF Depth
    <2>4. ASSUME NEW d \in -1..e PROVE LastOf(pool, i, d) = LastOf(pool, j, d)
        <3>1. pool.vdevs[j].depth # d
            <4>1. pool.vdevs[j].depth = e + 1 BY <2>3 DEF Depth
            <4> HIDE DEF e
            <4> QED BY <4>1, <1>1
        <3>2. ASSUME NEW k PROVE k \in 1..i /\ pool.vdevs[k].depth = d <=> k \in 1..j /\ pool.vdevs[k].depth = d
            <4>1. k \in 1..j <=> k \in 1..i \/ k = j BY <2>2, <1>1 DEF j
            <4> QED BY <4>1, <3>1
        <3>3. {k \in 1..i : pool.vdevs[k].depth = d} = {k \in 1..j : pool.vdevs[k].depth = d}
            BY <3>2
        <3> QED BY <3>3 DEF LastOf
    <2>5. SameUpTo(pool, i, j, e)
        <3> SUFFICES ASSUME NEW d \in 0..e PROVE NumberOf(pool, i, d) = NumberOf(pool, j, d)
            BY DEF SameUpTo
        <3>1. d \in -1..e /\ d - 1 \in -1..e
            <4> HIDE DEF e
            <4> QED BY <1>1
        <3>2. LastOf(pool, i, d) = LastOf(pool, j, d) /\ LastOf(pool, i, d - 1) = LastOf(pool, j, d - 1)
            BY <3>1, <2>4
        <3> QED BY <3>2 DEF NumberOf
    <2>6. Depth(pool, i) <= Depth(pool, j)
        <3> HIDE DEF e
        <3> QED BY <2>3, <1>1 DEF e
    <2>7. SubSeq(P(j), 1, e + 1) = P(i) BY <2>2, <2>5, <2>6, PlaceStarts
    <2>8. Len(P(j)) = (e + 1) + 1 BY <2>2, <2>3, PlaceHas
    <2>9. IsUnder(P(j), P(i))
        <3> HIDE DEF P, e
        <3> QED BY <2>7, <2>8, <1>1 DEF IsUnder
    <2> QED BY <2>2, <2>9
<1>3. ASSUME NEW j \in 1..n, IsUnder(P(j), P(i)) PROVE IsGroup(pool.vdevs[i])
    <2> DEFINE f == Depth(pool, j)
    <2>1. j \in Nat /\ f \in Nat /\ Len(P(j)) = f + 1 BY PlaceHas
    <2>2. e + 1 < f + 1 /\ SubSeq(P(j), 1, e + 1) = P(i)
        <3> HIDE DEF P, e, f
        <3> QED BY <2>1, <1>1, <1>3 DEF IsUnder
    <2>3. e < f /\ e <= f
        <3> HIDE DEF e, f
        <3> QED BY <2>1, <2>2, <1>1
    <2>4. SameUpTo(pool, i, j, e) BY <2>2, <2>3, PlaceStarts
    <2>5. LastOf(pool, j, e) = i BY <2>3, <2>4, PlaceTells DEF Depth
    <2>6. i \in 0..j /\ \A k \in 1..j : Depth(pool, k) = e => k <= i
        <3>1. LastOf(pool, j, e) \in 0..j /\ \A k \in 1..j : Depth(pool, k) = e => k <= LastOf(pool, j, e)
            BY <2>1, LastOfDepth DEF Depth
        <3> QED BY <3>1, <2>5
    <2>7. i < j
        <3>1. i # j BY <2>3, <2>1
        <3> QED BY <3>1, <2>1, <2>6
    <2> DEFINE c == i + 1
    <2>8. c \in 1..j /\ c \in 2..n /\ c - 1 = i /\ c \in Nat /\ c > i
        <3>1. j \in 1..n /\ i \in 1..n OBVIOUS
        <3> HIDE DEF n
        <3> QED BY <3>1, <2>1, <2>7, <1>1
    <2> HIDE DEF c
    <2>9. ASSUME ~IsGroup(pool.vdevs[i]) PROVE FALSE
        <3>1. Depth(pool, c) <= e BY <2>8, <2>9, VdevsOfPool DEF Depth
        <3>2. c \in 1..n
            <4> HIDE DEF n
            <4> QED BY <2>8, <1>1
        <3>3. Depth(pool, c) \in Nat BY <3>2, PlaceHas
        <3>4. Depth(pool, c) # e
            <4>1. ASSUME Depth(pool, c) = e PROVE FALSE
                <5>1. c <= i BY <4>1, <2>6, <2>8
                <5> QED BY <5>1, <2>8, <1>1
            <4> QED BY <4>1
        <3>5. Depth(pool, c) < e
            <4> HIDE DEF e
            <4> QED BY <3>1, <3>3, <3>4, <1>1
        <3>6. \E k \in (c + 1)..j : Depth(pool, k) = e
            <4>1. /\ c \in 1..j /\ j \in 1..Len(pool.vdevs)
                  /\ pool.vdevs[c].depth < e /\ e <= pool.vdevs[j].depth /\ e \in Nat
                BY <3>5, <2>3, <2>8, <1>1 DEF Depth
            <4> HIDE DEF e
            <4>2. \E k \in (c + 1)..j : pool.vdevs[k].depth = e BY <4>1, NoDepthPassed
            <4> QED BY <4>2 DEF Depth
        <3>7. PICK k \in (c + 1)..j : Depth(pool, k) = e BY <3>6
        <3> HIDE DEF e
        <3>8. k \in 1..j /\ k > i BY <2>1, <2>8, <1>1
        <3>9. k <= i BY <3>7, <3>8, <2>6
        <3>10. k \in Nat BY <3>8, <2>1
        <3> QED BY <3>8, <3>9, <3>10, <1>1
    <2> QED BY <2>9
<1> QED BY <1>2, <1>3

LEMMA OutermostHas ==
    ASSUME NEW pool, IsPool(pool), NEW i \in 1..Len(pool.vdevs)
    PROVE  \E o \in 1..Len(pool.vdevs) :
              /\ SubSeq(PlaceOf(pool.vdevs, i), 1, 1) = PlaceOf(pool.vdevs, o)
              /\ pool.vdevs[o].section = pool.vdevs[i].section
<1> DEFINE n == Len(pool.vdevs)
           o == LastOf(pool, i, 0)
           S(k) == pool.vdevs[k].section
<1>1. n \in Nat /\ i \in Nat /\ Depth(pool, i) \in Nat
    <2>1. n \in Nat BY VdevsOfPool
    <2>2. i \in Nat /\ Depth(pool, i) \in Nat BY PlaceHas
    <2> QED BY <2>1, <2>2
<1>2. /\ o \in 0..i /\ (o # 0 => Depth(pool, o) = 0)
      /\ \A j \in 1..i : Depth(pool, j) = 0 => j <= o
    BY <1>1, LastOfDepth DEF Depth
<1>3. o \in 1..i /\ o \in 1..n /\ Depth(pool, o) = 0
    <2>1. 0 \in 0..pool.vdevs[i].depth BY <1>1 DEF Depth
    <2>2. LastOf(pool, i, 0 - 1) < o BY <2>1, LastsAscend
    <2>3. LastOf(pool, i, 0 - 1) \in 0..i BY <1>1, LastOfDepth
    <2> DEFINE c == LastOf(pool, i, 0 - 1)
    <2>4. c < o /\ c \in 0..i BY <2>2, <2>3
    <2>5. i \in 1..n OBVIOUS
    <2> HIDE DEF o, c, n
    <2> QED BY <2>4, <2>5, <1>1, <1>2
<1> HIDE DEF o
<1>4. SameUpTo(pool, o, i, 0)
    <2>1. LastOf(pool, o, 0) = o
        <3>1. o \in Nat BY <1>1, <1>3
        <3>2. LastOf(pool, o, 0) \in 0..o /\ \A j \in 1..o : Depth(pool, j) = 0 => j <= LastOf(pool, o, 0)
            BY <3>1, LastOfDepth DEF Depth
        <3>3. o \in 1..o BY <3>1, <1>3
        <3>4. o <= LastOf(pool, o, 0) BY <3>2, <3>3, <1>3
        <3> DEFINE l == LastOf(pool, o, 0)
        <3>5. l \in 0..o /\ o <= l BY <3>2, <3>4
        <3> HIDE DEF l
        <3>6. l = o BY <3>5, <3>1
        <3> QED BY <3>6 DEF l
    <2>2. ASSUME NEW k \in Nat, k \in 1..n PROVE LastOf(pool, k, -1) = 0
        <3>1. LastOf(pool, k, -1) \in 0..k /\ (LastOf(pool, k, -1) # 0 => pool.vdevs[LastOf(pool, k, -1)].depth = -1)
            BY LastOfDepth
        <3>2. \A m \in 1..n : pool.vdevs[m].depth \in Nat BY VdevsOfPool
        <3>3. \A m \in 1..n : pool.vdevs[m].depth # -1
            <4> TAKE m \in 1..n
            <4>1. pool.vdevs[m].depth \in Nat BY <3>2
            <4> QED BY <4>1
        <3> DEFINE l == LastOf(pool, k, -1)
        <3>4. l \in 0..k /\ (l # 0 => pool.vdevs[l].depth = -1) BY <3>1
        <3> HIDE DEF l, n
        <3>5. l # 0 => l \in 1..n BY <3>4, <2>2, <1>1
        <3>6. l = 0 BY <3>3, <3>4, <3>5
        <3> QED BY <3>6 DEF l
    <2>3. LastOf(pool, o, -1) = 0 /\ LastOf(pool, i, -1) = 0 BY <2>2, <1>1, <1>3
    <2>4. LastOf(pool, i, 0) = o BY DEF o
    <2>5. NumberOf(pool, o, 0) = NumberOf(pool, i, 0)
        <3>1. 0 - 1 = -1 OBVIOUS
        <3> QED BY <3>1, <2>1, <2>3, <2>4 DEF NumberOf
    <2>6. \A d \in 0..0 : d = 0 OBVIOUS
    <2> QED BY <2>5, <2>6 DEF SameUpTo
<1>5. SubSeq(PlaceOf(pool.vdevs, i), 1, 1) = PlaceOf(pool.vdevs, o)
    <2>1. Depth(pool, o) <= Depth(pool, i) /\ Depth(pool, o) + 1 = 1 BY <1>1, <1>3
    <2>2. SubSeq(PlaceOf(pool.vdevs, i), 1, Depth(pool, o) + 1) = PlaceOf(pool.vdevs, o)
        BY <2>1, <1>3, <1>4, PlaceStarts
    <2> QED BY <2>1, <2>2
<1>6. S(i) = S(o)
    <2> DEFINE m == i - o
               T == {l \in 0..m : S(o + l) = S(o)}
    <2>1. m \in Nat /\ o + m = i /\ o + 0 = o BY <1>1, <1>3
    <2>2. 0 \in T BY <2>1
    <2>3. ASSUME NEW l \in 1..m, l - 1 \in T PROVE l \in T
        <3> DEFINE k == o + l
        <3>1. k \in 2..n /\ k - 1 = o + (l - 1) /\ k \in 1..i /\ k > o /\ k \in 1..n
            <4>1. i \in 1..n OBVIOUS
            <4> HIDE DEF n
            <4> QED BY <4>1, <1>1, <1>3
        <3>2. S(k - 1) = S(o) BY <2>3, <3>1
        <3>3. Depth(pool, k) # 0
            <4>1. ASSUME Depth(pool, k) = 0 PROVE FALSE
                <5>1. k <= o BY <4>1, <3>1, <1>2
                <5> HIDE DEF k
                <5>2. k \in Nat /\ o \in Nat BY <3>1, <1>1, <1>3
                <5> QED BY <5>1, <5>2, <3>1
            <4> QED BY <4>1
        <3>4. Depth(pool, k) \in Nat BY <3>1, PlaceHas
        <3>5. Depth(pool, k) > 0
            <4> HIDE DEF k
            <4> QED BY <3>3, <3>4
        <3>6. S(k) = S(k - 1)
            <4> HIDE DEF k
            <4> QED BY <3>1, <3>5, VdevsOfPool DEF Depth
        <3>7. l \in 0..m
            <4> HIDE DEF m
            <4> QED BY <2>1
        <3> QED BY <3>2, <3>6, <3>7
    <2> HIDE DEF T, m
    <2>4. 0..m \subseteq T BY <2>1, <2>2, <2>3, OneByOne
    <2>5. m \in T BY <2>1, <2>4
    <2>6. S(o + m) = S(o) BY <2>5 DEF T
    <2> HIDE DEF S
    <2> QED BY <2>1, <2>6
<1> QED BY <1>3, <1>5, <1>6

LEMMA JsonIsRead ==
    ASSUME NEW pools, \A pool \in pools : IsPool(pool)
    PROVE  IsListing(ParseJson(pools), pools)
<1> DEFINE P(pool, i) == PlaceOf(pool.vdevs, i)
           VdevAt(pool, p) == pool.vdevs[CHOOSE i \in DOMAIN pool.vdevs : P(pool, i) = p]
           Tree(pool) == [p \in {P(pool, i) : i \in DOMAIN pool.vdevs} |->
                             [name |-> VdevAt(pool, p).name, type |-> VdevAt(pool, p).type,
                              section |-> VdevAt(pool, SubSeq(p, 1, 1)).section, alloc |-> VdevAt(pool, p).alloc]]
           Json(pool) == [name |-> pool.name, health |-> pool.health, tree |-> Tree(pool)]
           parsed == [pool \in pools |-> Json(pool)]
<1>1. ParseJson(pools) = {Json(pool) : pool \in pools} BY Zenon DEF ParseJson
<1>2. \A pool \in pools : parsed[pool] = Json(pool)
    <2> HIDE DEF Json
    <2> QED OBVIOUS
<1>3. ParseJson(pools) = {parsed[pool] : pool \in pools}
    <2> HIDE DEF Json, parsed
    <2> QED BY <1>1, <1>2
<1>4. ASSUME NEW pool \in pools PROVE IsParse(Json(pool), pool)
    <2> DEFINE n == Len(pool.vdevs)
               v(i) == pool.vdevs[i]
               t == Json(pool)
               tree == Tree(pool)
               Ends(p) == \A q \in DOMAIN tree : ~IsUnder(q, p)
    <2>1. IsPool(pool) OBVIOUS
    <2>2. /\ n \in Nat /\ DOMAIN pool.vdevs = 1..n
          /\ \A i \in 1..n : v(i) \in AnyVdev
        BY <2>1, VdevsOfPool
    <2>3. \A i, j \in 1..n : P(pool, i) = P(pool, j) => i = j BY <2>1, OnePlaceEach
    <2>4. ASSUME NEW i \in 1..n PROVE VdevAt(pool, P(pool, i)) = v(i)
        <3> DEFINE k == CHOOSE j \in DOMAIN pool.vdevs : P(pool, j) = P(pool, i)
        <3>1. k \in 1..n /\ P(pool, k) = P(pool, i) BY <2>2
        <3>2. k = i
            <4> HIDE DEF k
            <4> QED BY <3>1, <2>3
        <3> QED BY <3>2
    <2>5. DOMAIN tree = {P(pool, i) : i \in 1..n} BY <2>2
    <2>6. ASSUME NEW i \in 1..n
          PROVE  tree[P(pool, i)].name = v(i).name /\ tree[P(pool, i)].section = v(i).section
        <3> DEFINE p == P(pool, i)
                   first == SubSeq(p, 1, 1)
        <3>1. tree[p] = [name |-> VdevAt(pool, p).name, type |-> VdevAt(pool, p).type,
                         section |-> VdevAt(pool, SubSeq(p, 1, 1)).section, alloc |-> VdevAt(pool, p).alloc]
            <4>1. p \in {P(pool, j) : j \in DOMAIN pool.vdevs} BY <2>2
            <4> HIDE DEF P, p, VdevAt
            <4> QED BY <4>1
        <3>2. PICK o \in 1..n : first = P(pool, o) /\ v(o).section = v(i).section
            BY <2>1, OutermostHas
        <3>3. VdevAt(pool, first) = v(o)
            <4>1. VdevAt(pool, P(pool, o)) = v(o) BY <2>4
            <4> HIDE DEF VdevAt, first, P, v
            <4> QED BY <4>1, <3>2
        <3>4. VdevAt(pool, p) = v(i) BY <2>4
        <3> HIDE DEF VdevAt, Tree, p, P
        <3> QED BY <3>1, <3>2, <3>3, <3>4 DEF p
    <2>7. \A i \in 1..n : Ends(P(pool, i)) <=> ~IsGroup(v(i))
        <3> TAKE i \in 1..n
        <3>1. IsGroup(v(i)) <=> \E j \in 1..n : IsUnder(P(pool, j), P(pool, i)) BY <2>1, UnderGroups
        <3> HIDE DEF P, Tree
        <3> QED BY <3>1, <2>5
    <2>8. \A i \in 1..n : v(i).type = "disk" <=> ~IsGroup(v(i))
        <3>1. \A w \in AnyVdev : w.type \in GroupTypes \cup {"disk"} BY DEF AnyVdev
        <3>2. "disk" \notin GroupTypes BY DEF GroupTypes
        <3> HIDE DEF Tree, P
        <3> QED BY <3>1, <3>2, <2>2 DEF IsGroup
    <2>9. t.name = pool.name /\ t.health = pool.health /\ t.tree = tree
        <3> HIDE DEF Tree
        <3> QED OBVIOUS
    <2> HIDE DEF t, Tree, P
    <2>10. /\ DataLeaves(t) = {tree[p].name : p \in {q \in DOMAIN tree : Ends(q) /\ HasData(tree[q])}}
           /\ LeafNames(t) = {tree[p].name : p \in {q \in DOMAIN tree : Ends(q)}}
        <3>1. DataLeaves(t) = {t.tree[p].name : p \in {q \in DOMAIN t.tree :
                                  (\A r \in DOMAIN t.tree : ~IsUnder(r, q)) /\ HasData(t.tree[q])}}
            BY Zenon DEF DataLeaves, Leaves, LeafPaths, HasData
        <3>2. LeafNames(t) = {t.tree[p].name : p \in {q \in DOMAIN t.tree :
                                  \A r \in DOMAIN t.tree : ~IsUnder(r, q)}}
            BY Zenon DEF LeafNames, Leaves, LeafPaths
        <3> QED BY <3>1, <3>2, <2>9
    <2>11. /\ DataDisks(pool) = {v(i).name : i \in {j \in 1..n : v(j).type = "disk" /\ HasData(v(j))}}
           /\ PoolDevices(pool) = {v(i).name : i \in {j \in 1..n : v(j).type = "disk"}}
        <3>1. DataDisks(pool) = {v(i).name : i \in {j \in 1..n : v(j).type = "disk" /\ HasData(v(j))}}
            BY <2>2, Zenon DEF DataDisks
        <3>2. PoolDevices(pool) = {v(i).name : i \in {j \in 1..n : v(j).type = "disk"}}
            BY <2>2, Zenon DEF PoolDevices
        <3> QED BY <3>1, <3>2
    <2>12. \A i \in 1..n : HasData(tree[P(pool, i)]) <=> HasData(v(i)) BY <2>6 DEF HasData
    <2>13. DataLeaves(t) = DataDisks(pool) /\ LeafNames(t) = PoolDevices(pool)
        <3>1. ASSUME NEW p \in DOMAIN tree, Ends(p)
              PROVE  \E i \in 1..n : /\ v(i).type = "disk" /\ tree[p].name = v(i).name
                                     /\ HasData(tree[p]) <=> HasData(v(i))
            <4>1. PICK i \in 1..n : p = P(pool, i) BY <2>5
            <4> HIDE DEF Ends
            <4> QED BY <4>1, <3>1, <2>6, <2>7, <2>8, <2>12
        <3>2. ASSUME NEW i \in 1..n, v(i).type = "disk"
              PROVE  \E p \in DOMAIN tree : /\ Ends(p) /\ tree[p].name = v(i).name
                                            /\ HasData(tree[p]) <=> HasData(v(i))
            <4>1. P(pool, i) \in DOMAIN tree BY <2>5
            <4> HIDE DEF Ends
            <4> QED BY <4>1, <3>2, <2>6, <2>7, <2>8, <2>12
        <3> HIDE DEF Ends, v, n
        <3>3. DataLeaves(t) = DataDisks(pool) BY <3>1, <3>2, <2>10, <2>11
        <3>4. LeafNames(t) = PoolDevices(pool) BY <3>1, <3>2, <2>10, <2>11
        <3> QED BY <3>3, <3>4
    <2> QED BY <2>9, <2>13 DEF IsParse, t
<1> HIDE DEF Json, parsed
<1>5. \A pool \in pools : IsParse(parsed[pool], pool) BY <1>2, <1>4
<1> QED BY <1>3, <1>5 DEF IsListing

(* Whichever way `zpool' answers, with JSON or, where it is too old for    *)
(* that, with the text of `zpool list -v', `parse_zpool_json' and          *)
(* `parse_zpool_text' list every imported pool under its name, with its    *)
(* health, and the disks, and the disks with data, that they list for it   *)
(* are its own and all its own.                                            *)
THEOREM PoolsAreListed ==
    ASSUME NEW pools, IsFiniteSet(pools), \A pool \in pools : IsPool(pool), NEW zfs \in Listed(pools)
    PROVE  IsListing(zfs, pools)
<1>1. zfs = ParseJson(pools)
      \/ \E order \in SetToSeqs(pools) :
            zfs = ParseText(FlattenSeq([i \in DOMAIN order |-> TextOf(order[i])]))
    BY Zenon DEF Listed
<1>2. CASE zfs = ParseJson(pools) BY <1>2, JsonIsRead
<1>3. CASE \E order \in SetToSeqs(pools) :
            zfs = ParseText(FlattenSeq([i \in DOMAIN order |-> TextOf(order[i])]))
    BY <1>3, TextIsRead
<1> QED BY <1>1, <1>2, <1>3

-----------------------------------------------------------------------------
(* The host is one that can be: everything that is stacked is stacked on   *)
(* something it may be on.                                                 *)
IsStacking(slaves) == \A s \in DOMAIN slaves : s \in DOMAIN Stackings /\ slaves[s] \in Stackings[s]
IsHost(h) ==
    /\ DOMAIN h = {"slaves", "imported", "mounts", "unreadable"}
    /\ IsStacking(h.slaves) /\ h.imported \subseteq PoolsKnown /\ h.mounts \subseteq AllMounts
    /\ Consistent(h)

LEMMA StackingsAre ==
    /\ DOMAIN Stackings = DOMAIN Mapped \cup DOMAIN Arrays
    /\ \A b \in DOMAIN Arrays : Stackings[b] = {MembersOf(array) : array \in Arrays[b]}
<1>1. DOMAIN Mapped \cap DOMAIN Arrays = {} BY HostAssumption
<1>2. DOMAIN Stackings = DOMAIN Mapped \cup DOMAIN Arrays BY DEF Stackings
<1>3. \A b \in DOMAIN Arrays : b \notin DOMAIN Mapped BY <1>1
<1> QED BY <1>2, <1>3 DEF Stackings

(* The arrays that are assembled are those whose members are there.        *)
LEMMA AssembledAre ==
    ASSUME NEW h, IsStacking(h.slaves)
    PROVE  /\ IsFiniteSet(Assembled(h))
           /\ \A a \in Assembled(h) :
                /\ IsArray(a) /\ a.name \in DOMAIN h.slaves \cap DOMAIN Arrays
                /\ MembersOf(a) = h.slaves[a.name]
           /\ \A a, b \in Assembled(h) : a.name = b.name => a = b
<1> DEFINE B == DOMAIN h.slaves \cap DOMAIN Arrays
           A(b) == CHOOSE array \in Arrays[b] : MembersOf(array) = h.slaves[b]
<1>1. ASSUME NEW b \in B PROVE A(b) \in Arrays[b] /\ MembersOf(A(b)) = h.slaves[b]
    <2>1. h.slaves[b] \in Stackings[b] BY DEF IsStacking
    <2>2. \E array \in Arrays[b] : MembersOf(array) = h.slaves[b] BY <2>1, StackingsAre
    <2> QED BY <2>2
<1>2. \A b \in DOMAIN Arrays : \A array \in Arrays[b] : array.name = b /\ IsArray(array)
    BY HostAssumption
<1>3. Assembled(h) = {A(b) : b \in B} BY Zenon DEF Assembled
<1> HIDE DEF A
<1>4. IsFiniteSet(B)
    <2>1. IsFiniteSet(DOMAIN Arrays) BY HostAssumption
    <2> QED BY <2>1, FS_Subset
<1>5. IsFiniteSet({A(b) : b \in B})
    <2> DEFINE g == [b \in B |-> A(b)]
    <2>1. {A(b) : b \in B} = {g[b] : b \in B} OBVIOUS
    <2>2. g \in Surjection(B, {g[b] : b \in B}) BY DEF Surjection
    <2> HIDE DEF g, B
    <2>3. IsFiniteSet({g[b] : b \in B}) BY <2>2, <1>4, FS_Surjection
    <2> QED BY <2>1, <2>3
<1>6. \A b \in B : /\ A(b).name = b /\ IsArray(A(b)) /\ b \in DOMAIN h.slaves \cap DOMAIN Arrays
                   /\ MembersOf(A(b)) = h.slaves[b]
    BY <1>1, <1>2
<1> QED BY <1>3, <1>5, <1>6

LEMMA ArrayHasMembers ==
    ASSUME NEW a, IsArray(a)
    PROVE  MembersOf(a) # {}
<1> DEFINE mm == a.members
           M == [device : STRING, flag : STRING]
<1>1. mm # <<>> /\ mm \in Seq(M) BY DEF IsArray
<1> HIDE DEF mm, M
<1>2. Len(mm) \in Nat /\ Len(mm) # 0 BY <1>1, EmptySeq
<1>3. 1 \in DOMAIN mm BY <1>1, <1>2, LenProperties
<1>4. MembersOf(a) = {mm[i].device : i \in DOMAIN mm} BY DEF MembersOf, mm
<1> QED BY <1>3, <1>4

(* What a block has on it is on blocks that are there, and of one user.    *)
LEMMA ClaimsHold ==
    ASSUME NEW h, Consistent(h)
    PROVE  /\ \A s \in DOMAIN h.slaves : h.slaves[s] \subseteq Blocks(h)
           /\ \A m \in h.mounts : m.fs.type # "zfs" => m.fs.members \subseteq Blocks(h)
           /\ \A m, n \in h.mounts :
                m.fs.type # "zfs" /\ n.fs.type # "zfs" /\ m.fs.members \cap n.fs.members # {}
                  => m.fs.id = n.fs.id
<1>1. /\ \A c, d \in Claims(h) : c[1] # d[1] \/ c[2] # d[2] => c[3] \cap d[3] = {}
      /\ \A c \in Claims(h) : c[3] \subseteq Blocks(h)
    BY DEF Consistent
<1>2. ASSUME NEW s \in DOMAIN h.slaves PROVE h.slaves[s] \subseteq Blocks(h)
    <2> DEFINE c == <<"slave", s, h.slaves[s]>>
    <2>1. c \in Claims(h) BY DEF Claims
    <2>2. c[3] = h.slaves[s] OBVIOUS
    <2> HIDE DEF c
    <2> QED BY <2>1, <2>2, <1>1
<1> DEFINE F(m) == <<"fs", m.fs.id, m.fs.members>>
<1>3. \A m \in h.mounts : m.fs.type # "zfs" => F(m) \in Claims(h) BY DEF Claims
<1>4. \A m : F(m)[1] = "fs" /\ F(m)[2] = m.fs.id /\ F(m)[3] = m.fs.members OBVIOUS
<1> HIDE DEF F
<1> QED BY <1>1, <1>2, <1>3, <1>4

LEMMA HostIsStacked ==
    ASSUME NEW h, IsHost(h)
    PROVE  Stacked(Sys(h))
<1> DEFINE s == Sys(h)
<1>1. s.blocks = Blocks(h) /\ s.parent = ParentOf /\ s.slaves = h.slaves BY DEF Sys
<1>2. /\ IsFiniteSet(Disks) /\ IsFiniteSet(Loops) /\ IsFiniteSet(DOMAIN ParentOf)
      /\ IsFiniteSet(DOMAIN Mapped) /\ IsFiniteSet(DOMAIN Arrays)
    BY HostAssumption
<1>3. /\ \A p \in DOMAIN ParentOf : ParentOf[p] \in Disks
      /\ (Disks \cup Loops \cup DOMAIN ParentOf) \cap (DOMAIN Mapped \cup DOMAIN Arrays) = {}
      /\ Disks \cap DOMAIN ParentOf = {}
    BY HostAssumption
<1>4. DOMAIN h.slaves \subseteq DOMAIN Mapped \cup DOMAIN Arrays BY StackingsAre DEF IsHost, IsStacking
<1>5. IsFiniteSet(Blocks(h))
    <2>1. IsFiniteSet(DOMAIN Mapped \cup DOMAIN Arrays) BY <1>2, FS_Union
    <2>2. IsFiniteSet(DOMAIN h.slaves) BY <2>1, <1>4, FS_Subset
    <2>3. IsFiniteSet(Disks \cup Loops) BY <1>2, FS_Union
    <2>4. IsFiniteSet((Disks \cup Loops) \cup DOMAIN ParentOf) BY <2>3, <1>2, FS_Union
    <2> QED BY <2>2, <2>4, FS_Union DEF Blocks
<1>6. \A b \in DOMAIN h.slaves : b \in Blocks(h) /\ h.slaves[b] \subseteq Blocks(h)
    BY ClaimsHold DEF IsHost, Blocks
<1>7. \A p \in DOMAIN ParentOf :
        /\ p \notin DOMAIN h.slaves /\ ParentOf[p] \in Blocks(h)
        /\ ParentOf[p] \notin DOMAIN h.slaves /\ ParentOf[p] \notin DOMAIN ParentOf
    BY <1>3, <1>4 DEF Blocks
<1> HIDE DEF s
<1>8. Stacked(s) BY <1>1, <1>5, <1>6, <1>7 DEF Stacked
<1> QED BY <1>8 DEF s

(* What is physically under a stacked device is under what it stands on.   *)
LEMMA PhysicalOfStack ==
    ASSUME NEW sys, Stacked(sys), NEW b \in DOMAIN sys.slaves, sys.slaves[b] # {}
    PROVE  Physical(sys, b) = UNION {Physical(sys, c) : c \in sys.slaves[b]}
<1> DEFINE S == sys.blocks
           D == sys.slaves[b]
           IsReach(P, c) == /\ P \in SUBSET (S \cup {c})
                            /\ Physical(sys, c) = {e \in P : StandsOn(sys, e) = {}} \ sys.loops
                            /\ c \in P /\ \A e \in P : StandsOn(sys, e) \subseteq P
           R(c) == CHOOSE P : IsReach(P, c)
<1>1. ASSUME NEW c \in D PROVE IsReach(R(c), c)
    <2>1. \E P : IsReach(P, c) BY PhysicalReached
    <2> HIDE DEF IsReach
    <2> QED BY <2>1
<1>2. b \in S /\ D \subseteq S BY DEF Stacked
<1>3. StandsOn(sys, b) = D
    <2>1. b \notin DOMAIN sys.parent BY DEF Stacked
    <2> QED BY <2>1 DEF StandsOn, Slaves, IsPartition
<1>4. PICK P \in SUBSET (S \cup {b}) :
         /\ Physical(sys, b) = {c \in P : StandsOn(sys, c) = {}} \ sys.loops
         /\ b \in P /\ \A c \in P : StandsOn(sys, c) \subseteq P
         /\ \A X \in SUBSET (S \cup {b}) :
               b \in X /\ (\A c \in X : StandsOn(sys, c) \subseteq X) => P \subseteq X
    BY PhysicalReached
<1> DEFINE X == {b} \cup UNION {R(c) : c \in D}
<1>5. P \subseteq X
    <2>1. X \in SUBSET (S \cup {b}) BY <1>1, <1>2
    <2>2. ASSUME NEW e \in X PROVE StandsOn(sys, e) \subseteq X
        <3>1. CASE e = b
            <4>1. \A c \in D : c \in R(c) BY <1>1
            <4> QED BY <3>1, <4>1, <1>3
        <3>2. CASE e # b
            <4>1. PICK c \in D : e \in R(c) BY <3>2
            <4>2. StandsOn(sys, e) \subseteq R(c) BY <4>1, <1>1
            <4> QED BY <4>1, <4>2
        <3> QED BY <3>1, <3>2
    <2> HIDE DEF X
    <2>3. b \in X BY DEF X
    <2> QED BY <2>1, <2>2, <2>3, <1>4
<1>6. ASSUME NEW d \in Physical(sys, b) PROVE \E c \in D : d \in Physical(sys, c)
    <2>1. d \in P /\ StandsOn(sys, d) = {} /\ d \notin sys.loops BY <1>4
    <2>2. d # b BY <2>1, <1>3
    <2>3. PICK c \in D : d \in R(c) BY <2>1, <2>2, <1>5
    <2> QED BY <2>1, <2>3, <1>1
<1>7. ASSUME NEW c \in D PROVE Physical(sys, c) \subseteq Physical(sys, b)
    <2>1. PICK Q \in SUBSET (S \cup {c}) :
             /\ Physical(sys, c) = {e \in Q : StandsOn(sys, e) = {}} \ sys.loops
             /\ c \in Q /\ \A e \in Q : StandsOn(sys, e) \subseteq Q
             /\ \A Y \in SUBSET (S \cup {c}) :
                   c \in Y /\ (\A e \in Y : StandsOn(sys, e) \subseteq Y) => Q \subseteq Y
        BY PhysicalReached
    <2>2. P \in SUBSET (S \cup {c}) /\ c \in P BY <1>2, <1>3, <1>4
    <2>3. Q \subseteq P BY <2>1, <2>2, <1>4
    <2> QED BY <2>1, <2>3, <1>4
<1> HIDE DEF X
<1> QED BY <1>6, <1>7

(* What was collected of a host: one report of each array that is          *)
(* assembled, and one of each pool that is imported.                       *)
IsReport(mdraid, arrays) ==
    \E parsed : mdraid = {parsed[a] : a \in arrays} /\ \A a \in arrays : IsArrayOf(parsed[a], a)
AreOf(vols, h) == IsReport(vols.mdraid, Assembled(h)) /\ IsListing(vols.zfs, h.imported)
PoolNamesDiffer(zfs) == \A p, q \in zfs : p.name = q.name => p = q

LEMMA ArraysAreReported ==
    ASSUME NEW h, IsHost(h)
    PROVE  IsReport(ParseMdstat(MdstatOf(SetToSeq(Assembled(h)))), Assembled(h))
<1> DEFINE S == Assembled(h)
<1>1. IsFiniteSet(S) /\ \A a \in S : IsArray(a) BY AssembledAre DEF IsHost
<1> HIDE DEF S
<1>2. PICK parsed : /\ ParseMdstat(MdstatOf(SetToSeq(S))) = {parsed[a] : a \in S}
                    /\ \A a \in S : IsRead(parsed[a], a)
    BY <1>1, MdstatIsRead
<1>3. \A a \in S : IsArrayOf(parsed[a], a)
    <2> TAKE a \in S
    <2> DEFINE c == parsed[a]
    <2>1. IsArray(a) /\ IsRead(c, a) BY <1>1, <1>2
    <2> HIDE DEF c
    <2>2. IsArrayOf(c, a) BY <2>1, ReadIsArrayOf
    <2> QED BY <2>2 DEF c
<1>4. IsReport(ParseMdstat(MdstatOf(SetToSeq(S))), S) BY <1>2, <1>3 DEF IsReport
<1> QED BY <1>4 DEF S

LEMMA PoolsAreReported ==
    ASSUME NEW h, IsHost(h), NEW zfs \in Listed(h.imported)
    PROVE  IsListing(zfs, h.imported)
<1>1. IsFiniteSet(PoolsKnown) /\ \A pool \in PoolsKnown : IsPool(pool) BY HostAssumption
<1>2. h.imported \subseteq PoolsKnown BY DEF IsHost
<1>3. IsFiniteSet(h.imported) BY <1>1, <1>2, FS_Subset
<1>4. \A pool \in h.imported : IsPool(pool) BY <1>1, <1>2
<1> QED BY <1>3, <1>4, PoolsAreListed

LEMMA ListedOnce ==
    ASSUME NEW h, IsHost(h), NEW zfs, IsListing(zfs, h.imported)
    PROVE  PoolNamesDiffer(zfs)
<1>1. PICK parsed : /\ zfs = {parsed[pool] : pool \in h.imported}
                    /\ \A pool \in h.imported : IsParse(parsed[pool], pool)
    BY DEF IsListing
<1>2. \A p, q \in h.imported : p.name = q.name => p = q BY DEF IsHost, Consistent
<1>3. \A pool \in h.imported : parsed[pool].name = pool.name BY <1>1 DEF IsParse
<1> QED BY <1>1, <1>2, <1>3 DEF PoolNamesDiffer

(* Every mount is shown somewhere.                                         *)
LEMMA MountsHaveDomains ==
    ASSUME NEW h, IsHost(h), NEW m \in h.mounts
    PROVE  HasDomain(Sys(h), m)
<1>1. m.fs \in FileSystems BY DEF IsHost, AllMounts
<1>2. IsFileSystem(m.fs) BY <1>1, HostAssumption
<1>3. CASE m.fs.type = "zfs" BY <1>3 DEF HasDomain
<1>4. CASE m.fs.type # "zfs"
    <2>1. m.fs.type \notin Pseudo /\ m.fs.source \in m.fs.members BY <1>2, <1>4 DEF IsFileSystem
    <2>2. m.fs.members \subseteq Blocks(h) BY <1>4, ClaimsHold DEF IsHost
    <2>3. Sys(h).blocks = Blocks(h) BY DEF Sys
    <2>4. m.fs.source \in Sys(h).blocks BY <2>1, <2>2, <2>3
    <2> QED BY <2>1, <2>4, <1>4 DEF HasDomain, IsOrdinary
<1> QED BY <1>3, <1>4

(* A file system that is not a btrfs over several devices is on one block. *)
LEMMA MembersOfMount ==
    ASSUME NEW h, IsHost(h), NEW m \in h.mounts, m.fs.type # "zfs"
    PROVE  /\ m.fs.type = "btrfs" => BtrfsMembers(h.mounts, m.fs.source) = m.fs.members
           /\ ~SpansDevices(Sys(h), m) => m.fs.members = {m.fs.source}
<1>1. \A n \in h.mounts : n.fs \in FileSystems BY DEF IsHost, AllMounts
<1>2. IsFileSystem(m.fs) BY <1>1, HostAssumption
<1>3. IsFiniteSet(m.fs.members) /\ m.fs.source \in m.fs.members
      /\ (m.fs.type # "btrfs" => m.fs.members = {m.fs.source})
    BY <1>2 DEF IsFileSystem
<1>4. ASSUME m.fs.type = "btrfs" PROVE BtrfsMembers(h.mounts, m.fs.source) = m.fs.members
    <2>1. ASSUME NEW n \in h.mounts, n.fs.type = "btrfs", m.fs.source \in n.fs.members
          PROVE  n.fs.members = m.fs.members
        <3>1. n.fs.type # "zfs" BY <2>1
        <3>2. m.fs.members \cap n.fs.members # {} BY <2>1, <1>3
        <3>3. m.fs.id = n.fs.id BY <3>1, <3>2, ClaimsHold DEF IsHost
        <3>4. m.fs \in FileSystems /\ n.fs \in FileSystems BY <1>1
        <3> QED BY <3>3, <3>4, <1>4, HostAssumption DEF IsOneFileSystem
    <2> QED BY <2>1, <1>3, <1>4 DEF BtrfsMembers
<1>5. ASSUME ~SpansDevices(Sys(h), m) PROVE m.fs.members = {m.fs.source}
    <2>1. CASE m.fs.type # "btrfs" BY <2>1, <1>3
    <2>2. CASE m.fs.type = "btrfs"
        <3>1. Sys(h).mounts = h.mounts BY DEF Sys
        <3>2. ~(Cardinality(m.fs.members) > 1) BY <3>1, <2>2, <1>4, <1>5 DEF SpansDevices
        <3>3. ASSUME NEW x \in m.fs.members, x # m.fs.source PROVE FALSE
            <4> DEFINE y == m.fs.source
                       T == m.fs.members
            <4>1. IsFiniteSet(T) /\ x \in T /\ y \in T /\ x # y /\ Cardinality(T) \in Nat
                BY <3>3, <1>3, FS_CardinalityType
            <4>2. Cardinality(T \ {x}) = Cardinality(T) - 1 /\ IsFiniteSet(T \ {x}) BY <4>1, FS_RemoveElement
            <4>3. y \in T \ {x} BY <4>1
            <4>4. Cardinality(T \ {x}) \in Nat /\ Cardinality(T \ {x}) # 0
                BY <4>2, <4>3, FS_CardinalityType, FS_EmptySet
            <4> HIDE DEF T
            <4> QED BY <4>1, <4>2, <4>4, <3>2 DEF T
        <3> QED BY <3>3, <1>3
    <2> QED BY <2>1, <2>2
<1> QED BY <1>4, <1>5

(* Whatever a row is, its disks are those that are under it.               *)
Under(h, blocks) == UNION {Physical(Sys(h), b) : b \in blocks}

LEMMA RowOfPool ==
    ASSUME IsHost(host), NEW vols, AreOf(vols, host), NEW s \in PoolRows(Sys(host), host.mounts, vols)
    PROVE  \E pool \in host.imported :
             /\ Vdevs(s) = {pool.vdevs[i] : i \in DOMAIN pool.vdevs} /\ BlocksOf(s) = DataDisks(pool)
             /\ s.disks = MemberDisks(Sys(host), DataDisks(pool))
             /\ s.mounts = {m \in host.mounts : m.fs.type = "zfs" /\ m.fs.source[1] = pool.name}
<1>1. PICK p \in vols.zfs :
        s = Row(<<"zfs", p.name>>, {m \in host.mounts : p \in PoolsOf(m, vols)},
                MemberDisks(Sys(host), DataLeaves(p)), CounterSources(Sys(host), DataLeaves(p)))
    BY DEF PoolRows
<1>2. /\ s.id = <<"zfs", p.name>> /\ s.disks = MemberDisks(Sys(host), DataLeaves(p))
      /\ s.mounts = {m \in host.mounts : p \in PoolsOf(m, vols)}
    BY <1>1 DEF Row
<1>3. PICK parsed : /\ vols.zfs = {parsed[pool] : pool \in host.imported}
                    /\ \A pool \in host.imported : IsParse(parsed[pool], pool)
    BY DEF AreOf, IsListing
<1>4. PICK pool \in host.imported : p = parsed[pool] BY <1>3
<1>5. IsParse(p, pool) BY <1>3, <1>4
<1>6. p.name = pool.name /\ DataLeaves(p) = DataDisks(pool) BY <1>5 DEF IsParse
<1>7. \A q \in host.imported : q.name = pool.name => q = pool BY DEF IsHost, Consistent
<1>8. {q \in host.imported : s.id = <<"zfs", q.name>>} = {pool} BY <1>2, <1>6, <1>7
<1>9. Vdevs(s) = {pool.vdevs[i] : i \in DOMAIN pool.vdevs} BY <1>8 DEF Vdevs
<1>10. {w.name : w \in {x \in Vdevs(s) : x.type = "disk" /\ x.section \notin {"cache", "spare"}}}
         = DataDisks(pool)
    BY <1>9 DEF DataDisks, HasData
<1>11. s.id[1] # "swap" BY <1>2
<1>12. {n \in s.mounts : n.fs.type # "zfs"} = {} BY <1>2 DEF PoolsOf
<1>13. BlocksOf(s) = DataDisks(pool)
    <2>1. UNION {m.fs.members : m \in {n \in s.mounts : n.fs.type # "zfs"}} = {} BY <1>12
    <2>2. BlocksOf(s) = (IF s.id[1] = "swap" THEN {s.id[2]} ELSE {})
            \cup {w.name : w \in {x \in Vdevs(s) : x.type = "disk" /\ x.section \notin {"cache", "spare"}}}
            \cup UNION {m.fs.members : m \in {n \in s.mounts : n.fs.type # "zfs"}}
        BY Zenon DEF BlocksOf
    <2> QED BY <2>1, <2>2, <1>10, <1>11
<1>14. s.mounts = {m \in host.mounts : m.fs.type = "zfs" /\ m.fs.source[1] = pool.name}
    BY <1>2, <1>6 DEF PoolsOf
<1> QED BY <1>2, <1>6, <1>9, <1>13, <1>14

LEMMA UnderPool ==
    ASSUME IsHost(host), NEW vols, AreOf(vols, host), NEW s \in PoolRows(Sys(host), host.mounts, vols)
    PROVE  s.disks = Under(host, BlocksOf(s))
BY RowOfPool, HostIsStacked, MembersArePhysical DEF Under

(* The blocks of the other rows are those of their mounts.                 *)
LEMMA BlocksOfMounts ==
    ASSUME NEW s, s.id[1] # "swap", s.id[1] # "zfs"
    PROVE  /\ BlocksOf(s) = UNION {m.fs.members : m \in {n \in s.mounts : n.fs.type # "zfs"}}
           /\ Vdevs(s) = {}
<1>1. {p \in host.imported : s.id = <<"zfs", p.name>>} = {}
    <2>1. \A x : s.id # <<"zfs", x>> OBVIOUS
    <2> QED BY <2>1
<1>2. Vdevs(s) = {} BY <1>1 DEF Vdevs
<1>3. BlocksOf(s) = UNION {m.fs.members : m \in {n \in s.mounts : n.fs.type # "zfs"}}
    BY <1>2 DEF BlocksOf
<1> QED BY <1>2, <1>3

LEMMA UnderBtrfs ==
    ASSUME IsHost(host), NEW s \in BtrfsRows(Sys(host), host.mounts)
    PROVE  s.disks = Under(host, BlocksOf(s))
<1> DEFINE sys == Sys(host)
           spanning == {m \in host.mounts : SpansDevices(sys, m)}
           members(id) == UNION {BtrfsMembers(sys.mounts, m.fs.source) : m \in {n \in spanning : n.fs.id = id}}
<1>1. PICK id : s = Row(<<"btrfs", id>>, {m \in spanning : m.fs.id = id},
                        MemberDisks(sys, members(id)), CounterSources(sys, members(id)))
    <2>1. BtrfsRows(sys, host.mounts)
            = {Row(<<"btrfs", id>>, {m \in spanning : m.fs.id = id},
                   MemberDisks(sys, members(id)), CounterSources(sys, members(id)))
                 : id \in {m.fs.id : m \in spanning}}
        BY Zenon DEF BtrfsRows
    <2> HIDE DEF sys, members, spanning
    <2> QED BY <2>1 DEF sys
<1>2. /\ s.id = <<"btrfs", id>> /\ s.mounts = {m \in spanning : m.fs.id = id}
      /\ s.disks = MemberDisks(sys, members(id))
    <2> HIDE DEF sys, members, spanning
    <2> QED BY <1>1 DEF Row
<1>3. s.id[1] = "btrfs" BY <1>2
<1>4. BlocksOf(s) = UNION {m.fs.members : m \in {n \in s.mounts : n.fs.type # "zfs"}}
    BY <1>3, BlocksOfMounts
<1>5. BlocksOf(s) = members(id)
    <2>1. ASSUME NEW m \in s.mounts
          PROVE  m.fs.type # "zfs" /\ BtrfsMembers(sys.mounts, m.fs.source) = m.fs.members
        <3>1. m \in spanning BY <1>2
        <3>2. m \in host.mounts /\ m.fs.type = "btrfs" BY <3>1 DEF SpansDevices
        <3>3. BtrfsMembers(host.mounts, m.fs.source) = m.fs.members BY <3>2, MembersOfMount
        <3>4. sys.mounts = host.mounts BY DEF Sys
        <3> HIDE DEF sys
        <3> QED BY <3>2, <3>3, <3>4
    <2>2. members(id) = UNION {BtrfsMembers(sys.mounts, m.fs.source) : m \in s.mounts} BY <1>2
    <2> HIDE DEF sys, spanning, members
    <2> QED BY <2>1, <2>2, <1>4
<1>6. s.disks = Under(host, members(id))
    <2> HIDE DEF members
    <2> QED BY <1>2, HostIsStacked, MembersArePhysical DEF Under
<1> HIDE DEF members
<1> QED BY <1>5, <1>6 DEF Under

(* No other file system is mounted where a mount is.                       *)
LEMMA IdOfMount ==
    ASSUME NEW h, IsHost(h), NEW m \in h.mounts
    PROVE  /\ DeviceId(Sys(h), m) = IF m.path \in h.unreadable THEN Unknown ELSE FileSystemId(m)
           /\ DeviceId(Sys(h), m) # Unknown => DeviceId(Sys(h), m)[1] = m.fs.id
<1> DEFINE sys == Sys(h)
           there == {n \in sys.mounts : n.path = m.path}
<1>1. \A n \in h.mounts : n.path = m.path => n = m BY DEF IsHost, Consistent
<1>2. sys.mounts = h.mounts /\ sys.unreadable = h.unreadable BY DEF Sys
<1> HIDE DEF sys
<1>3. there = {m} BY <1>1, <1>2
<1>4. (CHOOSE n \in there : TRUE) = m BY <1>3
<1>5. DeviceId(sys, m) = IF m.path \in sys.unreadable THEN Unknown
                         ELSE IF there = {} THEN <<"/">> ELSE FileSystemId(CHOOSE n \in there : TRUE)
    BY Zenon DEF DeviceId
<1> HIDE DEF there
<1>6. DeviceId(sys, m) = IF m.path \in h.unreadable THEN Unknown ELSE FileSystemId(m)
    BY <1>2, <1>3, <1>4, <1>5
<1>7. FileSystemId(m)[1] = m.fs.id BY DEF FileSystemId
<1> QED BY <1>6, <1>7 DEF sys

(* Ordinary mounts of one group are of one file system on one block.       *)
LEMMA GroupOnOneBlock ==
    ASSUME NEW h, IsHost(h), NEW m \in h.mounts, NEW n \in h.mounts,
           IsOrdinary(Sys(h), m), IsOrdinary(Sys(h), n), GroupKey(Sys(h), m) = GroupKey(Sys(h), n)
    PROVE  m.fs.type # "zfs" /\ m.fs.members = {m.fs.source} /\ m.fs.source = n.fs.source
<1> DEFINE sys == Sys(h)
<1>1. /\ m.fs.type # "zfs" /\ ~SpansDevices(sys, m)
      /\ n.fs.type # "zfs" /\ ~SpansDevices(sys, n)
    BY DEF IsOrdinary
<1>2. m.fs.members = {m.fs.source} /\ n.fs.members = {n.fs.source} BY <1>1, MembersOfMount
<1>3. m.fs.source = n.fs.source \/ m.fs.id = n.fs.id
    <2>1. GroupKey(sys, n) = <<"src", n.fs.source>> \/ GroupKey(sys, n) = <<"dev", DeviceId(sys, n)>>
        BY DEF GroupKey
    <2>2. CASE DeviceId(sys, m) = Unknown
        <3>1. GroupKey(sys, m) = <<"src", m.fs.source>> BY <2>2 DEF GroupKey
        <3> HIDE DEF sys
        <3> QED BY <2>1, <3>1 DEF sys
    <2>3. CASE DeviceId(sys, m) # Unknown
        <3>1. GroupKey(sys, m) = <<"dev", DeviceId(sys, m)>> BY <2>3 DEF GroupKey
        <3>2. GroupKey(sys, m) = GroupKey(sys, n) OBVIOUS
        <3>3. DeviceId(sys, m) = DeviceId(sys, n)
            <4> HIDE DEF sys
            <4> QED BY <2>1, <3>1, <3>2
        <3> QED BY <3>3, <2>3, IdOfMount
    <2> QED BY <2>2, <2>3
<1>4. m.fs \in FileSystems /\ n.fs \in FileSystems BY DEF IsHost, AllMounts
<1>5. m.fs.id = n.fs.id => m.fs.members = n.fs.members
    BY <1>4, <1>1, HostAssumption DEF IsOneFileSystem
<1> QED BY <1>1, <1>2, <1>3, <1>5

LEMMA RowOfSource ==
    ASSUME IsHost(host), NEW vols, AreOf(vols, host), NEW s \in OrdinaryRows(Sys(host), host.mounts, vols)
    PROVE  \E b : /\ s.disks = MemberDisks(Sys(host), IF ArraysAt(vols, b) = {} THEN {b}
                                   ELSE UNION {Devices(array) : array \in ArraysAt(vols, b)})
                  /\ s.id[1] = "fs" /\ BlocksOf(s) = {b} /\ \E n \in host.mounts : b \in n.fs.members
                  /\ \A m \in s.mounts : m \in host.mounts /\ m.fs.type # "zfs" /\ m.fs.members = {b}
<1> DEFINE sys == Sys(host)
           ordinary == {m \in host.mounts : IsOrdinary(sys, m)}
           group(key) == {m \in ordinary : GroupKey(sys, m) = key}
           source(key) == (CHOOSE m \in group(key) : TRUE).fs.source
           names(b) == IF ArraysAt(vols, b) = {} THEN {b}
                       ELSE UNION {Devices(array) : array \in ArraysAt(vols, b)}
<1>1. PICK key \in {k \in {GroupKey(sys, m) : m \in ordinary} : source(k) \notin sys.internal} :
         s = Row(<<"fs", key>>, group(key), MemberDisks(sys, names(source(key))),
                 CounterSources(sys, {source(key)}))
    <2>1. OrdinaryRows(sys, host.mounts, vols)
            = {Row(<<"fs", key>>, group(key), MemberDisks(sys, names(source(key))),
                   CounterSources(sys, {source(key)}))
                 : key \in {k \in {GroupKey(sys, m) : m \in ordinary} : source(k) \notin sys.internal}}
        BY Zenon DEF OrdinaryRows
    <2> HIDE DEF sys, ordinary, group, source, names
    <2> QED BY <2>1 DEF sys
<1> DEFINE b == source(key)
<1>2. /\ s.id = <<"fs", key>> /\ s.mounts = group(key) /\ s.disks = MemberDisks(sys, names(b))
    <2> HIDE DEF sys, ordinary, group, source, names
    <2> QED BY <1>1 DEF Row
<1>3. s.id[1] = "fs" BY <1>2
<1>4. BlocksOf(s) = UNION {m.fs.members : m \in {n \in s.mounts : n.fs.type # "zfs"}}
    BY <1>3, BlocksOfMounts
<1>5. \E n \in group(key) : n.fs.source = b
    <2>1. group(key) # {} BY <1>1
    <2> HIDE DEF group
    <2> QED BY <2>1
<1>6. PICK n \in group(key) : n.fs.source = b BY <1>5
<1>7. ASSUME NEW m \in group(key)
      PROVE  m \in host.mounts /\ IsOrdinary(sys, m) /\ GroupKey(sys, m) = key
    OBVIOUS
<1>8. ASSUME NEW m \in group(key)
      PROVE  m \in host.mounts /\ m.fs.type # "zfs" /\ m.fs.members = {b}
    <2> HIDE DEF group, b, ordinary
    <2>1. m \in host.mounts /\ n \in host.mounts BY <1>6, <1>7
    <2>2. IsOrdinary(sys, m) /\ IsOrdinary(sys, n) /\ GroupKey(sys, m) = GroupKey(sys, n)
        BY <1>6, <1>7
    <2>3. m.fs.type # "zfs" /\ m.fs.members = {m.fs.source} /\ m.fs.source = n.fs.source
        BY <2>1, <2>2, GroupOnOneBlock
    <2> QED BY <2>1, <2>3, <1>6
<1>9. BlocksOf(s) = {b}
    <2>1. \A m \in group(key) : m.fs.type # "zfs" /\ m.fs.members = {b} BY <1>8
    <2> HIDE DEF group, b
    <2> QED BY <1>2, <1>4, <1>6, <2>1
<1>10. b \in n.fs.members /\ n \in host.mounts BY <1>6, <1>7, <1>8
<1>11. \A m \in s.mounts : m \in host.mounts /\ m.fs.type # "zfs" /\ m.fs.members = {b}
    BY <1>2, <1>8
<1> HIDE DEF b, group, ordinary
<1> QED BY <1>2, <1>3, <1>9, <1>10, <1>11

(* What is left aside is what is on a device inside an LVM volume.         *)
LEMMA InternalLeftAside ==
    ASSUME NEW h, IsHost(h), NEW m \in h.mounts
    PROVE  LeftAside(Sys(h), h.mounts, m) <=> IsInternal(m)
<1> DEFINE sys == Sys(h)
           key == GroupKey(sys, m)
           group == {n \in {k \in h.mounts : IsOrdinary(sys, k)} : GroupKey(sys, n) = key}
           first == CHOOSE n \in group : TRUE
<1>1. sys.internal = InternalLvm BY DEF Sys
<1>2. ASSUME IsOrdinary(sys, m)
      PROVE  m.fs.type # "zfs" /\ m.fs.members = {m.fs.source} /\ GroupSource(sys, h.mounts, key) = m.fs.source
    <2>1. m \in group BY <1>2
    <2>2. first \in group
        <3> HIDE DEF group
        <3> QED BY <2>1
    <2>3. GroupSource(sys, h.mounts, key) = first.fs.source BY Zenon DEF GroupSource
    <2> HIDE DEF first
    <2>4. first \in h.mounts /\ IsOrdinary(sys, first) /\ GroupKey(sys, m) = GroupKey(sys, first) BY <2>2
    <2> QED BY <2>3, <2>4, <1>2, GroupOnOneBlock
<1>3. ASSUME IsInternal(m) PROVE IsOrdinary(sys, m)
    <2>1. m.fs.type # "zfs" /\ m.fs.members = {m.fs.source} BY <1>3 DEF IsInternal
    <2>2. HasDomain(sys, m) BY MountsHaveDomains
    <2>3. m.fs.type = "btrfs" => BtrfsMembers(h.mounts, m.fs.source) = {m.fs.source}
        BY <2>1, MembersOfMount
    <2>4. Cardinality({m.fs.source}) = 1 BY FS_Singleton
    <2>5. sys.mounts = h.mounts BY DEF Sys
    <2> HIDE DEF sys
    <2>6. ~SpansDevices(sys, m) BY <2>3, <2>4, <2>5 DEF SpansDevices
    <2> QED BY <2>1, <2>2, <2>6 DEF HasDomain
<1> HIDE DEF first
<1>4. LeftAside(sys, h.mounts, m) => IsInternal(m)
    <2> HIDE DEF sys
    <2> QED BY <1>1, <1>2 DEF LeftAside, IsInternal
<1>5. IsInternal(m) => LeftAside(sys, h.mounts, m)
    <2> HIDE DEF sys
    <2> QED BY <1>1, <1>2, <1>3 DEF LeftAside, IsInternal
<1> QED BY <1>4, <1>5

(* An array from which something is mounted runs: what was read of it is on*)
(* what it is stacked on.                                                  *)
LEMMA ArrayOfMount ==
    ASSUME IsHost(host), NEW vols, AreOf(vols, host), NEW n \in host.mounts, NEW b \in n.fs.members,
           NEW array \in ArraysAt(vols, b)
    PROVE  /\ array.name = b /\ b \in DOMAIN host.slaves
           /\ Devices(array) = host.slaves[b] /\ host.slaves[b] # {}
           /\ \A other \in ArraysAt(vols, b) : other = array
<1>1. array \in vols.mdraid /\ array.name = b BY DEF ArraysAt
<1>2. PICK parsed : /\ vols.mdraid = {parsed[a] : a \in Assembled(host)}
                    /\ \A a \in Assembled(host) : IsArrayOf(parsed[a], a)
    BY DEF AreOf, IsReport
<1>3. PICK a \in Assembled(host) : array = parsed[a] BY <1>1, <1>2
<1>4. IsArrayOf(array, a) BY <1>2, <1>3
<1>5. a.name = b BY <1>1, <1>4 DEF IsArrayOf
<1>6. a.state = "active"
    <2>1. a.state = "active" \/ \A m \in host.mounts : a.name \notin m.fs.members
        BY DEF IsHost, Consistent
    <2> QED BY <2>1, <1>5
<1>7. Devices(array) = MembersOf(a) BY <1>4, <1>6 DEF IsArrayOf
<1>8. /\ b \in DOMAIN host.slaves /\ MembersOf(a) = host.slaves[b] /\ IsArray(a)
    BY <1>5, AssembledAre DEF IsHost
<1>9. MembersOf(a) # {} BY <1>8, ArrayHasMembers
<1>10. \A other \in ArraysAt(vols, b) : other = array
    <2>1. \A x \in Assembled(host) : x.name = b => x = a BY <1>5, AssembledAre DEF IsHost
    <2>2. \A other \in ArraysAt(vols, b) : other \in vols.mdraid /\ other.name = b
        BY DEF ArraysAt
    <2>3. \A other \in vols.mdraid : \E x \in Assembled(host) : other = parsed[x] /\ other.name = x.name
        BY <1>2 DEF IsArrayOf
    <2> QED BY <2>1, <2>2, <2>3, <1>3
<1> QED BY <1>1, <1>7, <1>8, <1>9, <1>10

LEMMA UnderOrdinary ==
    ASSUME IsHost(host), NEW vols, AreOf(vols, host), NEW s \in OrdinaryRows(Sys(host), host.mounts, vols)
    PROVE  s.disks = Under(host, BlocksOf(s))
<1> DEFINE sys == Sys(host)
           names(b) == IF ArraysAt(vols, b) = {} THEN {b}
                       ELSE UNION {Devices(array) : array \in ArraysAt(vols, b)}
<1>1. PICK b : /\ s.disks = MemberDisks(sys, names(b))
               /\ BlocksOf(s) = {b} /\ \E n \in host.mounts : b \in n.fs.members
    BY RowOfSource
<1>2. PICK n \in host.mounts : b \in n.fs.members BY <1>1
<1>3. Physical(sys, b) = UNION {Physical(sys, c) : c \in names(b)}
    <2>1. CASE ArraysAt(vols, b) = {} BY <2>1
    <2>2. CASE ArraysAt(vols, b) # {}
        <3>1. PICK array \in ArraysAt(vols, b) : TRUE BY <2>2
        <3>2. /\ b \in DOMAIN host.slaves /\ Devices(array) = host.slaves[b] /\ host.slaves[b] # {}
              /\ \A other \in ArraysAt(vols, b) : other = array
            BY <1>2, <3>1, ArrayOfMount
        <3>3. Physical(sys, b) = UNION {Physical(sys, c) : c \in host.slaves[b]}
            <4>1. Stacked(sys) BY HostIsStacked
            <4>2. sys.slaves = host.slaves BY DEF Sys
            <4> HIDE DEF sys
            <4> QED BY <4>1, <4>2, <3>2, PhysicalOfStack
        <3>4. names(b) = host.slaves[b] BY <2>2, <3>1, <3>2
        <3> HIDE DEF names, sys
        <3> QED BY <3>3, <3>4
    <2> QED BY <2>1, <2>2
<1>4. s.disks = UNION {Physical(sys, c) : c \in names(b)}
    <2> DEFINE N == names(b)
    <2>1. s.disks = MemberDisks(sys, N) BY <1>1
    <2> HIDE DEF N
    <2>2. s.disks = UNION {Physical(sys, c) : c \in N} BY <2>1, HostIsStacked, MembersArePhysical
    <2> QED BY <2>2 DEF N
<1> HIDE DEF names
<1> QED BY <1>1, <1>3, <1>4 DEF Under

(* Every pool that is mounted is listed.                                   *)
LEMMA NoneUnlisted ==
    ASSUME IsHost(host), NEW vols, AreOf(vols, host)
    PROVE  UnlistedPoolRows(host.mounts, vols) = {}
<1> SUFFICES ASSUME NEW s \in UnlistedPoolRows(host.mounts, vols) PROVE FALSE
    OBVIOUS
<1>1. PICK m \in Unlisted(host.mounts, vols) : TRUE BY DEF UnlistedPoolRows
<1>2. m \in host.mounts /\ m.fs.type = "zfs" /\ PoolsOf(m, vols) = {} BY <1>1 DEF Unlisted
<1>3. PICK pool \in host.imported : pool.name = m.fs.source[1] BY <1>2 DEF IsHost, Consistent
<1>4. PICK parsed : /\ vols.zfs = {parsed[p] : p \in host.imported}
                        /\ \A p \in host.imported : IsParse(parsed[p], p)
    BY DEF AreOf, IsListing
<1>5. parsed[pool] \in vols.zfs /\ parsed[pool].name = m.fs.source[1] BY <1>3, <1>4 DEF IsParse
<1> QED BY <1>2, <1>5 DEF PoolsOf

LEMMA UnderRow ==
    ASSUME IsHost(host), NEW vols, AreOf(vols, host), NEW s \in Unassigned(Sys(host), host.mounts, vols)
    PROVE  s.disks = Under(host, BlocksOf(s))
<1>1. CASE s \in PoolRows(Sys(host), host.mounts, vols) BY <1>1, UnderPool
<1>2. CASE s \in UnlistedPoolRows(host.mounts, vols) BY <1>2, NoneUnlisted
<1>3. CASE s \in BtrfsRows(Sys(host), host.mounts) BY <1>3, UnderBtrfs
<1>4. CASE s \in OrdinaryRows(Sys(host), host.mounts, vols) BY <1>4, UnderOrdinary
<1>5. CASE s \in SwapRows(Sys(host))
    <2>1. PICK b : s = Row(<<"swap", b>>, {}, MemberDisks(Sys(host), {b}), {b})
        BY <1>5 DEF SwapRows
    <2>2. s.id = <<"swap", b>> /\ s.mounts = {} /\ s.disks = MemberDisks(Sys(host), {b})
        BY <2>1 DEF Row
    <2>3. s.id[1] = "swap" /\ s.id[2] = b /\ \A x : s.id # <<"zfs", x>> BY <2>2
    <2>4. {p \in host.imported : s.id = <<"zfs", p.name>>} = {} BY <2>3
    <2>5. Vdevs(s) = {} BY <2>4 DEF Vdevs
    <2>6. BlocksOf(s) = {b} BY <2>2, <2>3, <2>5 DEF BlocksOf
    <2>7. s.disks = Under(host, {b}) BY <2>2, HostIsStacked, MembersArePhysical DEF Under
    <2> QED BY <2>6, <2>7
<1> QED BY <1>1, <1>2, <1>3, <1>4, <1>5 DEF Unassigned

-----------------------------------------------------------------------------
(* The background thread.  What is held to be of the host as it is now is  *)
(* so, and rows are of some volumes: those the thread had when it resolved *)
(* them, which it may have collected again since.                          *)
HostInv ==
    /\ IsHost(host)
    /\ PoolNamesDiffer(volumes.zfs)
    /\ "volumes" \in current => AreOf(volumes, host)
    /\ "filesystems" \in current => filesystems = host.mounts
    /\ "rows" \in current =>
          \E vols : PoolNamesDiffer(vols.zfs) /\ rows = Resolve(Sys(host), host.mounts, vols)
    /\ "rows of the host" \in current =>
          /\ "volumes" \in current
          /\ \E vols : AreOf(vols, host) /\ rows = Resolve(Sys(host), host.mounts, vols)

LEMMA HostsAre == \A h \in Hosts : IsHost(h)
<1> DEFINE U(S) == {c \in [S -> UNION {Stackings[t] : t \in S}] : \A s \in S : c[s] \in Stackings[s]}
           assembled == UNION {{[s \in S |-> choice[s]] : choice \in U(S)} : S \in SUBSET DOMAIN Stackings}
<1>1. Hosts = {h \in [slaves : assembled, imported : SUBSET PoolsKnown, unreadable : {{}},
                      mounts : {M \in SUBSET AllMounts : Cardinality(M) <= MaxMounts}] : Consistent(h)}
    BY Zenon DEF Hosts
<1>2. ASSUME NEW slaves \in assembled PROVE IsStacking(slaves)
    <2>1. PICK S \in SUBSET DOMAIN Stackings : \E choice \in U(S) : slaves = [s \in S |-> choice[s]]
        OBVIOUS
    <2>2. PICK choice \in U(S) : slaves = [s \in S |-> choice[s]] BY <2>1
    <2>3. \A s \in S : choice[s] \in Stackings[s] BY <2>2
    <2> QED BY <2>2, <2>3 DEF IsStacking
<1> HIDE DEF assembled
<1>3. ASSUME NEW h \in Hosts PROVE IsHost(h)
    <2>1. h \in [slaves : assembled, imported : SUBSET PoolsKnown, unreadable : {{}},
                 mounts : {M \in SUBSET AllMounts : Cardinality(M) <= MaxMounts}] /\ Consistent(h)
        BY <1>1
    <2>2. DOMAIN h = {"slaves", "imported", "mounts", "unreadable"} BY <2>1
    <2>3. h.slaves \in assembled /\ h.imported \subseteq PoolsKnown /\ h.mounts \subseteq AllMounts
        BY <2>1
    <2> QED BY <2>1, <2>2, <2>3, <1>2 DEF IsHost
<1> QED BY <1>3

LEMMA ChangedHost ==
    ASSUME IsHost(host), Change
    PROVE  IsHost(host')
<1>1. /\ DOMAIN host = {"slaves", "imported", "mounts", "unreadable"}
      /\ IsStacking(host.slaves) /\ host.imported \subseteq PoolsKnown /\ host.mounts \subseteq AllMounts
    BY DEF IsHost
<1>2. Consistent(host') BY DEF Change
<1>3. ASSUME NEW s \in DOMAIN Stackings \ DOMAIN host.slaves, NEW under \in Stackings[s],
             host' = [host EXCEPT !.slaves = [t \in DOMAIN @ \cup {s} |-> IF t = s THEN under ELSE @[t]]]
      PROVE  IsHost(host')
    <2> DEFINE X == [t \in DOMAIN host.slaves \cup {s} |-> IF t = s THEN under ELSE host.slaves[t]]
    <2>1. host' = [host EXCEPT !.slaves = X] BY <1>3
    <2>2. IsStacking(X) BY <1>1 DEF IsStacking
    <2> HIDE DEF X
    <2>3. DOMAIN host' = DOMAIN host /\ host'.slaves = X /\ host'.imported = host.imported
          /\ host'.mounts = host.mounts
        BY <2>1, <1>1
    <2> QED BY <2>2, <2>3, <1>1, <1>2 DEF IsHost
<1>4. ASSUME NEW s \in DOMAIN host.slaves,
             host' = [host EXCEPT !.slaves = [t \in DOMAIN @ \ {s} |-> @[t]]]
      PROVE  IsHost(host')
    <2> DEFINE X == [t \in DOMAIN host.slaves \ {s} |-> host.slaves[t]]
    <2>1. host' = [host EXCEPT !.slaves = X] BY <1>4
    <2>2. IsStacking(X) BY <1>1 DEF IsStacking
    <2> HIDE DEF X
    <2>3. DOMAIN host' = DOMAIN host /\ host'.slaves = X /\ host'.imported = host.imported
          /\ host'.mounts = host.mounts
        BY <2>1, <1>1
    <2> QED BY <2>2, <2>3, <1>1, <1>2 DEF IsHost
<1>5. ASSUME NEW X, X \subseteq PoolsKnown, host' = [host EXCEPT !.imported = X]
      PROVE  IsHost(host')
    <2>1. DOMAIN host' = DOMAIN host /\ host'.slaves = host.slaves /\ host'.imported = X
          /\ host'.mounts = host.mounts
        BY <1>5, <1>1
    <2> QED BY <2>1, <1>1, <1>2, <1>5 DEF IsHost
<1>6. ASSUME NEW X, X \subseteq AllMounts, host' = [host EXCEPT !.mounts = X]
      PROVE  IsHost(host')
    <2>1. DOMAIN host' = DOMAIN host /\ host'.slaves = host.slaves /\ host'.imported = host.imported
          /\ host'.mounts = X
        BY <1>6, <1>1
    <2> QED BY <2>1, <1>1, <1>2, <1>6 DEF IsHost
<1>7. ASSUME NEW X, host' = [host EXCEPT !.unreadable = X]
      PROVE  IsHost(host')
    <2>1. DOMAIN host' = DOMAIN host /\ host'.slaves = host.slaves /\ host'.imported = host.imported
          /\ host'.mounts = host.mounts
        BY <1>7, <1>1
    <2> QED BY <2>1, <1>1, <1>2 DEF IsHost
<1>8. \/ \E s \in DOMAIN Stackings \ DOMAIN host.slaves : \E under \in Stackings[s] :
             host' = [host EXCEPT !.slaves = [t \in DOMAIN @ \cup {s} |-> IF t = s THEN under ELSE @[t]]]
      \/ \E s \in DOMAIN host.slaves :
             host' = [host EXCEPT !.slaves = [t \in DOMAIN @ \ {s} |-> @[t]]]
      \/ \E pool \in PoolsKnown \ host.imported : host' = [host EXCEPT !.imported = @ \cup {pool}]
      \/ \E pool \in host.imported : host' = [host EXCEPT !.imported = @ \ {pool}]
      \/ \E m \in AllMounts \ host.mounts : host' = [host EXCEPT !.mounts = @ \cup {m}]
      \/ \E m \in host.mounts : host' = [host EXCEPT !.mounts = @ \ {m}]
      \/ \E path \in Paths \ host.unreadable : host' = [host EXCEPT !.unreadable = @ \cup {path}]
    BY DEF Change
<1>9. CASE \E pool \in PoolsKnown \ host.imported : host' = [host EXCEPT !.imported = @ \cup {pool}]
    <2>1. PICK pool \in PoolsKnown : host' = [host EXCEPT !.imported = host.imported \cup {pool}] BY <1>9
    <2>2. host.imported \cup {pool} \subseteq PoolsKnown BY <1>1
    <2> QED BY <2>1, <2>2, <1>5
<1>10. CASE \E pool \in host.imported : host' = [host EXCEPT !.imported = @ \ {pool}]
    <2>1. PICK pool : host' = [host EXCEPT !.imported = host.imported \ {pool}] BY <1>10
    <2>2. host.imported \ {pool} \subseteq PoolsKnown BY <1>1
    <2> QED BY <2>1, <2>2, <1>5
<1>11. CASE \E m \in AllMounts \ host.mounts : host' = [host EXCEPT !.mounts = @ \cup {m}]
    <2>1. PICK m \in AllMounts : host' = [host EXCEPT !.mounts = host.mounts \cup {m}] BY <1>11
    <2>2. host.mounts \cup {m} \subseteq AllMounts BY <1>1
    <2> QED BY <2>1, <2>2, <1>6
<1>12. CASE \E m \in host.mounts : host' = [host EXCEPT !.mounts = @ \ {m}]
    <2>1. PICK m : host' = [host EXCEPT !.mounts = host.mounts \ {m}] BY <1>12
    <2>2. host.mounts \ {m} \subseteq AllMounts BY <1>1
    <2> QED BY <2>1, <2>2, <1>6
<1>13. CASE \E path \in Paths \ host.unreadable : host' = [host EXCEPT !.unreadable = @ \cup {path}]
    BY <1>13, <1>7
<1> QED BY <1>3, <1>4, <1>8, <1>9, <1>10, <1>11, <1>12, <1>13

(* What is collected of the arrays and the pools is of the host.           *)
LEMMA CollectedVolumes ==
    ASSUME IsHost(host), CollectVolumes
    PROVE  AreOf(volumes', host) /\ PoolNamesDiffer(volumes'.zfs)
<1>1. PICK zfs \in Listed(host.imported) : volumes' = [mdraid |-> LinuxMdraid, zfs |-> zfs]
    BY DEF CollectVolumes
<1>2. volumes'.mdraid = LinuxMdraid /\ volumes'.zfs = zfs BY <1>1
<1>3. IsReport(LinuxMdraid, Assembled(host)) BY ArraysAreReported DEF LinuxMdraid
<1>4. IsListing(zfs, host.imported) BY PoolsAreReported
<1>5. PoolNamesDiffer(zfs) BY <1>4, ListedOnce
<1> QED BY <1>2, <1>3, <1>4, <1>5 DEF AreOf

(* The rows are of what was held to be of the host.                        *)
LEMMA ResolvedNow ==
    ASSUME HostInv, NEW from, NEW to, ResolveRows(from, to)
    PROVE  HostInv'
<1>1. /\ rows' = Resolve(Sys(host), filesystems, volumes)
      /\ current' = (current \ {"rows", "rows of the host"}) \cup RowsAre
      /\ UNCHANGED <<host, filesystems, volumes>>
    BY DEF ResolveRows
<1>2. /\ IsHost(host) /\ PoolNamesDiffer(volumes.zfs)
      /\ "volumes" \in current => AreOf(volumes, host)
      /\ "filesystems" \in current => filesystems = host.mounts
    BY DEF HostInv
<1>3. /\ "volumes" \in current' => "volumes" \in current
      /\ "filesystems" \in current' => "filesystems" \in current
      /\ "rows" \in current' => "filesystems" \in current
      /\ "rows of the host" \in current' =>
            "filesystems" \in current /\ "volumes" \in current /\ "volumes" \in current'
    BY <1>1 DEF RowsAre
<1>4. IsHost(host)' /\ PoolNamesDiffer(volumes.zfs)' BY <1>1, <1>2
<1>5. ("volumes" \in current => AreOf(volumes, host))' BY <1>1, <1>2, <1>3
<1>6. ("filesystems" \in current => filesystems = host.mounts)' BY <1>1, <1>2, <1>3
<1>7. "rows" \in current' => rows' = Resolve(Sys(host'), host'.mounts, volumes)
    BY <1>1, <1>2, <1>3
<1>8. "rows of the host" \in current' => rows' = Resolve(Sys(host'), host'.mounts, volumes) /\ AreOf(volumes, host')
    BY <1>1, <1>2, <1>3
<1> QED BY <1>3, <1>4, <1>5, <1>6, <1>7, <1>8 DEF HostInv

LEMMA HostInvStarts == Init => HostInv
<1> SUFFICES ASSUME Init PROVE HostInv OBVIOUS
<1>1. host \in Hosts /\ volumes = NoVolumes /\ current = {} BY DEF Init
<1>2. IsHost(host) BY <1>1, HostsAre
<1>3. PoolNamesDiffer(volumes.zfs) BY <1>1 DEF NoVolumes, PoolNamesDiffer
<1> QED BY <1>1, <1>2, <1>3 DEF HostInv

LEMMA HostInvKept == HostInv /\ [Next]_vars => HostInv'
<1> SUFFICES ASSUME HostInv, [Next]_vars PROVE HostInv' OBVIOUS
<1>1. IsHost(host) /\ PoolNamesDiffer(volumes.zfs) BY DEF HostInv
<1>2. CASE Change
    <2>1. IsHost(host') BY <1>1, <1>2, ChangedHost
    <2>2. current' = {} /\ volumes' = volumes BY <1>2 DEF Change
    <2> QED BY <1>1, <2>1, <2>2 DEF HostInv
<1> DEFINE Same == \A x : x # "devices" => (x \in current' <=> x \in current)
<1>3. ASSUME UNCHANGED <<host, filesystems, volumes, rows>>, Same PROVE HostInv'
    <2>1. /\ "volumes" \in current' <=> "volumes" \in current
          /\ "filesystems" \in current' <=> "filesystems" \in current
          /\ "rows" \in current' <=> "rows" \in current
          /\ "rows of the host" \in current' <=> "rows of the host" \in current
        BY <1>3
    <2> HIDE DEF Same
    <2> QED BY <2>1, <1>3 DEF HostInv
<1>4. CASE RefreshUsage
    <2>1. UNCHANGED <<host, filesystems, volumes, rows>> /\ Same
        BY <1>4 DEF RefreshUsage
    <2> QED BY <2>1, <1>3
<1>5. CASE CollectDevices
    <2>1. UNCHANGED <<host, filesystems, volumes, rows>> /\ Same
        BY <1>5 DEF CollectDevices
    <2> QED BY <2>1, <1>3
<1>6. CASE CollectFilesystems
    <2>1. /\ filesystems' = host.mounts /\ current' = current \cup {"filesystems"}
          /\ UNCHANGED <<host, volumes, rows>>
        BY <1>6 DEF CollectFilesystems
    <2>2. /\ "volumes" \in current' => "volumes" \in current
          /\ "rows" \in current' => "rows" \in current
          /\ "rows of the host" \in current' => "rows of the host" \in current
        BY <2>1
    <2> QED BY <1>1, <2>1, <2>2 DEF HostInv
<1>7. CASE CollectVolumes
    <2>1. AreOf(volumes', host) /\ PoolNamesDiffer(volumes'.zfs) BY <1>1, <1>7, CollectedVolumes
    <2>2. current' = current \cup {"volumes"} /\ UNCHANGED <<host, filesystems, rows>>
        BY <1>7 DEF CollectVolumes
    <2>3. /\ "filesystems" \in current' => "filesystems" \in current
          /\ "rows" \in current' => "rows" \in current
          /\ "rows of the host" \in current' => "rows of the host" \in current
        BY <2>2
    <2> QED BY <1>1, <2>1, <2>2, <2>3 DEF HostInv
<1>8. CASE ResolveRows("rows", "volumes") BY <1>8, ResolvedNow
<1>9. CASE ResolveRows("rows again", "usage") BY <1>9, ResolvedNow
<1>10. CASE UsageNotDue \/ VolumesNotDue \/ UNCHANGED vars
    <2>1. UNCHANGED <<host, filesystems, volumes, rows>> /\ Same
        BY <1>10 DEF UsageNotDue, VolumesNotDue, vars
    <2> QED BY <2>1, <1>3
<1> QED BY <1>2, <1>4, <1>5, <1>6, <1>7, <1>8, <1>9, <1>10 DEF Next

(* Throughout: the host is one that can be, and what the thread holds to   *)
(* be current is of that host.                                             *)
THEOREM HostInvHolds == Spec => []HostInv
<1> QED BY HostInvStarts, HostInvKept, PTL DEF Spec

-----------------------------------------------------------------------------
(* Every mounted file system of a block device or a pool is in exactly one *)
(* row and no two rows have one id: `resolve' shows what a mount reads and *)
(* writes once, of volumes of any age, and nothing of one on a device      *)
(* inside an LVM volume.                                                   *)
THEOREM MountedOnceHolds == Spec => []MountedOnce
<1> DEFINE Shown(m) == Cardinality({r \in rows : m \in r.mounts})
<1>1. HostInv => MountedOnce
    <2> SUFFICES ASSUME HostInv, "rows" \in current
                 PROVE  /\ \A r, q \in rows : r.id = q.id => r = q
                        /\ \A m \in host.mounts : Shown(m) = IF IsInternal(m) THEN 0 ELSE 1
        BY Zenon DEF MountedOnce
    <2>1. PICK vols : PoolNamesDiffer(vols.zfs) /\ rows = Resolve(Sys(host), host.mounts, vols)
        BY DEF HostInv
    <2>2. \A p, q \in vols.zfs : p.name = q.name => p = q BY <2>1 DEF PoolNamesDiffer
    <2>3. /\ \A r, q \in rows : r.id = q.id => r = q
          /\ \A m \in host.mounts :
               HasDomain(Sys(host), m) =>
                 Shown(m) = IF LeftAside(Sys(host), host.mounts, m) THEN 0 ELSE 1
        BY <2>1, <2>2, EachMountInOneRow
    <2>4. \A m \in host.mounts : HasDomain(Sys(host), m) BY MountsHaveDomains DEF HostInv
    <2>5. \A m \in host.mounts : LeftAside(Sys(host), host.mounts, m) <=> IsInternal(m)
        BY InternalLeftAside DEF HostInv
    <2> HIDE DEF Shown
    <2> QED BY <2>3, <2>4, <2>5
<1> QED BY <1>1, HostInvHolds, PTL

(* The first line of the screen warns of what is wrong with the arrays and *)
(* pools of the last collection and of nothing else: what `zpool' lists, in*)
(* JSON or in text, and /proc/mdstat are read for what they say, and the   *)
(* summaries name the worst array, with as many of its disks as the code   *)
(* shows, and count the others.                                            *)
THEOREM ExceptionsAnnouncedHolds == Spec => []ExceptionsAnnounced
<1> DEFINE S == Assembled(host)
           sys == Sys(host)
           md == MdExceptionSummary(sys, volumes.mdraid)
           AnnouncesZfs ==
               ZfsExceptionSummary(volumes.zfs)
                 = {pool.name : pool \in {p \in host.imported : p.health # "ONLINE"}}
<1>1. ASSUME HostInv, "volumes" \in current PROVE Announces(md, S, sys) /\ AnnouncesZfs
    <2>1. IsHost(host) /\ AreOf(volumes, host) BY <1>1 DEF HostInv
    <2>2. Announces(md, S, sys)
        <3>1. PICK parsed : volumes.mdraid = {parsed[a] : a \in S} /\ \A a \in S : IsArrayOf(parsed[a], a)
            BY <2>1 DEF AreOf, IsReport
        <3>2. /\ IsFiniteSet(S) /\ \A a \in S : IsArray(a)
              /\ \A a, b \in S : a.name = b.name => a = b
            BY <2>1, AssembledAre DEF IsHost
        <3>0. sys.stems = Stems BY DEF Sys
        <3> DEFINE said == MdExceptionSummary(sys, {parsed[a] : a \in S})
        <3> HIDE DEF S, sys
        <3>3. Announces(said, S, sys) BY <3>0, <3>1, <3>2, ArraysAreAnnounced
        <3>4. md = said BY <3>1
        <3> HIDE DEF md, said
        <3>5. Announces(md, S, sys) BY <3>3, <3>4
        <3> QED BY <3>5 DEF md
    <2>3. AnnouncesZfs
        <3>1. PICK parsed : /\ volumes.zfs = {parsed[pool] : pool \in host.imported}
                            /\ \A pool \in host.imported : IsParse(parsed[pool], pool)
            BY <2>1 DEF AreOf, IsListing
        <3>2. \A pool \in host.imported : parsed[pool].name = pool.name /\ parsed[pool].health = pool.health
            BY <3>1 DEF IsParse
        <3> QED BY <3>1, <3>2 DEF ZfsExceptionSummary
    <2> QED BY <2>2, <2>3
<1>2. Announces(md, S, sys) /\ AnnouncesZfs => ExceptionsAnnounced
    BY Zenon DEF ExceptionsAnnounced, VolumeExceptionSummary, Announces
<1>3. "volumes" \notin current => ExceptionsAnnounced BY Zenon DEF ExceptionsAnnounced
<1> HIDE DEF AnnouncesZfs, md, S, sys
<1>4. HostInv => ExceptionsAnnounced BY <1>1, <1>2, <1>3
<1> QED BY <1>4, HostInvHolds, PTL

(* The disks of a row are those physically under its mounts, its pool or   *)
(* its swap: what `resolve' follows through arrays, mapper devices and     *)
(* partitions of any depth ends at the disks, and at no other.             *)
RowsHaveTheirDisks ==
    "rows of the host" \in current => \A r \in rows : r.disks = DisksUnder(r)

LEMMA DisksOfRows == HostInv => RowsHaveTheirDisks
<1>1. ASSUME HostInv, "rows of the host" \in current, NEW q \in rows
      PROVE  q.disks = DisksUnder(q)
    <2>1. PICK vols : AreOf(vols, host) /\ rows = Resolve(Sys(host), host.mounts, vols)
        BY <1>1 DEF HostInv
    <2> DEFINE all == Unassigned(Sys(host), host.mounts, vols)
    <2>2. rows = {Assigned(all, s) : s \in all} BY <2>1, ResolvedRows
    <2>3. PICK s \in all : q = Assigned(all, s) BY <1>1, <2>2
    <2>4. q.id = s.id /\ q.mounts = s.mounts /\ q.disks = s.disks BY <2>3, ResolvedRows
    <2>5. BlocksOf(q) = BlocksOf(s) BY <2>4 DEF BlocksOf, Vdevs
    <2>6. IsHost(host) BY <1>1 DEF HostInv
    <2>7. s.disks = Under(host, BlocksOf(s)) BY <2>1, <2>3, <2>6, UnderRow
    <2>8. DisksUnder(q) = Under(host, BlocksOf(q)) BY DEF DisksUnder, Under
    <2> HIDE DEF all
    <2> QED BY <2>4, <2>5, <2>7, <2>8
<1> QED BY <1>1 DEF RowsHaveTheirDisks

(* Whatever the host went through since: the disks `resolve' puts on a row *)
(* of a current answer are those under the block devices the row is of,    *)
(* by the stack of the host as it is now.                                  *)
THEOREM RowsHaveTheirDisksHolds == Spec => []RowsHaveTheirDisks
<1> QED BY DisksOfRows, HostInvHolds, PTL

(* A row that claims the requests of a disk is the only one with anything  *)
(* on it: `assign_latency_sources' gives a disk to a row only if no other  *)
(* row has it, and a row has every disk that is under it.                  *)
THEOREM LatencyExclusiveHolds == Spec => []LatencyExclusive
<1>1. ASSUME HostInv, "rows of the host" \in current, NEW r \in rows, NEW q \in rows \ {r}
      PROVE  r.latency \cap DisksUnder(q) = {}
    <2>1. PICK vols : AreOf(vols, host) /\ rows = Resolve(Sys(host), host.mounts, vols)
        BY <1>1 DEF HostInv
    <2>2. r.latency \cap q.disks = {} BY <1>1, <2>1, LatencyOfOneRow
    <2>3. q.disks = DisksUnder(q) BY <1>1, DisksOfRows DEF RowsHaveTheirDisks
    <2> QED BY <2>2, <2>3
<1>2. HostInv => LatencyExclusive BY <1>1 DEF LatencyExclusive
<1> QED BY <1>2, HostInvHolds, PTL

-----------------------------------------------------------------------------
(* The other views go four levels down.                                    *)
IsLevel(sys, level) ==
    \A s \in DOMAIN sys.slaves :
        /\ level[s] \in 1..4 /\ sys.slaves[s] # {}
        /\ \A c \in sys.slaves[s] \cap DOMAIN sys.slaves : level[c] < level[s]

(* A disk has itself under it, a partition its disk.                       *)
LEMMA PhysicalOfEnd ==
    ASSUME NEW sys, Stacked(sys), NEW b, StandsOn(sys, b) = {}
    PROVE  Physical(sys, b) = {b} \ sys.loops
<1>1. PICK P \in SUBSET (sys.blocks \cup {b}) :
         /\ Physical(sys, b) = {c \in P : StandsOn(sys, c) = {}} \ sys.loops
         /\ b \in P
         /\ \A X \in SUBSET (sys.blocks \cup {b}) :
               b \in X /\ (\A c \in X : StandsOn(sys, c) \subseteq X) => P \subseteq X
    BY PhysicalReached
<1>2. {b} \in SUBSET (sys.blocks \cup {b}) /\ \A c \in {b} : StandsOn(sys, c) \subseteq {b} OBVIOUS
<1>3. P = {b} BY <1>1, <1>2
<1> QED BY <1>1, <1>3

LEMMA PhysicalOfPartition ==
    ASSUME NEW sys, Stacked(sys), NEW p \in DOMAIN sys.parent
    PROVE  /\ StandsOn(sys, sys.parent[p]) = {} /\ sys.parent[p] \in sys.blocks
           /\ Physical(sys, p) = {sys.parent[p]} \ sys.loops
<1> DEFINE d == sys.parent[p]
<1>1. /\ p \notin DOMAIN sys.slaves /\ d \in sys.blocks
      /\ d \notin DOMAIN sys.slaves /\ d \notin DOMAIN sys.parent
    BY DEF Stacked
<1>2. StandsOn(sys, d) = {} /\ StandsOn(sys, p) = {d}
    BY <1>1 DEF StandsOn, Slaves, IsPartition
<1>3. PICK P \in SUBSET (sys.blocks \cup {p}) :
         /\ Physical(sys, p) = {c \in P : StandsOn(sys, c) = {}} \ sys.loops
         /\ p \in P /\ \A c \in P : StandsOn(sys, c) \subseteq P
         /\ \A X \in SUBSET (sys.blocks \cup {p}) :
               p \in X /\ (\A c \in X : StandsOn(sys, c) \subseteq X) => P \subseteq X
    BY PhysicalReached
<1> HIDE DEF d
<1>4. {p, d} \in SUBSET (sys.blocks \cup {p}) /\ \A c \in {p, d} : StandsOn(sys, c) \subseteq {p, d}
    BY <1>1, <1>2
<1>5. P = {p, d} BY <1>2, <1>3, <1>4
<1>6. Physical(sys, p) = {d} \ sys.loops BY <1>2, <1>3, <1>5
<1> QED BY <1>1, <1>2, <1>6 DEF d

(* The four steps of sysfs_slaves.                                         *)
FurtherExpanded(sys, f) ==
    [c \in sys.blocks |-> IF Slaves(sys, c) = {} THEN {Whole(sys, c)}
                          ELSE UNION {f[Whole(sys, s)] : s \in Slaves(sys, c)}]

LEMMA SlavesExpanded ==
    ASSUME NEW sys
    PROVE  \E f : /\ f[0] = [c \in sys.blocks |-> {Whole(sys, c)}]
                  /\ \A k \in 1..4 : f[k] = FurtherExpanded(sys, f[k - 1])
                  /\ \A b \in sys.blocks : ~IsPartition(sys, b) => SysfsSlaves(sys, b) = f[4][b]
<1> DEFINE Level(f, k) ==
               [c \in sys.blocks |->
                   IF k = 0 \/ Slaves(sys, c) = {} THEN {Whole(sys, c)}
                   ELSE UNION {f[k - 1][Whole(sys, s)] : s \in Slaves(sys, c)}]
           f == CHOOSE g : g = [k \in 0..4 |-> Level(g, k)]
           e0 == [c \in sys.blocks |-> {Whole(sys, c)}]
           e1 == FurtherExpanded(sys, e0)
           e2 == FurtherExpanded(sys, e1)
           e3 == FurtherExpanded(sys, e2)
           e4 == FurtherExpanded(sys, e3)
           e == [k \in 0..4 |-> IF k = 0 THEN e0 ELSE IF k = 1 THEN e1 ELSE IF k = 2 THEN e2
                                ELSE IF k = 3 THEN e3 ELSE e4]
<1>1. \A b \in sys.blocks : ~IsPartition(sys, b) => SysfsSlaves(sys, b) = f[4][b]
    BY Zenon DEF SysfsSlaves
<1>2. \A g : Level(g, 0) = e0 OBVIOUS
<1>3. \A g : \A k \in 1..4 : Level(g, k) = FurtherExpanded(sys, g[k - 1])
    BY DEF FurtherExpanded
<1>4. e = [k \in 0..4 |-> Level(e, k)]
    <2>1. e[0] = e0 /\ e[1] = e1 /\ e[2] = e2 /\ e[3] = e3 /\ e[4] = e4
        <3> HIDE DEF e0, e1, e2, e3, e4
        <3> QED OBVIOUS
    <2> HIDE DEF Level, e0
    <2>2. Level(e, 0) = e0 BY <1>2
    <2>3. \A k \in 1..4 : Level(e, k) = FurtherExpanded(sys, e[k - 1]) BY <1>3
    <2>4. /\ Level(e, 1) = FurtherExpanded(sys, e[0]) /\ Level(e, 2) = FurtherExpanded(sys, e[1])
          /\ Level(e, 3) = FurtherExpanded(sys, e[2]) /\ Level(e, 4) = FurtherExpanded(sys, e[3])
        BY <2>3
    <2>5. \A k \in 0..4 : k = 0 \/ k = 1 \/ k = 2 \/ k = 3 \/ k = 4 OBVIOUS
    <2>6. \A k \in 0..4 : e[k] = Level(e, k) BY <2>1, <2>2, <2>4, <2>5
    <2>7. DOMAIN e = 0..4 OBVIOUS
    <2>8. e = [k \in 0..4 |-> e[k]] OBVIOUS
    <2> HIDE DEF e
    <2> QED BY <2>6, <2>8
<1>5. f = [k \in 0..4 |-> Level(f, k)]
    <2> HIDE DEF Level, e
    <2> QED BY <1>4
<1> HIDE DEF f
<1>6. f[0] = e0 /\ \A k \in 1..4 : f[k] = FurtherExpanded(sys, f[k - 1])
    <2> HIDE DEF Level, e0
    <2>1. \A k \in 0..4 : f[k] = Level(f, k) BY <1>5
    <2>2. f[0] = e0 BY <2>1, <1>2
    <2>3. \A k \in 1..4 : f[k] = FurtherExpanded(sys, f[k - 1]) BY <2>1, <1>3
    <2> QED BY <2>2, <2>3
<1> QED BY <1>1, <1>6

(* Where no device is stacked deeper, sysfs_slaves comes to the disks that *)
(* a device stands on, and to loop devices.                                *)
LEMMA SlavesArePhysical ==
    ASSUME NEW sys, Stacked(sys), NEW level, IsLevel(sys, level),
           NEW b \in sys.blocks, ~IsPartition(sys, b)
    PROVE  /\ SysfsSlaves(sys, b) \ sys.loops = Physical(sys, b)
           /\ SysfsSlaves(sys, b) # {}
           /\ \A d \in SysfsSlaves(sys, b) : d \in sys.blocks /\ StandsOn(sys, d) = {}
<1> DEFINE Height(c) == IF c \in DOMAIN sys.slaves THEN level[c] ELSE 0
           Right(T, c) == /\ T \ sys.loops = Physical(sys, c) /\ T # {}
                          /\ \A d \in T : d \in sys.blocks /\ StandsOn(sys, d) = {}
<1>1. PICK f : /\ f[0] = [c \in sys.blocks |-> {Whole(sys, c)}]
               /\ \A k \in 1..4 : f[k] = FurtherExpanded(sys, f[k - 1])
               /\ \A c \in sys.blocks : ~IsPartition(sys, c) => SysfsSlaves(sys, c) = f[4][c]
    BY SlavesExpanded
<1> DEFINE Good(k) == \A c \in sys.blocks : ~IsPartition(sys, c) /\ Height(c) <= k => Right(f[k][c], c)
<1>2. \A c \in sys.blocks : ~IsPartition(sys, c) /\ Height(c) = 0
          => Slaves(sys, c) = {} /\ Right({Whole(sys, c)}, c)
    <2> SUFFICES ASSUME NEW c \in sys.blocks, ~IsPartition(sys, c), Height(c) = 0
                 PROVE  Slaves(sys, c) = {} /\ Right({Whole(sys, c)}, c)
        OBVIOUS
    <2>1. c \notin DOMAIN sys.slaves
        <3>1. c \in DOMAIN sys.slaves => level[c] \in 1..4 BY DEF IsLevel
        <3> QED BY <3>1
    <2>2. Slaves(sys, c) = {} /\ Whole(sys, c) = c /\ StandsOn(sys, c) = {}
        BY <2>1 DEF Slaves, Whole, StandsOn
    <2>3. Physical(sys, c) = {c} \ sys.loops BY <2>2, PhysicalOfEnd
    <2> QED BY <2>2, <2>3
<1>3. Good(0)
    <2>1. \A c \in sys.blocks : f[0][c] = {Whole(sys, c)} BY <1>1
    <2>2. ASSUME NEW c \in sys.blocks, ~IsPartition(sys, c), Height(c) <= 0 PROVE Height(c) = 0
        <3>1. c \in DOMAIN sys.slaves => level[c] \in 1..4 BY DEF IsLevel
        <3> QED BY <3>1, <2>2
    <2> HIDE DEF Height, Right
    <2> QED BY <2>1, <2>2, <1>2
<1>4. ASSUME NEW k \in 1..4, Good(k - 1) PROVE Good(k)
    <2> SUFFICES ASSUME NEW c \in sys.blocks, ~IsPartition(sys, c), Height(c) <= k
                 PROVE  Right(f[k][c], c)
        OBVIOUS
    <2>1. f[k][c] = IF Slaves(sys, c) = {} THEN {Whole(sys, c)}
                    ELSE UNION {f[k - 1][Whole(sys, s)] : s \in Slaves(sys, c)}
        <3>1. f[k] = FurtherExpanded(sys, f[k - 1]) BY <1>1
        <3> QED BY <3>1 DEF FurtherExpanded
    <2>2. CASE c \notin DOMAIN sys.slaves
        <3>1. Height(c) = 0 BY <2>2
        <3> HIDE DEF Right, Height
        <3> QED BY <3>1, <2>1, <1>2
    <2>3. CASE c \in DOMAIN sys.slaves
        <3> DEFINE S == sys.slaves[c]
        <3>1. /\ Slaves(sys, c) = S /\ S # {} /\ S \subseteq sys.blocks /\ level[c] \in 1..4 /\ level[c] <= k
              /\ \A s \in S \cap DOMAIN sys.slaves : level[s] < level[c] /\ level[s] \in 1..4
            BY <2>3 DEF IsLevel, Slaves, Stacked
        <3>2. ASSUME NEW s \in S PROVE Right(f[k - 1][Whole(sys, s)], s)
            <4>1. CASE IsPartition(sys, s)
                <5> DEFINE d == sys.parent[s]
                <5>1. s \in DOMAIN sys.parent /\ Whole(sys, s) = d BY <4>1 DEF IsPartition, Whole
                <5>2. StandsOn(sys, d) = {} /\ d \in sys.blocks /\ Physical(sys, s) = {d} \ sys.loops
                    BY <5>1, PhysicalOfPartition
                <5>3. Physical(sys, d) = {d} \ sys.loops BY <5>2, PhysicalOfEnd
                <5>4. ~IsPartition(sys, d) /\ d \notin DOMAIN sys.slaves
                    BY <5>1 DEF Stacked, IsPartition
                <5>5. Height(d) = 0 BY <5>4
                <5>6. Right(f[k - 1][d], d) BY <5>2, <5>4, <5>5, <1>4
                <5> HIDE DEF d, Height
                <5>7. Right(f[k - 1][d], s) BY <5>2, <5>3, <5>6
                <5> QED BY <5>1, <5>7
            <4>2. CASE ~IsPartition(sys, s)
                <5>1. Whole(sys, s) = s /\ s \in sys.blocks BY <4>2, <3>1 DEF Whole
                <5>2. Height(s) <= k - 1 BY <3>1
                <5> HIDE DEF Height, Right, S
                <5> QED BY <4>2, <5>1, <5>2, <1>4
            <4> QED BY <4>1, <4>2
        <3>3. Physical(sys, c) = UNION {Physical(sys, s) : s \in S} BY <2>3, <3>1, PhysicalOfStack
        <3> DEFINE F(s) == f[k - 1][Whole(sys, s)]
        <3>4. f[k][c] = UNION {F(s) : s \in S} BY <2>1, <3>1
        <3>5. \A s \in S : Right(F(s), s) BY <3>2
        <3> HIDE DEF F, S, Height
        <3> QED BY <3>1, <3>3, <3>4, <3>5
    <2> QED BY <2>2, <2>3
<1>5. Good(4)
    <2> HIDE DEF Good
    <2>1. Good(1) BY <1>3, <1>4
    <2>2. Good(2) BY <2>1, <1>4
    <2>3. Good(3) BY <2>2, <1>4
    <2> QED BY <2>3, <1>4
<1>6. Height(b) <= 4
    <2>1. b \in DOMAIN sys.slaves => level[b] \in 1..4 BY DEF IsLevel
    <2> QED BY <2>1
<1>7. Right(f[4][b], b)
    <2> HIDE DEF Right, Height
    <2> QED BY <1>5, <1>6
<1>8. SysfsSlaves(sys, b) = f[4][b] BY <1>1
<1> QED BY <1>7, <1>8

LEMMA StackedHasSlaves ==
    ASSUME NEW h, IsHost(h), NEW s \in DOMAIN h.slaves
    PROVE  s \in DOMAIN Stackings /\ h.slaves[s] \in Stackings[s] /\ h.slaves[s] # {}
<1>1. s \in DOMAIN Stackings /\ h.slaves[s] \in Stackings[s] BY DEF IsHost, IsStacking
<1>2. DOMAIN Stackings = DOMAIN Mapped \cup DOMAIN Arrays BY StackingsAre
<1>3. CASE s \in DOMAIN Mapped
    <2>1. Stackings[s] = Mapped[s] BY <1>2, <1>3 DEF Stackings
    <2>2. {} \notin Mapped[s] BY <1>3, HostAssumption
    <2> QED BY <1>1, <2>1, <2>2
<1>4. CASE s \in DOMAIN Arrays
    <2>1. PICK array \in Arrays[s] : h.slaves[s] = MembersOf(array) BY <1>1, <1>4, StackingsAre
    <2>2. IsArray(array) BY <1>4, HostAssumption
    <2> QED BY <1>1, <2>1, <2>2, ArrayHasMembers
<1> QED BY <1>1, <1>2, <1>3, <1>4

LEMMA HostHasLevels ==
    ASSUME FourLevels, NEW h, IsHost(h)
    PROVE  \E level : IsLevel(Sys(h), level)
<1>1. PICK level \in [DOMAIN Stackings -> 1..4] :
         \A s \in DOMAIN Stackings : \A under \in Stackings[s] : \A c \in under \cap DOMAIN Stackings :
             level[c] < level[s]
    BY DEF FourLevels
<1>2. Sys(h).slaves = h.slaves BY DEF Sys
<1>3. ASSUME NEW s \in DOMAIN h.slaves
      PROVE  /\ level[s] \in 1..4 /\ h.slaves[s] # {}
             /\ \A c \in h.slaves[s] \cap DOMAIN h.slaves : level[c] < level[s]
    <2>1. s \in DOMAIN Stackings /\ h.slaves[s] \in Stackings[s] /\ h.slaves[s] # {}
        BY StackedHasSlaves
    <2>2. \A c \in DOMAIN h.slaves : c \in DOMAIN Stackings BY StackedHasSlaves
    <2> QED BY <2>1, <2>2, <1>1
<1>4. IsLevel(Sys(h), level) BY <1>2, <1>3 DEF IsLevel
<1> QED BY <1>4

(* What is under a block of a host are disks, and these are what each of   *)
(* the ways down to them finds.                                            *)
LEMMA PhysicalAreDisks ==
    ASSUME NEW h, IsHost(h), NEW b \in Blocks(h)
    PROVE  Physical(Sys(h), b) \subseteq Disks
<1> DEFINE sys == Sys(h)
<1>1. /\ sys.blocks = Blocks(h) /\ sys.parent = ParentOf /\ sys.slaves = h.slaves /\ sys.loops = Loops
    BY DEF Sys
<1>2. Stacked(sys) BY HostIsStacked
<1> HIDE DEF sys
<1>3. PICK P \in SUBSET (sys.blocks \cup {b}) :
         Physical(sys, b) = {c \in P : StandsOn(sys, c) = {}} \ sys.loops
    BY <1>2, PhysicalReached
<1>4. ASSUME NEW c \in Physical(sys, b) PROVE c \in Disks
    <2>1. c \in Blocks(h) /\ StandsOn(sys, c) = {} /\ c \notin Loops BY <1>1, <1>3
    <2>2. c \notin DOMAIN ParentOf BY <2>1, <1>1 DEF StandsOn, IsPartition
    <2>3. c \in DOMAIN h.slaves => h.slaves[c] = {} BY <2>1, <1>1 DEF StandsOn, Slaves
    <2>4. c \notin DOMAIN h.slaves BY <2>3, StackedHasSlaves
    <2> QED BY <2>1, <2>2, <2>4 DEF Blocks
<1> QED BY <1>4 DEF sys

LEMMA WaysDown ==
    ASSUME FourLevels, NEW h, IsHost(h), NEW b \in Blocks(h)
    PROVE  LET sys == Sys(h)
           IN  /\ \A d \in Disks :
                    /\ Whole(sys, b) = d => d \in Physical(sys, b)
                    /\ d \in SysfsSlaves(sys, b) => d \in Physical(sys, b)
                    /\ d \in Physical(sys, b) =>
                          (Whole(sys, b) = d /\ IsPartition(sys, b)) \/ d \in SysfsSlaves(sys, b)
                    /\ d \in LeafDisks(sys, b) <=> d \in Physical(sys, b)
               /\ \A c \in SysfsSlaves(sys, b) :
                    c \in Blocks(h) /\ Physical(sys, c) \subseteq Physical(sys, b)
               /\ IsPartition(sys, b) => SysfsSlaves(sys, b) = {}
               /\ Whole(sys, b) \in Blocks(h) /\ Physical(sys, Whole(sys, b)) = Physical(sys, b)
<1> DEFINE sys == Sys(h)
<1>1. /\ sys.blocks = Blocks(h) /\ sys.parent = ParentOf /\ sys.slaves = h.slaves /\ sys.loops = Loops
    BY DEF Sys
<1>2. Stacked(sys) BY HostIsStacked
<1>3. PICK level : IsLevel(sys, level) BY HostHasLevels
<1>4. Disks \cap Loops = {} /\ \A p \in DOMAIN ParentOf : ParentOf[p] \in Disks BY HostAssumption
<1>5. Disks \cap DOMAIN h.slaves = {} /\ Disks \cap DOMAIN ParentOf = {}
    <2>1. Disks \cap (DOMAIN Mapped \cup DOMAIN Arrays) = {} /\ Disks \cap DOMAIN ParentOf = {}
        BY HostAssumption
    <2>2. \A s \in DOMAIN h.slaves : s \in DOMAIN Mapped \cup DOMAIN Arrays
        BY StackedHasSlaves, StackingsAre
    <2> QED BY <2>1, <2>2
<1>6. b \in sys.blocks BY <1>1
<1> HIDE DEF sys
<1>7. CASE IsPartition(sys, b)
    <2> DEFINE e == Whole(sys, b)
    <2>1. SysfsSlaves(sys, b) = {} BY <1>7 DEF SysfsSlaves
    <2>2. LeafDisks(sys, b) = {e} BY <2>1 DEF LeafDisks
    <2>3. b \in DOMAIN sys.parent /\ e = sys.parent[b] BY <1>7 DEF IsPartition, Whole
    <2>4. Physical(sys, b) = {e} \ Loops /\ e \in sys.blocks /\ StandsOn(sys, e) = {}
        BY <2>3, <1>1, <1>2, PhysicalOfPartition
    <2>5. Physical(sys, e) = {e} \ Loops BY <2>4, <1>1, <1>2, PhysicalOfEnd
    <2> HIDE DEF e
    <2> QED BY <2>1, <2>2, <2>4, <2>5, <1>1, <1>4, <1>7 DEF e, sys
<1>8. CASE ~IsPartition(sys, b)
    <2> DEFINE T == SysfsSlaves(sys, b)
    <2>1. /\ T \ Loops = Physical(sys, b) /\ T # {}
          /\ \A c \in T : c \in sys.blocks /\ StandsOn(sys, c) = {}
        BY <1>1, <1>2, <1>3, <1>6, <1>8, SlavesArePhysical
    <2>2. LeafDisks(sys, b) = T BY <2>1 DEF LeafDisks
    <2>3. Whole(sys, b) = b BY <1>8 DEF Whole
    <2>4. ASSUME NEW c \in T PROVE c \in Blocks(h) /\ Physical(sys, c) \subseteq Physical(sys, b)
        <3>1. Physical(sys, c) = {c} \ Loops BY <2>1, <1>1, <1>2, PhysicalOfEnd
        <3> QED BY <3>1, <2>1, <1>1
    <2>5. b \in Disks => b \in Physical(sys, b)
        <3>1. ASSUME b \in Disks PROVE b \in Physical(sys, b)
            <4>1. StandsOn(sys, b) = {} BY <3>1, <1>1, <1>5, <1>8 DEF StandsOn, Slaves
            <4> QED BY <3>1, <4>1, <1>1, <1>2, <1>4, PhysicalOfEnd
        <3> QED BY <3>1
    <2> HIDE DEF T
    <2> QED BY <2>1, <2>2, <2>3, <2>4, <2>5, <1>1, <1>4, <1>6, <1>8 DEF T, sys
<1> QED BY <1>7, <1>8

(* A name that is cut is none of a device, so that a disk whose name is not*)
(* cut is found by the one fold just when it is by the other.              *)
LEMMA LetteredNames ==
    ASSUME NEW h, NEW d \in Lettered, NEW b
    PROVE  LET sys == Sys(h)
           IN  /\ WholeDiskName(sys, d) = d
               /\ WholeDiskName(sys, b) = d <=> Whole(sys, b) = d
               /\ WholeDiskName(sys, WholeDiskName(sys, b)) = d <=> WholeDiskName(sys, b) = d
<1> DEFINE sys == Sys(h)
<1>1. sys.parent = ParentOf /\ sys.stems = Stems BY DEF Sys
<1>2. /\ DOMAIN Stems \subseteq (Disks \cup Loops) \ DOMAIN ParentOf
      /\ \A c \in DOMAIN Stems : Stems[c] \notin Devnodes
      /\ \A p \in DOMAIN ParentOf : ParentOf[p] \in Disks
      /\ Disks \cap DOMAIN ParentOf = {}
    BY HostAssumption
<1>3. d \in Disks /\ d \notin DOMAIN Stems BY DEF Lettered
<1> HIDE DEF sys
<1> DEFINE W(c) == WholeDiskName(sys, c)
<1>4. \A c : W(c) = IF c \in DOMAIN Stems THEN Stems[c] ELSE IF c \in DOMAIN ParentOf THEN ParentOf[c] ELSE c
    BY <1>1 DEF WholeDiskName, Whole, IsPartition
<1>5. Whole(sys, b) = IF b \in DOMAIN ParentOf THEN ParentOf[b] ELSE b BY <1>1 DEF Whole, IsPartition
<1> HIDE DEF W
<1>6. Disks \cup Loops \cup DOMAIN ParentOf \subseteq Devnodes BY DEF Devnodes
<1>7. W(d) = d BY <1>2, <1>3, <1>4
<1>8. W(b) = d <=> Whole(sys, b) = d
    <2>1. CASE b \in DOMAIN Stems BY <2>1, <1>2, <1>3, <1>4, <1>5, <1>6
    <2>2. CASE b \notin DOMAIN Stems BY <2>2, <1>4, <1>5
    <2> QED BY <2>1, <2>2
<1>9. W(W(b)) = d <=> W(b) = d
    <2>1. CASE b \in DOMAIN Stems BY <2>1, <1>2, <1>4, <1>6
    <2>2. CASE b \notin DOMAIN Stems /\ b \in DOMAIN ParentOf
        <3>1. W(b) = ParentOf[b] /\ ParentOf[b] \in Disks BY <2>2, <1>2, <1>4
        <3>2. W(ParentOf[b]) = d <=> ParentOf[b] = d BY <3>1, <1>2, <1>3, <1>4, <1>6
        <3> QED BY <3>1, <3>2
    <2>3. CASE b \notin DOMAIN Stems /\ b \notin DOMAIN ParentOf BY <2>3, <1>4
    <2> QED BY <2>1, <2>2, <2>3
<1> QED BY <1>7, <1>8, <1>9 DEF W, sys

LEMMA LetteredFold ==
    ASSUME NEW h, NEW d \in Lettered
    PROVE  \A b : WholeDiskName(Sys(h), b) = d <=> Whole(Sys(h), b) = d
<1> DEFINE W(c) == WholeDiskName(Sys(h), c)
<1>1. \A b : (W(b) = d <=> Whole(Sys(h), b) = d) /\ (W(W(b)) = d <=> W(b) = d) BY LetteredNames
<1> QED BY <1>1

LEMMA LetteredWays ==
    ASSUME FourLevels, NEW h, IsHost(h), NEW b \in Blocks(h), NEW d \in Lettered
    PROVE  LET sys == Sys(h)
           IN  /\ WholeDiskName(sys, d) = d
               /\ WholeDiskName(sys, b) = d => d \in Physical(sys, b)
               /\ d \in StackedMembers(sys, b) => d \in Physical(sys, b)
               /\ d \in Physical(sys, b) =>
                     (WholeDiskName(sys, b) = d /\ StackedMembers(sys, b) = {}) \/ d \in StackedMembers(sys, b)
               /\ d \in Folded(sys, {b} \cup StackedMembers(sys, b)) <=> d \in Physical(sys, b)
               /\ d \in Folded(sys, LeafDisks(sys, b)) <=> d \in Physical(sys, b)
<1> DEFINE sys == Sys(h)
           T == SysfsSlaves(sys, b)
           W(c) == WholeDiskName(sys, c)
           P == Physical(sys, b)
<1>1. d \in Disks BY DEF Lettered
<1>2. /\ Whole(sys, b) = d => d \in P
      /\ d \in P => (Whole(sys, b) = d /\ T = {}) \/ d \in T
      /\ d \in LeafDisks(sys, b) <=> d \in P
      /\ \A c \in T : c \in Blocks(h) /\ Physical(sys, c) \subseteq P
      /\ Whole(sys, b) \in Blocks(h) /\ Physical(sys, Whole(sys, b)) = P
    BY <1>1, WaysDown
<1>3. \A c \in Blocks(h) : Whole(sys, c) = d => d \in Physical(sys, c) BY <1>1, WaysDown
<1>4. W(d) = d /\ \A c : (W(c) = d <=> Whole(sys, c) = d) /\ (W(W(c)) = d <=> W(c) = d)
    BY LetteredNames
<1>5. StackedMembers(sys, b) = {W(c) : c \in T} BY DEF StackedMembers
<1>6. LeafDisks(sys, b) = IF T = {} THEN {Whole(sys, b)} ELSE T BY DEF LeafDisks
<1>7. \A N : d \in Folded(sys, N) <=> \E c \in N : W(c) = d BY DEF Folded
<1> HIDE DEF sys, T, W, P
<1>8. ASSUME NEW c \in T, W(c) = d PROVE d \in P BY <1>2, <1>3, <1>4, <1>8
<1>9. d \in T => d \in StackedMembers(sys, b) BY <1>4, <1>5
<1>10. W(b) = d => d \in P BY <1>2, <1>4
<1>11. d \in StackedMembers(sys, b) => d \in P BY <1>5, <1>8
<1>12. d \in P => (W(b) = d /\ StackedMembers(sys, b) = {}) \/ d \in StackedMembers(sys, b)
    BY <1>2, <1>4, <1>5, <1>9
<1>13. d \in Folded(sys, {b} \cup StackedMembers(sys, b)) <=> d \in P
    <2>1. ASSUME NEW x \in StackedMembers(sys, b), W(x) = d PROVE d \in P
        <3>1. PICK c \in T : x = W(c) BY <1>5
        <3> QED BY <3>1, <2>1, <1>4, <1>8
    <2> QED BY <2>1, <1>4, <1>7, <1>10, <1>12
<1>14. d \in Folded(sys, LeafDisks(sys, b)) <=> d \in P
    <2>1. ASSUME NEW x \in LeafDisks(sys, b), W(x) = d PROVE d \in P
        <3>1. CASE T = {} BY <3>1, <2>1, <1>2, <1>3, <1>4, <1>6
        <3>2. CASE T # {} BY <3>2, <2>1, <1>6, <1>8
        <3> QED BY <3>1, <3>2
    <2> QED BY <2>1, <1>2, <1>4, <1>7
<1> QED BY <1>4, <1>10, <1>11, <1>12, <1>13, <1>14 DEF sys, W, P

-----------------------------------------------------------------------------
(* The blocks that a mount is on, with the caches and spares of its pool.  *)
BlocksOn(h, m) ==
    IF m.fs.type = "zfs" THEN UNION {PoolDevices(pool) : pool \in {p \in h.imported : p.name = m.fs.source[1]}}
    ELSE m.fs.members

LEMMA BlocksOnAre ==
    ASSUME NEW h, IsHost(h), NEW m \in h.mounts
    PROVE  /\ BlocksOn(h, m) \subseteq Blocks(h)
           /\ m.fs.type = "zfs" =>
                \E pool \in h.imported : /\ pool.name = m.fs.source[1] /\ BlocksOn(h, m) = PoolDevices(pool)
                                         /\ \A q \in h.imported : q.name = m.fs.source[1] => q = pool
<1>1. /\ \A c \in Claims(h) : c[3] \subseteq Blocks(h)
      /\ \A p, q \in h.imported : p.name = q.name => p = q
      /\ m.fs.type = "zfs" => \E pool \in h.imported : pool.name = m.fs.source[1]
    BY DEF IsHost, Consistent
<1>2. ASSUME m.fs.type = "zfs", NEW pool \in h.imported, pool.name = m.fs.source[1]
      PROVE  BlocksOn(h, m) = PoolDevices(pool) /\ BlocksOn(h, m) \subseteq Blocks(h)
    <2>1. {p \in h.imported : p.name = m.fs.source[1]} = {pool} BY <1>1, <1>2
    <2>2. BlocksOn(h, m) = PoolDevices(pool) BY <1>2, <2>1 DEF BlocksOn
    <2> DEFINE c == <<"pool", pool.name, PoolDevices(pool)>>
    <2>3. c \in Claims(h) BY DEF Claims
    <2>4. c[3] = PoolDevices(pool) OBVIOUS
    <2> HIDE DEF c
    <2>5. PoolDevices(pool) \subseteq Blocks(h) BY <2>3, <2>4, <1>1
    <2> QED BY <2>2, <2>5
<1>3. CASE m.fs.type = "zfs"
    <2>1. PICK pool \in h.imported : pool.name = m.fs.source[1] BY <1>1, <1>3
    <2>2. BlocksOn(h, m) = PoolDevices(pool) /\ BlocksOn(h, m) \subseteq Blocks(h) BY <1>2, <1>3, <2>1
    <2> QED BY <2>1, <2>2, <1>1
<1>4. CASE m.fs.type # "zfs" BY <1>4, ClaimsHold DEF BlocksOn, IsHost
<1> QED BY <1>3, <1>4

(* A row is on the blocks that each of its mounts is on.                   *)
LEMMA RowOfMount ==
    ASSUME IsHost(host), NEW vols, AreOf(vols, host),
           NEW s \in Unassigned(Sys(host), host.mounts, vols), NEW m \in s.mounts
    PROVE  /\ m \in host.mounts
           /\ Under(host, BlocksOf(s)) \cup IdleDisks(s) = Under(host, BlocksOn(host, m))
<1>1. CASE s \in PoolRows(Sys(host), host.mounts, vols)
    <2>1. PICK pool \in host.imported :
             /\ Vdevs(s) = {pool.vdevs[i] : i \in DOMAIN pool.vdevs} /\ BlocksOf(s) = DataDisks(pool)
             /\ s.mounts = {n \in host.mounts : n.fs.type = "zfs" /\ n.fs.source[1] = pool.name}
        BY <1>1, RowOfPool
    <2>2. m \in host.mounts /\ m.fs.type = "zfs" /\ m.fs.source[1] = pool.name BY <2>1
    <2>3. BlocksOn(host, m) = PoolDevices(pool)
        <3>1. PICK p \in host.imported : /\ BlocksOn(host, m) = PoolDevices(p)
                                         /\ \A q \in host.imported : q.name = m.fs.source[1] => q = p
            BY <2>2, BlocksOnAre
        <3> QED BY <3>1, <2>2
    <2> DEFINE Idle == {v.name : v \in {w \in Vdevs(s) : w.type = "disk" /\ w.section \in {"cache", "spare"}}}
    <2>4. PoolDevices(pool) = DataDisks(pool) \cup Idle
        BY <2>1 DEF PoolDevices, DataDisks, HasData
    <2>5. IdleDisks(s) = Under(host, Idle) BY DEF IdleDisks, Under
    <2> HIDE DEF Idle
    <2>6. Under(host, DataDisks(pool) \cup Idle) = Under(host, DataDisks(pool)) \cup Under(host, Idle)
        BY DEF Under
    <2> QED BY <2>1, <2>2, <2>3, <2>4, <2>5, <2>6
<1>2. CASE s \in UnlistedPoolRows(host.mounts, vols) BY <1>2, NoneUnlisted
<1>3. CASE s \in BtrfsRows(Sys(host), host.mounts)
    <2> DEFINE sys == Sys(host)
               spanning == {n \in host.mounts : SpansDevices(sys, n)}
               members(id) == UNION {BtrfsMembers(sys.mounts, n.fs.source) : n \in {k \in spanning : k.fs.id = id}}
    <2>0. BtrfsRows(sys, host.mounts)
            = {Row(<<"btrfs", id>>, {n \in spanning : n.fs.id = id},
                   MemberDisks(sys, members(id)), CounterSources(sys, members(id)))
                 : id \in {n.fs.id : n \in spanning}}
        BY Zenon DEF BtrfsRows
    <2>1. PICK id : s = Row(<<"btrfs", id>>, {n \in spanning : n.fs.id = id},
                            MemberDisks(sys, members(id)), CounterSources(sys, members(id)))
        <3> HIDE DEF sys, members, spanning
        <3> QED BY <2>0, <1>3 DEF sys
    <2>2. s.id = <<"btrfs", id>> /\ s.mounts = {n \in spanning : n.fs.id = id}
        <3> HIDE DEF sys, members, spanning
        <3> QED BY <2>1 DEF Row
    <2> HIDE DEF members
    <2>10. s.id[1] = "btrfs" BY <2>2
    <2>3. \A n \in s.mounts : n \in host.mounts /\ n.fs.type = "btrfs" /\ n.fs.id = id
        BY <2>2 DEF SpansDevices
    <2>4. ASSUME NEW n \in s.mounts PROVE n.fs.members = m.fs.members
        <3>1. n.fs \in FileSystems /\ m.fs \in FileSystems BY <2>3 DEF IsHost, AllMounts
        <3>2. n.fs.id = m.fs.id /\ n.fs.type = "btrfs" BY <2>3
        <3>3. IsOneFileSystem(n.fs, m.fs) BY <3>1, <3>2, HostAssumption
        <3> QED BY <3>2, <3>3 DEF IsOneFileSystem
    <2>5. BlocksOf(s) = UNION {n.fs.members : n \in {k \in s.mounts : k.fs.type # "zfs"}} /\ Vdevs(s) = {}
        BY <2>10, BlocksOfMounts
    <2>6. BlocksOf(s) = m.fs.members /\ IdleDisks(s) = {} BY <2>3, <2>4, <2>5 DEF IdleDisks
    <2>7. BlocksOn(host, m) = m.fs.members BY <2>3 DEF BlocksOn
    <2> QED BY <2>3, <2>6, <2>7
<1>4. CASE s \in OrdinaryRows(Sys(host), host.mounts, vols)
    <2>1. PICK b : /\ s.id[1] = "fs" /\ BlocksOf(s) = {b}
                   /\ \A n \in s.mounts : n \in host.mounts /\ n.fs.type # "zfs" /\ n.fs.members = {b}
        BY <1>4, RowOfSource
    <2>2. Vdevs(s) = {} BY <2>1, BlocksOfMounts
    <2>3. IdleDisks(s) = {} BY <2>2 DEF IdleDisks
    <2>4. BlocksOn(host, m) = {b} /\ m \in host.mounts BY <2>1 DEF BlocksOn
    <2> QED BY <2>1, <2>3, <2>4
<1>5. CASE s \in SwapRows(Sys(host))
    <2>1. PICK b : s = Row(<<"swap", b>>, {}, MemberDisks(Sys(host), {b}), {b}) BY <1>5 DEF SwapRows
    <2>2. s.mounts = {} BY <2>1 DEF Row
    <2> QED BY <2>2
<1> QED BY <1>1, <1>2, <1>3, <1>4, <1>5 DEF Unassigned

-----------------------------------------------------------------------------
(* Where a mount is shown.  Its pool is the one that was listed under the  *)
(* name, the leaves of which are the devices of the pool.                  *)
LEMMA PoolOfMount ==
    ASSUME IsHost(host), NEW vols, AreOf(vols, host), NEW m \in host.mounts, m.fs.type = "zfs"
    PROVE  \E t : /\ PoolsOf(m, vols) = {t} /\ t \in vols.zfs /\ t.name = m.fs.source[1]
                  /\ LeafNames(t) = BlocksOn(host, m)
<1>1. PICK pool \in host.imported : /\ pool.name = m.fs.source[1] /\ BlocksOn(host, m) = PoolDevices(pool)
                                    /\ \A q \in host.imported : q.name = m.fs.source[1] => q = pool
    BY BlocksOnAre
<1>2. PICK parsed : /\ vols.zfs = {parsed[p] : p \in host.imported}
                    /\ \A p \in host.imported : IsParse(parsed[p], p)
    BY DEF AreOf, IsListing
<1> DEFINE t == parsed[pool]
<1>3. t \in vols.zfs /\ t.name = m.fs.source[1] /\ LeafNames(t) = BlocksOn(host, m)
    BY <1>1, <1>2 DEF IsParse
<1>4. ASSUME NEW u \in vols.zfs, u.name = m.fs.source[1] PROVE u = t
    <2>1. PICK p \in host.imported : u = parsed[p] BY <1>2
    <2>2. p.name = m.fs.source[1] BY <2>1, <1>2, <1>4 DEF IsParse
    <2> QED BY <2>1, <2>2, <1>1
<1> HIDE DEF t
<1>5. PoolsOf(m, vols) = {t} BY <1>3, <1>4 DEF PoolsOf
<1> QED BY <1>3, <1>5

(* Of a file system that is no btrfs /sys/fs/btrfs knows nothing.          *)
LEMMA BtrfsOfMount ==
    ASSUME NEW h, IsHost(h), NEW m \in h.mounts, m.fs.type # "zfs"
    PROVE  /\ m.fs.source \in m.fs.members /\ m.fs.members \subseteq Blocks(h)
           /\ m.fs.type = "btrfs" => BtrfsMembers(Sys(h).mounts, m.fs.source) = m.fs.members
           /\ m.fs.type # "btrfs" =>
                m.fs.members = {m.fs.source} /\ BtrfsMembers(Sys(h).mounts, m.fs.source) = {}
<1>1. \A n \in h.mounts : n.fs \in FileSystems BY DEF IsHost, AllMounts
<1>2. IsFileSystem(m.fs) BY <1>1, HostAssumption
<1>3. m.fs.source \in m.fs.members /\ (m.fs.type # "btrfs" => m.fs.members = {m.fs.source})
    BY <1>2 DEF IsFileSystem
<1>4. Sys(h).mounts = h.mounts BY DEF Sys
<1>5. ASSUME m.fs.type # "btrfs", NEW n \in h.mounts, n.fs.type = "btrfs", m.fs.source \in n.fs.members
      PROVE  FALSE
    <2>1. n.fs.type # "zfs" /\ m.fs.members \cap n.fs.members # {} BY <1>3, <1>5
    <2>2. m.fs.id = n.fs.id BY <2>1, ClaimsHold DEF IsHost
    <2>3. IsOneFileSystem(m.fs, n.fs) BY <2>2, <1>1, HostAssumption
    <2> QED BY <2>3, <1>5 DEF IsOneFileSystem
<1>6. m.fs.type # "btrfs" => BtrfsMembers(h.mounts, m.fs.source) = {} BY <1>5 DEF BtrfsMembers
<1> QED BY <1>3, <1>4, <1>6, MembersOfMount, ClaimsHold DEF IsHost

LEMMA ShownAreUnder ==
    ASSUME FourLevels, IsHost(host), NEW vols, AreOf(vols, host), NEW m \in host.mounts, NEW d \in Lettered
    PROVE  /\ HasMountLabel(Sys(host), m, d, vols) <=> d \in Under(host, BlocksOn(host, m))
           /\ IsAttributable(Sys(host), m, d, vols) <=> d \in Under(host, BlocksOn(host, m))
<1>1. BlocksOn(host, m) \subseteq Blocks(host) BY BlocksOnAre
<1>2. \A b \in Blocks(host) :
        /\ WholeDiskName(Sys(host), b) = d => d \in Physical(Sys(host), b)
        /\ d \in StackedMembers(Sys(host), b) => d \in Physical(Sys(host), b)
        /\ d \in Physical(Sys(host), b) =>
              WholeDiskName(Sys(host), b) = d \/ d \in StackedMembers(Sys(host), b)
        /\ d \in Folded(Sys(host), {b} \cup StackedMembers(Sys(host), b)) <=> d \in Physical(Sys(host), b)
        /\ d \in Folded(Sys(host), LeafDisks(Sys(host), b)) <=> d \in Physical(Sys(host), b)
    BY LetteredWays
<1>0. WholeDiskName(Sys(host), d) = d BY LetteredNames
<1>3. CASE m.fs.type = "zfs"
    <2>1. PICK t : PoolsOf(m, vols) = {t} /\ LeafNames(t) = BlocksOn(host, m) BY <1>3, PoolOfMount
    <2> DEFINE IsLeafOf(b) == d \in Folded(Sys(host), LeafDisks(Sys(host), b))
    <2>2. IsInPool(Sys(host), m, d, vols) <=> \E leaf \in Leaves(t) : IsLeafOf(leaf.name)
        BY <2>1, <1>0 DEF IsInPool
    <2>4. (\E b \in BlocksOn(host, m) : IsLeafOf(b)) <=> d \in Under(host, BlocksOn(host, m))
        BY <1>1, <1>2 DEF Under
    <2> HIDE DEF IsLeafOf
    <2>3. (\E leaf \in Leaves(t) : IsLeafOf(leaf.name)) <=> \E b \in BlocksOn(host, m) : IsLeafOf(b)
        BY <2>1 DEF LeafNames
    <2> QED BY <1>3, <2>2, <2>3, <2>4 DEF HasMountLabel, IsAttributable
<1>4. CASE m.fs.type # "zfs"
    <2> DEFINE b == m.fs.source
               btrfs == BtrfsMembers(Sys(host).mounts, b)
    <2>1. /\ BlocksOn(host, m) = m.fs.members /\ b \in m.fs.members /\ b \in Blocks(host)
          /\ btrfs = m.fs.members \/ (btrfs = {} /\ m.fs.members = {b})
        BY <1>1, <1>4, BtrfsOfMount DEF BlocksOn
    <2> HIDE DEF btrfs
    <2>2. d = b => WholeDiskName(Sys(host), b) = d BY <1>0
    <2>3. IsDirect(Sys(host), m, d) <=> WholeDiskName(Sys(host), b) = d BY <2>2 DEF IsDirect
    <2>4. IsUnderSource(Sys(host), m, d) <=>
            \/ \E c \in btrfs : d \in Folded(Sys(host), {c} \cup StackedMembers(Sys(host), c))
            \/ d \in StackedMembers(Sys(host), b)
        BY <1>0, Zenon DEF IsUnderSource, btrfs
    <2>5. HasMountLabel(Sys(host), m, d, vols) <=> \E c \in m.fs.members : d \in Physical(Sys(host), c)
        <3>1. HasMountLabel(Sys(host), m, d, vols)
                <=> IsDirect(Sys(host), m, d) \/ IsUnderSource(Sys(host), m, d)
            BY <1>4 DEF HasMountLabel
        <3> HIDE DEF b
        <3> QED BY <3>1, <2>1, <2>3, <2>4, <1>1, <1>2
    <2>6. ASSUME IsInArray(Sys(host), m, d, vols) PROVE d \in Physical(Sys(host), b)
        <3>1. PICK array \in ArraysAt(vols, b) : d \in {array.name} \cup {WholeDiskName(Sys(host), c) : c \in Devices(array)}
            BY <2>6 DEF IsInArray
        <3>2. /\ array.name = b /\ b \in DOMAIN host.slaves
              /\ Devices(array) = host.slaves[b] /\ host.slaves[b] # {}
            BY <2>1, <3>1, ArrayOfMount
        <3>3. CASE d = b BY <3>3, <2>1, <2>2, <1>2
        <3>4. CASE d # b
            <4>1. PICK c \in host.slaves[b] : d = WholeDiskName(Sys(host), c) BY <3>1, <3>2, <3>4
            <4>2. c \in Blocks(host) BY <4>1, <3>2, ClaimsHold DEF IsHost
            <4>3. d \in Physical(Sys(host), c) BY <4>1, <4>2, <1>2
            <4>4. Sys(host).slaves = host.slaves /\ Stacked(Sys(host)) BY HostIsStacked DEF Sys
            <4>5. Physical(Sys(host), b) = UNION {Physical(Sys(host), e) : e \in host.slaves[b]}
                BY <3>2, <4>4, PhysicalOfStack
            <4> QED BY <4>1, <4>3, <4>5
        <3> QED BY <3>3, <3>4
    <2>7. IsAttributable(Sys(host), m, d, vols) <=> \E c \in m.fs.members : d \in Physical(Sys(host), c)
        BY <1>4, <2>1, <2>5, <2>6 DEF IsAttributable
    <2> QED BY <2>1, <2>5, <2>7 DEF Under
<1> QED BY <1>3, <1>4

(* What has one id is on the same blocks.                                  *)
LEMMA FilesAreUnder ==
    ASSUME FourLevels, IsHost(host), AreOf(volumes, host), NEW m \in host.mounts
    PROVE  FilesUnder(m) = IF DeviceId(Sys(host), m) = Unknown THEN {} ELSE Under(host, BlocksOn(host, m)) \cap Lettered
<1> DEFINE sys == Sys(host)
<1>1. \A k \in host.mounts : DeviceId(sys, k) # Unknown => DeviceId(sys, k)[1] = k.fs.id BY IdOfMount
<1>2. sys.mounts = host.mounts BY DEF Sys
<1> HIDE DEF sys
<1>3. ASSUME NEW n \in host.mounts, DeviceId(sys, n) = DeviceId(sys, m), DeviceId(sys, m) # Unknown
      PROVE  BlocksOn(host, n) = BlocksOn(host, m)
    <2>1. n.fs.id = m.fs.id BY <1>1, <1>3
    <2>2. n.fs \in FileSystems /\ m.fs \in FileSystems BY DEF IsHost, AllMounts
    <2>3. IsOneFileSystem(n.fs, m.fs) BY <2>1, <2>2, HostAssumption
    <2> QED BY <2>3 DEF IsOneFileSystem, BlocksOn
<1>4. \A n \in host.mounts : \A d \in Lettered :
        HasMountLabel(sys, n, d, volumes) <=> d \in Under(host, BlocksOn(host, n))
    BY ShownAreUnder DEF sys
<1>5. \A d : d \in FilesUnder(m) <=>
               /\ d \in Lettered /\ DeviceId(sys, m) # Unknown
               /\ \E n \in host.mounts : HasMountLabel(sys, n, d, volumes) /\ DeviceId(sys, m) = DeviceId(sys, n)
    BY <1>2 DEF FilesUnder, FilesystemIdsForIo, sys
<1>6. \A d : d \in FilesUnder(m) <=>
               DeviceId(sys, m) # Unknown /\ d \in Under(host, BlocksOn(host, m)) \cap Lettered
    BY <1>3, <1>4, <1>5
<1> QED BY <1>6 DEF sys

-----------------------------------------------------------------------------
(* Where a mount is marked in its chain in the header of a disk.           *)
IsMarked(chain) == \E n \in chain.nodes : n[2]

LEMMA DiskIsWhole == \A d \in Disks : Whole(Sys(host), d) = d
<1>1. Disks \cap DOMAIN ParentOf = {} BY HostAssumption
<1>2. Sys(host).parent = ParentOf BY DEF Sys
<1> QED BY <1>1, <1>2 DEF Whole, IsPartition

LEMMA MarkedNames ==
    ASSUME NEW d, NEW names
    PROVE  (\E n \in Marked(Sys(host), d, names) : n[2]) <=> d \in Folded(Sys(host), names)
<1>1. \A b : <<b, WholeDiskName(Sys(host), b) = d>>[2] = (WholeDiskName(Sys(host), b) = d) OBVIOUS
<1> QED BY <1>1 DEF Marked, Folded

LEMMA MarkedSelf ==
    ASSUME NEW d, NEW names
    PROVE  (\E n \in {<<b, b = d>> : b \in names} : n[2]) <=> d \in names
<1>1. \A b : <<b, b = d>>[2] = (b = d) OBVIOUS
<1> QED BY <1>1

LEMMA ChainOfPool ==
    ASSUME FourLevels, IsHost(host), AreOf(volumes, host), NEW m \in host.mounts, m.fs.type = "zfs",
           NEW d \in Lettered, d \in Under(host, BlocksOn(host, m))
    PROVE  LET chain == TopologyChain(Sys(host), m, d, volumes) IN chain.kind = "zfs" /\ IsMarked(chain)
<1> DEFINE sys == Sys(host)
           chain == TopologyChain(sys, m, d, volumes)
<1>1. PICK t : PoolsOf(m, volumes) = {t} /\ LeafNames(t) = BlocksOn(host, m) BY PoolOfMount
<1> DEFINE N == UNION {LeafNodes(sys, d, leaf.name) : leaf \in Leaves(t)}
<1>2. chain = [kind |-> "zfs", nodes |-> N]
    <2>1. UNION {UNION {LeafNodes(sys, d, leaf.name) : leaf \in Leaves(pool)} : pool \in {t}} = N OBVIOUS
    <2> HIDE DEF N
    <2> QED BY <1>1, <2>1 DEF TopologyChain
<1>3. PICK b \in BlocksOn(host, m) : d \in Physical(sys, b) BY DEF Under
<1>4. d \in Folded(sys, LeafDisks(sys, b)) BY <1>3, BlocksOnAre, LetteredWays
<1>5. \E n \in LeafNodes(sys, d, b) : n[2]
    <2> DEFINE isStacked == Folded(sys, LeafDisks(sys, b)) # {WholeDiskName(sys, b)}
    <2>1. CASE isStacked
        <3>1. \E n \in Marked(sys, d, LeafDisks(sys, b)) : n[2] BY <1>4, MarkedNames
        <3>2. Marked(sys, d, LeafDisks(sys, b)) \subseteq LeafNodes(sys, d, b) BY <2>1 DEF LeafNodes
        <3> QED BY <3>1, <3>2
    <2>2. CASE ~isStacked
        <3>1. LeafNodes(sys, d, b) = {<<b, d \in Folded(sys, LeafDisks(sys, b))>>} BY <2>2 DEF LeafNodes
        <3>2. <<b, d \in Folded(sys, LeafDisks(sys, b))>>[2] BY <1>4
        <3> QED BY <3>1, <3>2
    <2> QED BY <2>1, <2>2
<1>6. \E n \in N : n[2] BY <1>1, <1>3, <1>5 DEF LeafNames
<1> HIDE DEF N
<1>7. chain.kind = "zfs" /\ IsMarked(chain) BY <1>2, <1>6 DEF IsMarked
<1> QED BY <1>7

(* What is named of a mount that is of no pool.                            *)
LEMMA ChainOfBlocks ==
    ASSUME FourLevels, IsHost(host), AreOf(volumes, host), NEW m \in host.mounts, m.fs.type # "zfs",
           NEW d \in Lettered, d \in Under(host, BlocksOn(host, m))
    PROVE  LET chain == TopologyChain(Sys(host), m, d, volumes)
           IN  IF chain.kind \in {"zfs", "btrfs"} THEN IsMarked(chain)
               ELSE IsMarked(chain) <=> d \in NamedDirectly(m)
<1> DEFINE sys == Sys(host)
           b == m.fs.source
           chain == TopologyChain(sys, m, d, volumes)
           arrays == ArraysAt(volumes, b)
           btrfs == BtrfsMembers(sys.mounts, b)
           named == UNION {MembersOf(array) : array \in {a \in Assembled(host) : a.name = b}}
<1>1. PoolsOf(m, volumes) = {} BY DEF PoolsOf
<1>2. /\ b \in m.fs.members /\ m.fs.members \subseteq Blocks(host) /\ BlocksOn(host, m) = m.fs.members
      /\ btrfs = m.fs.members \/ btrfs = {}
    BY BtrfsOfMount DEF BlocksOn
<1>3. d \in NamedDirectly(m) <=> \E c \in named \cup {b} : Whole(sys, c) = d
    <2>1. NamedDirectly(m) = {Whole(sys, c) : c \in {b} \cup named} BY Zenon DEF NamedDirectly
    <2> HIDE DEF named, sys
    <2> QED BY <2>1
<1>0. \A c : WholeDiskName(sys, c) = d <=> Whole(sys, c) = d BY LetteredFold
<1>4. CASE arrays # {}
    <2>1. PICK array \in arrays : TRUE BY <1>4
    <2>2. /\ array.name = b /\ b \in DOMAIN host.slaves
          /\ Devices(array) = host.slaves[b] /\ \A other \in arrays : other = array
        BY <1>2, <2>1, ArrayOfMount
    <2>3. chain = [kind |-> "md", nodes |-> Marked(sys, d, Devices(array))]
        <3>1. arrays = {array} BY <2>1, <2>2
        <3>2. UNION {Marked(sys, d, Devices(other)) : other \in {array}} = Marked(sys, d, Devices(array))
            OBVIOUS
        <3> HIDE DEF sys
        <3> QED BY <1>1, <3>1, <3>2 DEF TopologyChain
    <2>40. IsMarked(chain) <=> d \in Folded(sys, host.slaves[b])
        BY <2>2, <2>3, MarkedNames DEF IsMarked
    <2>4. IsMarked(chain) <=> \E c \in host.slaves[b] : Whole(sys, c) = d
        <3> HIDE DEF chain, sys
        <3> QED BY <2>40, <1>0 DEF Folded
    <2>5. named = host.slaves[b]
        <3>1. PICK parsed : /\ volumes.mdraid = {parsed[a] : a \in Assembled(host)}
                            /\ \A a \in Assembled(host) : IsArrayOf(parsed[a], a)
            BY DEF AreOf, IsReport
        <3>2. PICK a \in Assembled(host) : array = parsed[a] BY <2>1, <3>1 DEF ArraysAt
        <3>3. a.name = b BY <2>2, <3>1, <3>2 DEF IsArrayOf
        <3>4. MembersOf(a) = host.slaves[b] /\ \A x \in Assembled(host) : x.name = b => x = a
            BY <3>3, AssembledAre DEF IsHost
        <3> QED BY <3>2, <3>3, <3>4
    <2>6. Whole(sys, b) # d
        <3>1. b \in DOMAIN Stackings BY <2>2, StackedHasSlaves
        <3>2. b \notin DOMAIN ParentOf /\ b \notin Disks BY <3>1, StackingsAre, HostAssumption
        <3>3. sys.parent = ParentOf BY DEF Sys
        <3>4. Whole(sys, b) = b
            <4> HIDE DEF sys
            <4> QED BY <3>2, <3>3 DEF Whole, IsPartition
        <3>5. d \in Disks BY DEF Lettered
        <3> QED BY <3>2, <3>4, <3>5
    <2>7. chain.kind = "md" BY <2>3
    <2> HIDE DEF chain, named, sys
    <2>8. IsMarked(chain) <=> d \in NamedDirectly(m) BY <1>3, <2>4, <2>5, <2>6
    <2> QED BY <2>7, <2>8 DEF chain, sys
<1>5. CASE arrays = {} /\ btrfs # {}
    <2>1. chain = [kind |-> "btrfs", nodes |-> Marked(sys, d, ExpandedMembers(sys, btrfs))]
        <3> HIDE DEF sys
        <3> QED BY <1>1, <1>5 DEF TopologyChain
    <2>2. btrfs = BlocksOn(host, m) BY <1>2, <1>5
    <2> HIDE DEF btrfs
    <2>3. PICK c \in btrfs : d \in Physical(sys, c) BY <2>2 DEF Under
    <2>4. /\ WholeDiskName(sys, d) = d
          /\ (WholeDiskName(sys, c) = d /\ StackedMembers(sys, c) = {}) \/ d \in StackedMembers(sys, c)
        BY <1>2, <2>2, <2>3, LetteredWays
    <2>5. d \in Folded(sys, ExpandedMembers(sys, btrfs))
        <3> HIDE DEF sys
        <3>1. CASE d \in StackedMembers(sys, c)
            <4>1. d \in ExpandedMembers(sys, btrfs) BY <3>1, <2>3 DEF ExpandedMembers
            <4> QED BY <4>1, <2>4 DEF Folded
        <3>2. CASE d \notin StackedMembers(sys, c)
            <4>1. c \in ExpandedMembers(sys, btrfs) BY <3>2, <2>3, <2>4 DEF ExpandedMembers
            <4> QED BY <3>2, <4>1, <2>4 DEF Folded
        <3> QED BY <3>1, <3>2
    <2>6. chain.kind = "btrfs" /\ IsMarked(chain) BY <2>1, <2>5, MarkedNames DEF IsMarked
    <2> HIDE DEF chain
    <2> QED BY <2>6 DEF chain
<1>6. CASE arrays = {} /\ btrfs = {}
    <2> DEFINE N == {<<c, c = d>> : c \in {b} \cup ({WholeDiskName(sys, b)} \cap {d})}
    <2>1. chain = [kind |-> "plain", nodes |-> N]
        <3> HIDE DEF sys
        <3> QED BY <1>1, <1>6 DEF TopologyChain
    <2>2. (\E n \in N : n[2]) <=> Whole(sys, b) = d
        <3>2. (\E n \in N : n[2]) <=> d \in {b} \cup ({WholeDiskName(sys, b)} \cap {d})
            <4> HIDE DEF sys
            <4> QED BY MarkedSelf
        <3>3. b = d => WholeDiskName(sys, b) = d BY LetteredNames
        <3> HIDE DEF N, sys, b
        <3> QED BY <3>2, <3>3, <1>0
    <2> HIDE DEF N
    <2>3. IsMarked(chain) <=> Whole(sys, b) = d BY <2>1, <2>2 DEF IsMarked
    <2>4. named = {}
        <3>1. PICK parsed : /\ volumes.mdraid = {parsed[a] : a \in Assembled(host)}
                            /\ \A a \in Assembled(host) : IsArrayOf(parsed[a], a)
            BY DEF AreOf, IsReport
        <3>2. \A a \in Assembled(host) : parsed[a] \in volumes.mdraid /\ parsed[a].name = a.name
            BY <3>1 DEF IsArrayOf
        <3>3. \A a \in Assembled(host) : a.name # b BY <3>2, <1>6 DEF ArraysAt
        <3> QED BY <3>3
    <2>5. chain.kind = "plain" BY <2>1
    <2> HIDE DEF chain, named, sys
    <2>6. IsMarked(chain) <=> d \in NamedDirectly(m) BY <1>3, <2>3, <2>4
    <2> QED BY <2>5, <2>6 DEF chain, sys
<1> QED BY <1>4, <1>5, <1>6

(* The header of a disk names the mounts on it or counts them, and marks   *)
(* the disk in the chains that it follows.                                 *)
LEMMA HeaderOf ==
    ASSUME FourLevels, IsHost(host), AreOf(volumes, host), NEW m \in host.mounts, NEW d \in Lettered
    PROVE  HeaderAgrees(d, m, d \in Under(host, BlocksOn(host, m)))
<1> DEFINE sys == Sys(host)
           U == Under(host, BlocksOn(host, m))
           shown == {n \in host.mounts : IsAttributable(sys, n, d, volumes)}
           T(n) == TopologyChain(sys, n, d, volumes)
           header == DetailHeader(sys, d, volumes)
           named == {c.mount : c \in header.chains}
           first == FirstOf(ChainsShown, shown)
<1>1. header = [chains |-> {[mount |-> n, chain |-> T(n)] : n \in first},
                extra |-> LeftOut(ChainsShown, shown)]
    <2>1. sys.mounts = host.mounts BY DEF Sys
    <2> QED BY <2>1, Zenon DEF DetailHeader
<1>2. /\ \A c \in header.chains : c.mount \in first /\ c.chain = T(c.mount)
      /\ named = first /\ header.extra = LeftOut(ChainsShown, shown)
    <2> DEFINE C(n) == [mount |-> n, chain |-> T(n)]
    <2>1. \A n : C(n).mount = n /\ C(n).chain = T(n) OBVIOUS
    <2>2. header = [chains |-> {C(n) : n \in first}, extra |-> LeftOut(ChainsShown, shown)] BY <1>1
    <2> HIDE DEF C, header, T, first, shown
    <2>3. header.chains = {C(n) : n \in first} /\ header.extra = LeftOut(ChainsShown, shown) BY <2>2
    <2>4. \A c \in header.chains : c.mount \in first /\ c.chain = T(c.mount) BY <2>1, <2>3
    <2>5. {c.mount : c \in {C(n) : n \in first}} = first BY <2>1
    <2> QED BY <2>3, <2>4, <2>5
<1>3. {n \in host.mounts : d \in ShownUnder(n)} = shown BY DEF ShownUnder
<1>4. first \subseteq shown /\ LeftOut(ChainsShown, shown) = Cardinality(shown \ first)
    <2>1. IsFiniteSet(host.mounts) BY DEF IsHost, Consistent
    <2>2. shown \in SUBSET host.mounts OBVIOUS
    <2> HIDE DEF shown
    <2>3. IsFiniteSet(shown) BY <2>1, <2>2, FS_Subset
    <2> QED BY <2>3, ShownAssumption, CutOf
<1>5. IsAttributable(sys, m, d, volumes) => d \in U BY ShownAreUnder
<1>6. d \in U => IF T(m).kind \in {"zfs", "btrfs"} THEN IsMarked(T(m))
                 ELSE IsMarked(T(m)) <=> d \in NamedDirectly(m)
    <2>1. CASE m.fs.type = "zfs" BY <2>1, ChainOfPool
    <2>2. CASE m.fs.type # "zfs" BY <2>2, ChainOfBlocks
    <2> QED BY <2>1, <2>2
<1>7. m \in first => d \in U BY <1>4, <1>5
<1> DEFINE isFollowed(chain) == chain.kind \in {"zfs", "btrfs"}
<1>8. ASSUME NEW c \in header.chains, c.mount = m
      PROVE  d \in U /\ (IsMarked(c.chain) <=> isFollowed(c.chain) \/ d \in NamedDirectly(m))
    <2>1. m \in first /\ c.chain = T(m) BY <1>2, <1>8
    <2> HIDE DEF U, T, first, header
    <2> QED BY <2>1, <1>6, <1>7
<1>9. header.extra = Cardinality({n \in host.mounts : d \in ShownUnder(n)} \ named)
    <2> HIDE DEF header, named, first, shown
    <2> QED BY <1>2, <1>3, <1>4
<1> HIDE DEF U
<1>10. HeaderAgrees(d, m, d \in U)
    BY <1>8, <1>9, Zenon DEF HeaderAgrees, IsMarked
<1> QED BY <1>10 DEF U

-----------------------------------------------------------------------------
(* Where the edges of the JSON topology lead.  They are followed as the    *)
(* devices below a block are, by walking eight steps.                      *)
StepsFrom(edges, x) ==
    {e[3] : e \in {f \in edges : f[1] \in Downward /\ f[2] = x}}
    \cup {e[2] : e \in {f \in edges : f[1] \notin Downward /\ f[3] = x}}
FurtherAlong(edges, T) == T \cup UNION {StepsFrom(edges, x) : x \in T}

LEMMA FollowIs ==
    ASSUME NEW edges, NEW from
    PROVE  \E seen : /\ seen[0] = {from} /\ Follow(edges, from) = seen[8]
                     /\ \A k \in 1..8 : seen[k] = FurtherAlong(edges, seen[k - 1])
<1> DEFINE Level(f, n) == IF n = 0 THEN {from}
                          ELSE f[n - 1] \cup UNION {StepsFrom(edges, x) : x \in f[n - 1]}
           seen == CHOOSE f : f = [n \in 0..8 |-> Level(f, n)]
           ends == {e[2] : e \in edges} \cup {e[3] : e \in edges}
           graph == [slaves |-> [x \in ends |-> StepsFrom(edges, x)]]
<1>1. Follow(edges, from) = seen[8] BY Zenon DEF Follow, StepsFrom
<1>2. \A x : Slaves(graph, x) = StepsFrom(edges, x)
    <2>1. \A x : x \notin ends => StepsFrom(edges, x) = {} BY DEF StepsFrom
    <2>2. DOMAIN graph.slaves = ends /\ \A x \in ends : graph.slaves[x] = StepsFrom(edges, x) OBVIOUS
    <2> HIDE DEF graph, ends
    <2> QED BY <2>1, <2>2 DEF Slaves
<1> HIDE DEF graph
<1>3. \A f, n : Level(f, n) = IF n = 0 THEN {from} ELSE Further(graph, FALSE, f[n - 1])
    BY <1>2 DEF Further
<1>4. \E f : f = [n \in 0..8 |-> Level(f, n)]
    <2>1. PICK f : IsWalk(f, graph, FALSE, from, 8) BY WalkExists
    <2> HIDE DEF Level
    <2> QED BY <2>1, <1>3 DEF IsWalk
<1>5. seen = [n \in 0..8 |-> Level(seen, n)]
    <2> HIDE DEF Level
    <2> QED BY <1>4
<1> HIDE DEF seen
<1>6. \A n \in 0..8 : seen[n] = Level(seen, n)
    <2> HIDE DEF Level
    <2> QED BY <1>5
<1>7. seen[0] = {from} BY <1>6
<1>8. \A k \in 1..8 : seen[k] = FurtherAlong(edges, seen[k - 1]) BY <1>6 DEF FurtherAlong
<1> QED BY <1>1, <1>7, <1>8

(* What is closed under steps is not left, and four steps can be taken.    *)
LEMMA FollowStays ==
    ASSUME NEW edges, NEW x0
    PROVE  \A G : x0 \in G /\ (\A x \in G : StepsFrom(edges, x) \subseteq G) => Follow(edges, x0) \subseteq G
<1>1. PICK seen : /\ seen[0] = {x0} /\ Follow(edges, x0) = seen[8]
                  /\ \A k \in 1..8 : seen[k] = FurtherAlong(edges, seen[k - 1])
    BY FollowIs
<1> SUFFICES ASSUME NEW G, x0 \in G, \A x \in G : StepsFrom(edges, x) \subseteq G
             PROVE  Follow(edges, x0) \subseteq G
    OBVIOUS
<1>2. ASSUME NEW k \in 1..8, seen[k - 1] \subseteq G PROVE seen[k] \subseteq G
    BY <1>1, <1>2 DEF FurtherAlong
<1>3. seen[0] \subseteq G BY <1>1
<1>4. seen[1] \subseteq G BY <1>2, <1>3
<1>5. seen[2] \subseteq G BY <1>2, <1>4
<1>6. seen[3] \subseteq G BY <1>2, <1>5
<1>7. seen[4] \subseteq G BY <1>2, <1>6
<1>8. seen[5] \subseteq G BY <1>2, <1>7
<1>9. seen[6] \subseteq G BY <1>2, <1>8
<1>10. seen[7] \subseteq G BY <1>2, <1>9
<1> QED BY <1>1, <1>2, <1>10

LEMMA FollowTakes ==
    ASSUME NEW edges, NEW x0, NEW x1 \in StepsFrom(edges, x0), NEW x2 \in StepsFrom(edges, x1)
    PROVE  /\ x2 \in Follow(edges, x0)
           /\ \A x3 \in StepsFrom(edges, x2) : \A x4 \in StepsFrom(edges, x3) : x4 \in Follow(edges, x0)
<1>1. PICK seen : /\ seen[0] = {x0} /\ Follow(edges, x0) = seen[8]
                  /\ \A k \in 1..8 : seen[k] = FurtherAlong(edges, seen[k - 1])
    BY FollowIs
<1>2. \A k \in 1..8 : /\ seen[k - 1] \subseteq seen[k]
                      /\ \A x \in seen[k - 1] : StepsFrom(edges, x) \subseteq seen[k]
    BY <1>1 DEF FurtherAlong
<1>3. x1 \in seen[1]
    <2>1. x0 \in seen[1 - 1] BY <1>1
    <2> QED BY <2>1, <1>2
<1>4. x2 \in seen[2]
    <2>1. x1 \in seen[2 - 1] BY <1>3
    <2> QED BY <2>1, <1>2
<1>5. seen[2] \subseteq seen[4]
    <2>1. seen[3 - 1] \subseteq seen[3] /\ seen[4 - 1] \subseteq seen[4] BY <1>2
    <2> QED BY <2>1
<1>6. seen[4] \subseteq seen[8]
    <2>1. /\ seen[5 - 1] \subseteq seen[5] /\ seen[6 - 1] \subseteq seen[6]
          /\ seen[7 - 1] \subseteq seen[7] /\ seen[8 - 1] \subseteq seen[8]
        BY <1>2
    <2> QED BY <2>1
<1>7. ASSUME NEW x3 \in StepsFrom(edges, x2), NEW x4 \in StepsFrom(edges, x3) PROVE x4 \in seen[4]
    <2>1. x2 \in seen[3 - 1] BY <1>4
    <2>2. x3 \in seen[3] BY <2>1, <1>2
    <2>3. x3 \in seen[4 - 1] BY <2>2
    <2> QED BY <2>3, <1>2
<1> QED BY <1>1, <1>4, <1>5, <1>6, <1>7

LEMMA OneAndTwo ==
    ASSUME NEW x, NEW y, NEW z PROVE <<x>> \o <<y, z>> = <<x, y, z>>
<1> DEFINE T == {x, y, z}
           c == <<x>> \o <<y, z>>
           d == <<x, y, z>>
<1>1. <<x>> \in Seq(T) /\ <<y, z>> \in Seq(T) /\ d \in Seq(T) OBVIOUS
<1>2. c \in Seq(T) /\ Len(c) = 3 /\ c[1] = x /\ c[2] = y /\ c[3] = z BY <1>1, ConcatProperties
<1>3. Len(d) = 3 /\ d[1] = x /\ d[2] = y /\ d[3] = z OBVIOUS
<1> HIDE DEF c, d, T
<1>4. Len(c) = Len(d) /\ \A i \in 1..Len(c) : c[i] = d[i] BY <1>2, <1>3
<1>5. c = d BY <1>1, <1>2, <1>4, SeqEqual
<1> QED BY <1>5 DEF c, d

(* The nodes of mounts, datasets and blocks differ.                        *)
LEMMA NodesDiffer ==
    /\ \A m, n : MountNode(m) = MountNode(n) => m.fs.id = n.fs.id
    /\ \A m, x : MountNode(m) # <<x>>
    /\ \A f \in FileSystems : f.type = "zfs" =>
          /\ \A m : SourceNode(f) # MountNode(m)
          /\ \A x : SourceNode(f) # <<x>>
          /\ \A g \in FileSystems : g.type = "zfs" /\ SourceNode(f) = SourceNode(g) => f.source = g.source
<1>1. \A m : MountNode(m) = <<"mount", m.fs.id, m.path>> BY DEF MountNode
<1>2. ASSUME NEW f \in FileSystems, f.type = "zfs"
      PROVE  \E a, b : f.source = <<a, b>> /\ SourceNode(f) = <<"dataset", a, b>>
    <2>1. f.source \in STRING \X STRING
        <3>1. IsFileSystem(f) BY HostAssumption
        <3> QED BY <3>1, <1>2 DEF IsFileSystem
    <2>2. \E a \in STRING, b \in STRING : f.source = <<a, b>>
        <3> DEFINE x == f.source
        <3>1. x \in STRING \X STRING BY <2>1
        <3> HIDE DEF x
        <3>3. x = <<x[1], x[2]>> /\ x[1] \in STRING /\ x[2] \in STRING BY <3>1
        <3>2. \E a \in STRING, b \in STRING : x = <<a, b>> BY <3>3
        <3> QED BY <3>2 DEF x
    <2>4. PICK a \in STRING, b \in STRING : f.source = <<a, b>> BY <2>2
    <2>3. SourceNode(f) = <<"dataset">> \o <<a, b>> BY <1>2, <2>4 DEF SourceNode
    <2> QED BY <2>3, <2>4, OneAndTwo
<1>3. \A x, y, z, w : <<x, y, z>> # <<w>>
    <2> TAKE x, y, z, w
    <2>1. Len(<<x, y, z>>) = 3 /\ Len(<<w>>) = 1 OBVIOUS
    <2> QED BY <2>1
<1>4. \A x, y, z, u, v, w : <<x, y, z>> = <<u, v, w>> => x = u /\ y = v /\ z = w OBVIOUS
<1>5. \A m, n : MountNode(m) = MountNode(n) => m.fs.id = n.fs.id BY <1>1, <1>4
<1>6. \A m, x : MountNode(m) # <<x>> BY <1>1, <1>3
<1>7. ASSUME NEW f \in FileSystems, f.type = "zfs"
      PROVE  /\ \A m : SourceNode(f) # MountNode(m)
             /\ \A x : SourceNode(f) # <<x>>
             /\ \A g \in FileSystems : g.type = "zfs" /\ SourceNode(f) = SourceNode(g) => f.source = g.source
    <2>1. PICK a, b : f.source = <<a, b>> /\ SourceNode(f) = <<"dataset", a, b>> BY <1>2, <1>7
    <2>2. \A m : SourceNode(f) # MountNode(m) BY <1>1, <1>4, <2>1
    <2>3. \A x : SourceNode(f) # <<x>> BY <1>3, <2>1
    <2>4. ASSUME NEW g \in FileSystems, g.type = "zfs", SourceNode(f) = SourceNode(g)
          PROVE  f.source = g.source
        <3>1. PICK c, d : g.source = <<c, d>> /\ SourceNode(g) = <<"dataset", c, d>> BY <1>2, <2>4
        <3>2. a = c /\ b = d BY <1>4, <2>1, <2>4, <3>1
        <3> QED BY <2>1, <3>1, <3>2
    <2> QED BY <2>2, <2>3, <2>4
<1> QED BY <1>5, <1>6, <1>7

-----------------------------------------------------------------------------
(* An edge goes from a mount to what it is mounted from, from a dataset to *)
(* its pool, from a block to what is under it, or from what an array or a  *)
(* pool has to the array or the pool.                                      *)
IsLine(e, kind, x, y) == e[1] = kind /\ e[2] = x /\ e[3] = y

LEMMA BlockEdges ==
    ASSUME IsHost(host), NEW b \in Blocks(host), NEW e \in EdgesOf(Sys(host), b)
    PROVE  \/ IsLine(e, "partition_of", <<b>>, <<Whole(Sys(host), b)>>)
           \/ \E d \in SysfsSlaves(Sys(host), b) : IsLine(e, "block_device_backed_by", <<b>>, <<d>>)
<1> DEFINE sys == Sys(host)
<1>1. CASE e \in {<<"partition_of", <<b>>, <<sys.parent[c]>>>> : c \in {b} \cap DOMAIN sys.parent}
    <2>1. b \in DOMAIN sys.parent /\ e = <<"partition_of", <<b>>, <<sys.parent[b]>>>> BY <1>1
    <2>2. Whole(sys, b) = sys.parent[b]
        <3> HIDE DEF sys
        <3> QED BY <2>1 DEF Whole, IsPartition
    <2> HIDE DEF sys
    <2> QED BY <2>1, <2>2 DEF IsLine, sys
<1>2. CASE e \in {<<"block_device_backed_by", <<b>>, <<d>>>> : d \in SysfsSlaves(sys, b)}
    BY <1>2 DEF IsLine
<1> QED BY <1>1, <1>2 DEF EdgesOf

LEMMA EdgesAre ==
    ASSUME IsHost(host), NEW vols, AreOf(vols, host),
           NEW e \in Relationships(Sys(host), host.mounts, vols)
    PROVE  \/ \E m \in host.mounts : IsLine(e, "mount_backed_by", MountNode(m), SourceNode(m.fs))
           \/ \E m \in host.mounts : m.fs.type # "zfs" /\ \E b \in m.fs.members :
                 IsLine(e, "mount_backed_by", MountNode(m), <<b>>)
           \/ \E m \in host.mounts : m.fs.type = "zfs" /\
                 IsLine(e, "zfs_dataset_of", SourceNode(m.fs), <<m.fs.source[1]>>)
           \/ \E b \in Blocks(host) : IsLine(e, "partition_of", <<b>>, <<Whole(Sys(host), b)>>)
           \/ \E b \in Blocks(host) : \E d \in SysfsSlaves(Sys(host), b) :
                 IsLine(e, "block_device_backed_by", <<b>>, <<d>>)
           \/ \E s \in DOMAIN host.slaves : \E b \in host.slaves[s] :
                 s \in DOMAIN Arrays /\ IsLine(e, "raid_member_of", <<b>>, <<s>>)
           \/ \E pool \in host.imported : \E b \in PoolDevices(pool) :
                 IsLine(e, "zfs_member_of", <<b>>, <<pool.name>>)
<1> DEFINE sys == Sys(host)
<1>1. CASE \E m \in host.mounts : e \in MountEdges(sys, m, vols)
    <2>1. PICK m \in host.mounts : e \in MountEdges(sys, m, vols) BY <1>1
    <2> DEFINE blocks == IF m.fs.type = "zfs" THEN {}
                         ELSE {m.fs.source} \cup BtrfsMembers(sys.mounts, m.fs.source)
    <2>2. \/ e = <<"mount_backed_by", MountNode(m), SourceNode(m.fs)>>
          \/ \E b \in blocks : e = <<"mount_backed_by", MountNode(m), <<b>>>>
          \/ \E b \in blocks : e \in EdgesOf(sys, b)
          \/ \E pool \in PoolsOf(m, vols) : e = <<"zfs_dataset_of", SourceNode(m.fs), <<pool.name>>>>
        <3>1. MountEdges(sys, m, vols) =
                {<<"mount_backed_by", MountNode(m), SourceNode(m.fs)>>}
                \cup {<<"mount_backed_by", MountNode(m), <<b>>>> : b \in blocks}
                \cup (UNION {EdgesOf(sys, b) : b \in blocks})
                \cup {<<"zfs_dataset_of", SourceNode(m.fs), <<pool.name>>>> : pool \in PoolsOf(m, vols)}
            BY Zenon DEF MountEdges
        <3> HIDE DEF blocks, sys
        <3> QED BY <2>1, <3>1
    <2>3. ASSUME NEW b \in blocks PROVE m.fs.type # "zfs" /\ b \in m.fs.members /\ b \in Blocks(host)
        BY BtrfsOfMount
    <2>4. ASSUME NEW pool \in PoolsOf(m, vols) PROVE m.fs.type = "zfs" /\ pool.name = m.fs.source[1]
        BY DEF PoolsOf
    <2> HIDE DEF blocks
    <2> QED BY <2>2, <2>3, <2>4, BlockEdges DEF IsLine
<1>2. CASE \E array \in vols.mdraid : \E b \in Devices(array) :
               e = <<"raid_member_of", <<b>>, <<array.name>>>>
    <2>1. PICK array \in vols.mdraid : \E b \in Devices(array) : e = <<"raid_member_of", <<b>>, <<array.name>>>>
        BY <1>2
    <2>2. PICK b \in Devices(array) : e = <<"raid_member_of", <<b>>, <<array.name>>>> BY <2>1
    <2>3. PICK parsed : /\ vols.mdraid = {parsed[a] : a \in Assembled(host)}
                        /\ \A a \in Assembled(host) : IsArrayOf(parsed[a], a)
        BY DEF AreOf, IsReport
    <2>4. PICK a \in Assembled(host) : array = parsed[a] BY <2>3
    <2>5. array.name = a.name /\ b \in MembersOf(a) BY <2>3, <2>4 DEF IsArrayOf
    <2>6. a.name \in DOMAIN host.slaves \cap DOMAIN Arrays /\ MembersOf(a) = host.slaves[a.name]
        BY AssembledAre DEF IsHost
    <2> QED BY <2>2, <2>5, <2>6 DEF IsLine
<1>3. CASE \E t \in vols.zfs : e \in PoolEdges(sys, t)
    <2>1. PICK t \in vols.zfs : e \in PoolEdges(sys, t) BY <1>3
    <2>2. PICK parsed : /\ vols.zfs = {parsed[p] : p \in host.imported}
                        /\ \A p \in host.imported : IsParse(parsed[p], p)
        BY DEF AreOf, IsListing
    <2>3. PICK pool \in host.imported : t = parsed[pool] BY <2>1, <2>2
    <2>4. t.name = pool.name /\ LeafNames(t) = PoolDevices(pool) BY <2>2, <2>3 DEF IsParse
    <2>5. PICK leaf \in Leaves(t) :
            e = <<"zfs_member_of", <<leaf.name>>, <<t.name>>>> \/ e \in EdgesOf(sys, leaf.name)
        BY <2>1 DEF PoolEdges
    <2>6. leaf.name \in PoolDevices(pool) BY <2>4, <2>5 DEF LeafNames
    <2>7. PoolDevices(pool) \subseteq Blocks(host)
        <3> DEFINE c == <<"pool", pool.name, PoolDevices(pool)>>
        <3>1. c \in Claims(host) BY DEF Claims
        <3>2. c[3] = PoolDevices(pool) OBVIOUS
        <3> HIDE DEF c
        <3> QED BY <3>1, <3>2 DEF IsHost, Consistent
    <2> QED BY <2>4, <2>5, <2>6, <2>7, BlockEdges DEF IsLine
<1>4. \/ \E m \in host.mounts : e \in MountEdges(sys, m, vols)
      \/ \E array \in vols.mdraid : \E b \in Devices(array) :
               e = <<"raid_member_of", <<b>>, <<array.name>>>>
      \/ \E t \in vols.zfs : e \in PoolEdges(sys, t)
    <2> HIDE DEF sys
    <2> QED BY DEF Relationships, sys
<1> QED BY <1>1, <1>2, <1>3, <1>4

(* What can be reached from a mount: the block devices that stand on       *)
(* nothing but what it is on and, of a pool, its dataset and the pool.     *)
AllUnder(m) == {b \in Blocks(host) : Physical(Sys(host), b) \subseteq Under(host, BlocksOn(host, m))}
Reachable(m) ==
    {MountNode(m)} \cup {<<b>> : b \in AllUnder(m)}
    \cup (IF m.fs.type = "zfs" THEN {SourceNode(m.fs), <<m.fs.source[1]>>} ELSE {})

(* The name of the pool of a mount is no name of a block.                  *)
LEMMA PoolIsNoBlock ==
    ASSUME IsHost(host), NEW m \in host.mounts, m.fs.type = "zfs"
    PROVE  m.fs.source[1] \notin Blocks(host) \cup DOMAIN Arrays
<1>1. PICK pool \in host.imported : pool.name = m.fs.source[1] BY BlocksOnAre
<1>2. pool \in PoolsKnown BY DEF IsHost
<1>3. pool.name \notin Disks \cup Loops \cup DOMAIN ParentOf \cup DOMAIN Mapped \cup DOMAIN Arrays
    BY <1>2, HostAssumption DEF Devnodes
<1>4. DOMAIN host.slaves \subseteq DOMAIN Mapped \cup DOMAIN Arrays
    BY StackedHasSlaves, StackingsAre
<1> QED BY <1>1, <1>3, <1>4 DEF Blocks

(* The nodes of a reachable block and those of the pool of a mount.        *)
LEMMA ReachableNodes ==
    ASSUME IsHost(host), NEW m \in host.mounts
    PROVE  /\ \A b \in Blocks(host) \cup DOMAIN Arrays : <<b>> \in Reachable(m) <=> b \in AllUnder(m)
           /\ \A n \in host.mounts : MountNode(n) \in Reachable(m) => n.fs.id = m.fs.id
           /\ \A n \in host.mounts : n.fs.type = "zfs" /\ SourceNode(n.fs) \in Reachable(m) =>
                 m.fs.type = "zfs" /\ n.fs.source = m.fs.source
           /\ \A pool \in host.imported : <<pool.name>> \in Reachable(m) =>
                 m.fs.type = "zfs" /\ pool.name = m.fs.source[1]
<1>0. \A x, y : <<x>> = <<y>> => x = y OBVIOUS
<1>1. \A n \in host.mounts : n.fs \in FileSystems BY DEF IsHost, AllMounts
<1>2. \A b \in Blocks(host) \cup DOMAIN Arrays : <<b>> \in Reachable(m) <=> b \in AllUnder(m)
    <2> SUFFICES ASSUME NEW b \in Blocks(host) \cup DOMAIN Arrays, <<b>> \in Reachable(m) PROVE b \in AllUnder(m)
        BY DEF Reachable
    <2>1. <<b>> # MountNode(m) BY NodesDiffer
    <2>2. m.fs.type = "zfs" => <<b>> # SourceNode(m.fs) /\ <<b>> # <<m.fs.source[1]>>
        BY <1>0, <1>1, NodesDiffer, PoolIsNoBlock
    <2> QED BY <1>0, <2>1, <2>2 DEF Reachable
<1>3. ASSUME NEW n \in host.mounts, MountNode(n) \in Reachable(m) PROVE n.fs.id = m.fs.id
    <2>1. \A x : MountNode(n) # <<x>> BY NodesDiffer
    <2>2. m.fs.type = "zfs" => MountNode(n) # SourceNode(m.fs) BY <1>1, NodesDiffer
    <2>3. MountNode(n) = MountNode(m) BY <1>3, <2>1, <2>2 DEF Reachable
    <2> QED BY <2>3, NodesDiffer
<1>4. ASSUME NEW n \in host.mounts, n.fs.type = "zfs", SourceNode(n.fs) \in Reachable(m)
      PROVE  m.fs.type = "zfs" /\ n.fs.source = m.fs.source
    <2>1. SourceNode(n.fs) # MountNode(m) /\ \A x : SourceNode(n.fs) # <<x>> BY <1>1, <1>4, NodesDiffer
    <2>2. m.fs.type = "zfs" /\ SourceNode(n.fs) = SourceNode(m.fs) BY <1>4, <2>1 DEF Reachable
    <2> QED BY <2>2, <1>1, <1>4, NodesDiffer
<1>5. ASSUME NEW pool \in host.imported, <<pool.name>> \in Reachable(m)
      PROVE  m.fs.type = "zfs" /\ pool.name = m.fs.source[1]
    <2>1. pool \in PoolsKnown BY DEF IsHost
    <2>2. pool.name \notin Disks \cup Loops \cup DOMAIN ParentOf \cup DOMAIN Mapped \cup DOMAIN Arrays
        BY <2>1, HostAssumption DEF Devnodes
    <2>3. DOMAIN host.slaves \subseteq DOMAIN Mapped \cup DOMAIN Arrays
        BY StackedHasSlaves, StackingsAre
    <2>4. pool.name \notin AllUnder(m) BY <2>2, <2>3 DEF Blocks, AllUnder
    <2>5. <<pool.name>> # MountNode(m) BY NodesDiffer
    <2>6. m.fs.type = "zfs" => <<pool.name>> # SourceNode(m.fs) BY <1>1, NodesDiffer
    <2> QED BY <1>0, <1>5, <2>4, <2>5, <2>6 DEF Reachable
<1> QED BY <1>2, <1>3, <1>4, <1>5

(* Every edge stays among them.                                            *)
LEMMA EdgesStay ==
    ASSUME FourLevels, IsHost(host), NEW vols, AreOf(vols, host), NEW m \in host.mounts,
           NEW e \in Relationships(Sys(host), host.mounts, vols)
    PROVE  /\ e[1] \in Downward /\ e[2] \in Reachable(m) => e[3] \in Reachable(m)
           /\ e[1] \notin Downward /\ e[3] \in Reachable(m) => e[2] \in Reachable(m)
<1> DEFINE Stays == /\ e[1] \in Downward /\ e[2] \in Reachable(m) => e[3] \in Reachable(m)
                    /\ e[1] \notin Downward /\ e[3] \in Reachable(m) => e[2] \in Reachable(m)
<1>1. \A n \in host.mounts : n.fs.id = m.fs.id =>
        /\ n.fs.type = m.fs.type
        /\ IF m.fs.type = "zfs" THEN n.fs.source = m.fs.source
           ELSE n.fs.members = m.fs.members /\ n.fs.source \in m.fs.members
    <2> SUFFICES ASSUME NEW n \in host.mounts, n.fs.id = m.fs.id
                 PROVE  /\ n.fs.type = m.fs.type
                        /\ IF m.fs.type = "zfs" THEN n.fs.source = m.fs.source
                           ELSE n.fs.members = m.fs.members /\ n.fs.source \in m.fs.members
        OBVIOUS
    <2>1. n.fs \in FileSystems /\ m.fs \in FileSystems BY DEF IsHost, AllMounts
    <2>2. IsOneFileSystem(n.fs, m.fs) BY <2>1, HostAssumption
    <2>3. n.fs.type # "zfs" => n.fs.source \in n.fs.members BY BtrfsOfMount
    <2> QED BY <2>2, <2>3 DEF IsOneFileSystem
<1>2. BlocksOn(host, m) \subseteq AllUnder(m) BY BlocksOnAre DEF AllUnder, Under
<1>3. \A b \in AllUnder(m) : <<b>> \in Reachable(m) BY DEF Reachable
<1>4. CASE \E n \in host.mounts : IsLine(e, "mount_backed_by", MountNode(n), SourceNode(n.fs))
    <2>1. PICK n \in host.mounts : e[1] = "mount_backed_by" /\ e[2] = MountNode(n) /\ e[3] = SourceNode(n.fs)
        BY <1>4 DEF IsLine
    <2>2. ASSUME e[2] \in Reachable(m) PROVE e[3] \in Reachable(m)
        <3>1. n.fs.id = m.fs.id BY <2>1, <2>2, ReachableNodes
        <3>2. CASE m.fs.type = "zfs"
            <4>1. SourceNode(n.fs) = SourceNode(m.fs) BY <3>1, <3>2, <1>1 DEF SourceNode
            <4> QED BY <2>1, <3>2, <4>1 DEF Reachable
        <3>3. CASE m.fs.type # "zfs"
            <4>1. SourceNode(n.fs) = <<n.fs.source>> BY <3>1, <3>3, <1>1 DEF SourceNode
            <4>2. n.fs.source \in BlocksOn(host, m) BY <3>1, <3>3, <1>1 DEF BlocksOn
            <4> QED BY <2>1, <4>1, <4>2, <1>2, <1>3
        <3> QED BY <3>2, <3>3
    <2> QED BY <2>1, <2>2 DEF Downward
<1>5. CASE \E n \in host.mounts : n.fs.type # "zfs" /\ \E b \in n.fs.members :
              IsLine(e, "mount_backed_by", MountNode(n), <<b>>)
    <2>1. PICK n \in host.mounts : n.fs.type # "zfs" /\ \E b \in n.fs.members :
              IsLine(e, "mount_backed_by", MountNode(n), <<b>>)
        BY <1>5
    <2>2. PICK b \in n.fs.members : e[1] = "mount_backed_by" /\ e[2] = MountNode(n) /\ e[3] = <<b>>
        BY <2>1 DEF IsLine
    <2>3. ASSUME e[2] \in Reachable(m) PROVE e[3] \in Reachable(m)
        <3>1. n.fs.id = m.fs.id BY <2>2, <2>3, ReachableNodes
        <3>2. b \in BlocksOn(host, m) BY <2>1, <3>1, <1>1 DEF BlocksOn
        <3> QED BY <2>2, <3>2, <1>2, <1>3
    <2> QED BY <2>2, <2>3 DEF Downward
<1>6. CASE \E n \in host.mounts : n.fs.type = "zfs" /\
              IsLine(e, "zfs_dataset_of", SourceNode(n.fs), <<n.fs.source[1]>>)
    <2>1. PICK n \in host.mounts : /\ n.fs.type = "zfs" /\ e[1] = "zfs_dataset_of"
                                   /\ e[2] = SourceNode(n.fs) /\ e[3] = <<n.fs.source[1]>>
        BY <1>6 DEF IsLine
    <2>2. ASSUME e[2] \in Reachable(m) PROVE e[3] \in Reachable(m)
        <3>1. m.fs.type = "zfs" /\ n.fs.source = m.fs.source BY <2>1, <2>2, ReachableNodes
        <3> QED BY <2>1, <3>1 DEF Reachable
    <2> QED BY <2>1, <2>2 DEF Downward
<1>7. CASE \E b \in Blocks(host) : IsLine(e, "partition_of", <<b>>, <<Whole(Sys(host), b)>>)
    <2>1. PICK b \in Blocks(host) : /\ e[1] = "partition_of" /\ e[2] = <<b>>
                                    /\ e[3] = <<Whole(Sys(host), b)>>
        BY <1>7 DEF IsLine
    <2>2. ASSUME e[2] \in Reachable(m) PROVE e[3] \in Reachable(m)
        <3>1. b \in AllUnder(m) BY <2>1, <2>2, ReachableNodes
        <3>2. /\ Whole(Sys(host), b) \in Blocks(host)
              /\ Physical(Sys(host), Whole(Sys(host), b)) = Physical(Sys(host), b)
            BY WaysDown
        <3>3. Whole(Sys(host), b) \in AllUnder(m) BY <3>1, <3>2 DEF AllUnder
        <3> QED BY <2>1, <3>3, <1>3
    <2> QED BY <2>1, <2>2 DEF Downward
<1>8. CASE \E b \in Blocks(host) : \E d \in SysfsSlaves(Sys(host), b) :
              IsLine(e, "block_device_backed_by", <<b>>, <<d>>)
    <2>1. PICK b \in Blocks(host) : \E d \in SysfsSlaves(Sys(host), b) :
              IsLine(e, "block_device_backed_by", <<b>>, <<d>>)
        BY <1>8
    <2>2. PICK d \in SysfsSlaves(Sys(host), b) :
              e[1] = "block_device_backed_by" /\ e[2] = <<b>> /\ e[3] = <<d>>
        BY <2>1 DEF IsLine
    <2>3. ASSUME e[2] \in Reachable(m) PROVE e[3] \in Reachable(m)
        <3>1. b \in AllUnder(m) BY <2>2, <2>3, ReachableNodes
        <3>2. d \in Blocks(host) /\ Physical(Sys(host), d) \subseteq Physical(Sys(host), b) BY WaysDown
        <3>3. d \in AllUnder(m) BY <3>1, <3>2 DEF AllUnder
        <3> QED BY <2>2, <3>3, <1>3
    <2> QED BY <2>2, <2>3 DEF Downward
<1>9. CASE \E s \in DOMAIN host.slaves : \E b \in host.slaves[s] :
              s \in DOMAIN Arrays /\ IsLine(e, "raid_member_of", <<b>>, <<s>>)
    <2>1. PICK s \in DOMAIN host.slaves : \E b \in host.slaves[s] :
              s \in DOMAIN Arrays /\ IsLine(e, "raid_member_of", <<b>>, <<s>>)
        BY <1>9
    <2>2. PICK b \in host.slaves[s] : e[1] = "raid_member_of" /\ e[2] = <<b>> /\ e[3] = <<s>>
        BY <2>1 DEF IsLine
    <2>3. ASSUME e[3] \in Reachable(m) PROVE e[2] \in Reachable(m)
        <3>1. s \in AllUnder(m) BY <2>1, <2>2, <2>3, ReachableNodes
        <3>2. b \in Blocks(host) BY ClaimsHold DEF IsHost
        <3>3. Physical(Sys(host), b) \subseteq Physical(Sys(host), s)
            <4>1. Sys(host).slaves = host.slaves /\ Stacked(Sys(host)) BY HostIsStacked DEF Sys
            <4>2. Physical(Sys(host), s) = UNION {Physical(Sys(host), c) : c \in host.slaves[s]}
                BY <4>1, PhysicalOfStack
            <4> QED BY <4>2
        <3>4. b \in AllUnder(m) BY <3>1, <3>2, <3>3 DEF AllUnder
        <3> QED BY <2>2, <3>4, <1>3
    <2> QED BY <2>2, <2>3 DEF Downward
<1>10. CASE \E pool \in host.imported : \E b \in PoolDevices(pool) :
              IsLine(e, "zfs_member_of", <<b>>, <<pool.name>>)
    <2>1. PICK pool \in host.imported : \E b \in PoolDevices(pool) :
              IsLine(e, "zfs_member_of", <<b>>, <<pool.name>>)
        BY <1>10
    <2>2. PICK b \in PoolDevices(pool) : e[1] = "zfs_member_of" /\ e[2] = <<b>> /\ e[3] = <<pool.name>>
        BY <2>1 DEF IsLine
    <2>3. ASSUME e[3] \in Reachable(m) PROVE e[2] \in Reachable(m)
        <3>1. m.fs.type = "zfs" /\ pool.name = m.fs.source[1] BY <2>2, <2>3, ReachableNodes
        <3>2. PICK q \in host.imported : /\ BlocksOn(host, m) = PoolDevices(q)
                                         /\ \A p \in host.imported : p.name = m.fs.source[1] => p = q
            BY <3>1, BlocksOnAre
        <3>3. b \in BlocksOn(host, m) BY <3>1, <3>2
        <3> QED BY <2>2, <3>3, <1>2, <1>3
    <2> QED BY <2>2, <2>3 DEF Downward
<1> HIDE DEF Stays
<1>11. Stays BY <1>4, <1>5, <1>6, <1>7, <1>8, <1>9, <1>10, EdgesAre DEF Stays
<1> QED BY <1>11 DEF Stays

(* Every disk under a mount can be reached, and no other.                  *)
LEMMA StepDown ==
    ASSUME FourLevels, IsHost(host), NEW edges, NEW b \in Blocks(host), EdgesOf(Sys(host), b) \subseteq edges,
           NEW d \in Disks, d \in Physical(Sys(host), b)
    PROVE  <<d>> \in StepsFrom(edges, <<b>>)
<1>1. (Whole(Sys(host), b) = d /\ IsPartition(Sys(host), b)) \/ d \in SysfsSlaves(Sys(host), b)
    BY WaysDown
<1>2. \E e \in EdgesOf(Sys(host), b) : e[1] \in Downward /\ e[2] = <<b>> /\ e[3] = <<d>>
    <2>1. CASE d \in SysfsSlaves(Sys(host), b)
        <3> DEFINE e == <<"block_device_backed_by", <<b>>, <<d>>>>
        <3>1. e \in EdgesOf(Sys(host), b) BY <2>1 DEF EdgesOf
        <3>2. e[1] = "block_device_backed_by" /\ e[2] = <<b>> /\ e[3] = <<d>> OBVIOUS
        <3> HIDE DEF e
        <3> QED BY <3>1, <3>2 DEF Downward
    <2>2. CASE Whole(Sys(host), b) = d /\ IsPartition(Sys(host), b)
        <3>1. b \in DOMAIN Sys(host).parent /\ Sys(host).parent[b] = d BY <2>2 DEF Whole, IsPartition
        <3> DEFINE e == <<"partition_of", <<b>>, <<Sys(host).parent[b]>>>>
        <3>2. e \in EdgesOf(Sys(host), b) BY <3>1 DEF EdgesOf
        <3>3. e[1] = "partition_of" /\ e[2] = <<b>> /\ e[3] = <<d>> BY <3>1
        <3> HIDE DEF e
        <3> QED BY <3>2, <3>3 DEF Downward
    <2> QED BY <1>1, <2>1, <2>2
<1> QED BY <1>2 DEF StepsFrom

LEMMA ReachedOfPool ==
    ASSUME FourLevels, IsHost(host), NEW vols, AreOf(vols, host), NEW m \in host.mounts, m.fs.type = "zfs",
           NEW d \in Disks, d \in Under(host, BlocksOn(host, m))
    PROVE  <<d>> \in Follow(Relationships(Sys(host), host.mounts, vols), MountNode(m))
<1> DEFINE E == Relationships(Sys(host), host.mounts, vols)
           M == MountEdges(Sys(host), m, vols)
<1>1. PICK t : /\ PoolsOf(m, vols) = {t} /\ t \in vols.zfs /\ t.name = m.fs.source[1]
               /\ LeafNames(t) = BlocksOn(host, m)
    BY PoolOfMount
<1>2. PICK b \in BlocksOn(host, m) : d \in Physical(Sys(host), b) BY DEF Under
<1>3. b \in Blocks(host) BY BlocksOnAre
<1>4. PICK leaf \in Leaves(t) : leaf.name = b BY <1>1, <1>2 DEF LeafNames
<1>5. M \subseteq E /\ PoolEdges(Sys(host), t) \subseteq E BY <1>1 DEF Relationships
<1> DEFINE e1 == <<"mount_backed_by", MountNode(m), SourceNode(m.fs)>>
           e2 == <<"zfs_dataset_of", SourceNode(m.fs), <<t.name>>>>
           e3 == <<"zfs_member_of", <<b>>, <<t.name>>>>
<1>6. e1 \in E /\ e2 \in E
    <2>1. e1 \in M BY DEF MountEdges
    <2>2. e2 \in M BY <1>1 DEF MountEdges
    <2> HIDE DEF e1, e2, M, E
    <2> QED BY <1>5, <2>1, <2>2
<1>7. e3 \in E /\ EdgesOf(Sys(host), b) \subseteq E
    <2>1. e3 \in PoolEdges(Sys(host), t) /\ EdgesOf(Sys(host), b) \subseteq PoolEdges(Sys(host), t)
        BY <1>4 DEF PoolEdges
    <2> HIDE DEF e3, M, E
    <2> QED BY <1>5, <2>1
<1>8. /\ e1[1] \in Downward /\ e1[2] = MountNode(m) /\ e1[3] = SourceNode(m.fs)
      /\ e2[1] \in Downward /\ e2[2] = SourceNode(m.fs) /\ e2[3] = <<t.name>>
      /\ e3[1] \notin Downward /\ e3[2] = <<b>> /\ e3[3] = <<t.name>>
    BY DEF Downward
<1> HIDE DEF e1, e2, e3, M, E
<1>9. SourceNode(m.fs) \in StepsFrom(E, MountNode(m)) BY <1>6, <1>8 DEF StepsFrom
<1>10. <<t.name>> \in StepsFrom(E, SourceNode(m.fs)) BY <1>6, <1>8 DEF StepsFrom
<1>11. <<b>> \in StepsFrom(E, <<t.name>>) BY <1>7, <1>8 DEF StepsFrom
<1>12. <<d>> \in StepsFrom(E, <<b>>) BY <1>2, <1>3, <1>7, StepDown
<1>13. <<d>> \in Follow(E, MountNode(m)) BY <1>9, <1>10, <1>11, <1>12, FollowTakes
<1> QED BY <1>13 DEF E

LEMMA ReachedOfBlocks ==
    ASSUME FourLevels, IsHost(host), NEW vols, AreOf(vols, host), NEW m \in host.mounts, m.fs.type # "zfs",
           NEW d \in Disks, d \in Under(host, BlocksOn(host, m))
    PROVE  <<d>> \in Follow(Relationships(Sys(host), host.mounts, vols), MountNode(m))
<1> DEFINE E == Relationships(Sys(host), host.mounts, vols)
           blocks == IF m.fs.type = "zfs" THEN {}
                     ELSE {m.fs.source} \cup BtrfsMembers(Sys(host).mounts, m.fs.source)
<1>1. PICK b \in m.fs.members : d \in Physical(Sys(host), b) BY DEF Under, BlocksOn
<1>2. b \in Blocks(host) /\ b \in blocks BY BtrfsOfMount
<1> HIDE DEF blocks
<1>3. MountEdges(Sys(host), m, vols) \subseteq E BY DEF Relationships
<1>4. MountEdges(Sys(host), m, vols) =
        {<<"mount_backed_by", MountNode(m), SourceNode(m.fs)>>}
        \cup {<<"mount_backed_by", MountNode(m), <<c>>>> : c \in blocks}
        \cup (UNION {EdgesOf(Sys(host), c) : c \in blocks})
        \cup {<<"zfs_dataset_of", SourceNode(m.fs), <<pool.name>>>> : pool \in PoolsOf(m, vols)}
    BY Zenon DEF MountEdges, blocks
<1> DEFINE e1 == <<"mount_backed_by", MountNode(m), <<b>>>>
<1>5. e1 \in MountEdges(Sys(host), m, vols) /\ EdgesOf(Sys(host), b) \subseteq MountEdges(Sys(host), m, vols)
    BY <1>2, <1>4
<1>6. e1[1] \in Downward /\ e1[2] = MountNode(m) /\ e1[3] = <<b>> BY DEF Downward
<1> HIDE DEF e1, E
<1>7. e1 \in E /\ EdgesOf(Sys(host), b) \subseteq E BY <1>3, <1>5
<1>8. <<b>> \in StepsFrom(E, MountNode(m)) BY <1>6, <1>7 DEF StepsFrom
<1>9. <<d>> \in StepsFrom(E, <<b>>) BY <1>1, <1>2, <1>7, StepDown
<1>10. <<d>> \in Follow(E, MountNode(m)) BY <1>8, <1>9, FollowTakes
<1> QED BY <1>10 DEF E

LEMMA ReachedAreUnder ==
    ASSUME FourLevels, IsHost(host), AreOf(volumes, host), NEW m \in host.mounts
    PROVE  Reached(m) = Under(host, BlocksOn(host, m))
<1> DEFINE E == Relationships(Sys(host), host.mounts, volumes)
           U == Under(host, BlocksOn(host, m))
<1>1. U \subseteq Disks BY BlocksOnAre, PhysicalAreDisks DEF Under
<1>2. \A d \in U : <<d>> \in Follow(E, MountNode(m)) BY <1>1, ReachedOfPool, ReachedOfBlocks
<1>3. Follow(E, MountNode(m)) \subseteq Reachable(m)
    <2>1. MountNode(m) \in Reachable(m) BY DEF Reachable
    <2>2. \A e \in E : /\ e[1] \in Downward /\ e[2] \in Reachable(m) => e[3] \in Reachable(m)
                       /\ e[1] \notin Downward /\ e[3] \in Reachable(m) => e[2] \in Reachable(m)
        BY EdgesStay
    <2> HIDE DEF E
    <2>3. \A x \in Reachable(m) : StepsFrom(E, x) \subseteq Reachable(m) BY <2>2 DEF StepsFrom
    <2> QED BY <2>1, <2>3, FollowStays
<1>4. ASSUME NEW d \in Disks, <<d>> \in Reachable(m) PROVE d \in U
    <2>1. d \in Blocks(host) BY DEF Blocks
    <2>2. d \in AllUnder(m) BY <2>1, <1>4, ReachableNodes
    <2>3. d \in Physical(Sys(host), d)
        <3>1. Whole(Sys(host), d) = d BY DiskIsWhole
        <3> QED BY <2>1, <3>1, WaysDown
    <2> QED BY <2>2, <2>3 DEF AllUnder
<1> HIDE DEF U
<1>5. Reached(m) = {d \in Disks : <<d>> \in Follow(E, MountNode(m))} BY DEF Reached
<1> HIDE DEF E
<1>6. Reached(m) = U BY <1>1, <1>2, <1>3, <1>4, <1>5
<1> QED BY <1>6 DEF U

(* The mounts of a row come to the disks under its blocks, by any of the   *)
(* ways of following them, if no device is stacked higher than sysfs_slaves*)
(* goes down.  What the screen shows under a disk, it shows so of those    *)
(* whose names it does not cut.                                            *)
THEOREM ViewsAgreeHolds ==
    ASSUME FourLevels
    PROVE  Spec => []ViewsAgree
<1> DEFINE Agree(r, m) ==
             LET under == DisksUnder(r) \cup IdleDisks(r)
             IN  /\ r.disks = DisksUnder(r)
                 /\ Reached(m) = under
                 /\ ShownUnder(m) = under \cap Lettered
                 /\ FilesUnder(m) = IF DeviceId(Sys(host), m) = Unknown THEN {} ELSE under \cap Lettered
                 /\ \A d \in Lettered : HeaderAgrees(d, m, d \in under)
<1>1. ASSUME HostInv, "rows of the host" \in current, NEW r \in rows, NEW m \in r.mounts
      PROVE  Agree(r, m)
    <2>1. PICK vols : AreOf(vols, host) /\ rows = Resolve(Sys(host), host.mounts, vols)
        BY <1>1 DEF HostInv
    <2>2. IsHost(host) /\ AreOf(volumes, host) BY <1>1 DEF HostInv
    <2> DEFINE all == Unassigned(Sys(host), host.mounts, vols)
               U == Under(host, BlocksOn(host, m))
    <2>3. rows = {Assigned(all, s) : s \in all} BY <2>1, ResolvedRows
    <2>4. PICK s \in all : r = Assigned(all, s) BY <1>1, <2>3
    <2>5. r.id = s.id /\ r.mounts = s.mounts /\ r.disks = s.disks BY <2>4, ResolvedRows
    <2>6. BlocksOf(r) = BlocksOf(s) /\ IdleDisks(r) = IdleDisks(s)
        BY <2>5 DEF BlocksOf, IdleDisks, Vdevs
    <2>7. m \in host.mounts /\ Under(host, BlocksOf(s)) \cup IdleDisks(s) = U
        <3>1. m \in s.mounts BY <2>5
        <3> QED BY <2>1, <2>2, <2>4, <3>1, RowOfMount
    <2>8. DisksUnder(r) = Under(host, BlocksOf(r)) BY DEF DisksUnder, Under
    <2>9. r.disks = DisksUnder(r) BY <1>1, DisksOfRows DEF RowsHaveTheirDisks
    <2>10. DisksUnder(r) \cup IdleDisks(r) = U BY <2>6, <2>7, <2>8
    <2>11. ShownUnder(m) = U \cap Lettered
        <3>1. \A d \in Lettered : IsAttributable(Sys(host), m, d, volumes) <=> d \in U
            BY <2>2, <2>7, ShownAreUnder
        <3> HIDE DEF U
        <3> QED BY <3>1 DEF ShownUnder
    <2>12. FilesUnder(m) = IF DeviceId(Sys(host), m) = Unknown THEN {} ELSE U \cap Lettered
        BY <2>2, <2>7, FilesAreUnder
    <2>13. Reached(m) = U BY <2>2, <2>7, ReachedAreUnder
    <2>14. \A d \in Lettered : HeaderAgrees(d, m, d \in U) BY <2>2, <2>7, HeaderOf
    <2> HIDE DEF U, all
    <2> QED BY <2>9, <2>10, <2>11, <2>12, <2>13, <2>14
<1>2. ViewsAgree <=> ("rows of the host" \in current => \A r \in rows : \A m \in r.mounts : Agree(r, m))
    BY Zenon DEF ViewsAgree
<1> HIDE DEF Agree
<1>3. HostInv => ViewsAgree BY <1>1, <1>2
<1> QED BY <1>3, HostInvHolds, PTL
=============================================================================
