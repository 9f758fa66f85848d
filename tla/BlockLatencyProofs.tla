------------------------- MODULE BlockLatencyProofs -------------------------
(***************************************************************************)
(* What BlockLatency guarantees for any number of I/Os, requests and keys. *)
(***************************************************************************)
EXTENDS BlockLatency, FiniteSetTheorems, TLAPS

(* An issue writes a start of its own I/O into an element of its own.      *)
LEMMA PutStartType ==
  ASSUME TypeOK, NEW i \in Ios, NEW r \in Reqs, NEW k \in Kinds,
         issues[i] < MaxIssues, PutStart(i, r, k)
  PROVE  /\ starts' \in [Reqs -> Elems \cup {None}]
         /\ startVal' \in [Elems -> Start \cup {None}]
         /\ crowded' \in SUBSET Ios
         /\ \A q \in Reqs : starts'[q] # None => startVal'[starts'[q]] \in Start
         /\ \A e \in Elems : startVal[e] \in Start => startVal'[e] \in Start
<1> DEFINE v == [io |-> i, issue |-> issues[i] + 1, kind |-> k]
<1>1. v \in Start
  BY BoundsAssumption DEF TypeOK, Start
<1>0. PICK victims \in SUBSET Live :
        /\ crowded' = (crowded \ {i}) \cup Losing(victims \ {r})
        /\ \E e \in Elems \ {starts[q] : q \in Live \ victims} :
          /\ starts' = [q \in Reqs |-> IF q = r THEN e
                                       ELSE IF q \in victims THEN None ELSE starts[q]]
          /\ startVal' = [startVal EXCEPT ![e] = v]
  BY DEF PutStart
<1>2. PICK e \in Elems \ {starts[q] : q \in Live \ victims} :
        /\ starts' = [q \in Reqs |-> IF q = r THEN e
                                     ELSE IF q \in victims THEN None ELSE starts[q]]
        /\ startVal' = [startVal EXCEPT ![e] = v]
  BY <1>0
<1>3. e \in Elems /\ e # None
  BY ElemsAssumption
<1>4. crowded' \in SUBSET Ios
  BY <1>0 DEF Losing, TypeOK
<1> HIDE DEF v
<1> QED BY <1>1, <1>2, <1>3, <1>4 DEF TypeOK, Live

(* The same when the program ignores the issue or is not attached.         *)
LEMMA TraceIssueType ==
  ASSUME TypeOK, NEW i \in Ios, NEW r \in Reqs, NEW k \in Kinds \cup {Other},
         issues[i] < MaxIssues, TraceIssue(i, r, k)
  PROVE  /\ starts' \in [Reqs -> Elems \cup {None}]
         /\ startVal' \in [Elems -> Start \cup {None}]
         /\ crowded' \in SUBSET Ios
         /\ \A q \in Reqs : starts'[q] # None => startVal'[starts'[q]] \in Start
         /\ \A e \in Elems : startVal[e] \in Start => startVal'[e] \in Start
<1>1. CASE UNCHANGED <<startVars, crowded>>
  BY <1>1 DEF TypeOK, Live, startVars
<1>2. CASE k # Other /\ PutStart(i, r, k)
  BY <1>2, PutStartType
<1> QED BY <1>1, <1>2 DEF TraceIssue

(* Every variable of the latency path always holds a value of its type: a  *)
(* completion never follows a pointer or uses a key it has not got.        *)
THEOREM BlockTypeCorrect == Spec => []TypeOK
<1>1. Init => TypeOK
  BY BoundsAssumption DEF Init, TypeOK, Counts, NoCounts, Live
<1>2. TypeOK /\ [Next]_vars => TypeOK'
  <2> SUFFICES ASSUME TypeOK, [Next]_vars PROVE TypeOK'
    OBVIOUS
  <2> USE DEF probeVars, histVars, readerVars
  <2>1. ASSUME NEW i \in Ios, Io(i) PROVE TypeOK'
    <3>1. ASSUME NEW r \in Reqs, NEW k \in Kinds \cup {Other},
                 NEW p \in 1..MaxParts, Issue(i, r, k, p)
          PROVE  TypeOK'
      <4>1. issues[i] < MaxIssues
        BY <3>1, BoundsAssumption DEF TypeOK, Issue
      <4> QED BY <3>1, <4>1, TraceIssueType, BoundsAssumption DEF Issue, TypeOK, Live, Counts
    <3>2. CASE Reissue(i)
      <4>1. /\ req[i] \in Reqs /\ kind[i] \in Kinds \cup {Other}
            /\ issues[i] < MaxIssues /\ TraceIssue(i, req[i], kind[i])
        BY <3>2 DEF Reissue, TypeOK
      <4>2. /\ starts' \in [Reqs -> Elems \cup {None}]
            /\ startVal' \in [Elems -> Start \cup {None}]
            /\ crowded' \in SUBSET Ios
            /\ \A q \in Reqs : starts'[q] # None => startVal'[starts'[q]] \in Start
            /\ \A e \in Elems : startVal[e] \in Start => startVal'[e] \in Start
        BY <4>1, TraceIssueType
      <4> QED BY <3>2, <4>2, BoundsAssumption DEF Reissue, TypeOK, Live, Counts
    <3>3. CASE Partial(i)
      BY <3>3, BoundsAssumption DEF Partial, TypeOK, Live, Counts, startVars
    <3>4. CASE CompleteUnknown(i)
      BY <3>4, BoundsAssumption DEF CompleteUnknown, TypeOK, Live, Counts, startVars
    <3>5. CASE CompleteFound(i)
      <4>1. req[i] \in Live /\ starts[req[i]] \in Elems /\ startVal[starts[req[i]]] \in Start
        BY <3>5 DEF CompleteFound, TypeOK, Live
      <4> QED
        BY <3>5, <4>1, BoundsAssumption DEF CompleteFound, TypeOK, Live, Counts, startVars
    <3>6. CASE ReadStart(i)
      BY <3>6 DEF ReadStart, TypeOK, Live, Counts, startVars, HistogramKeys, Start
    <3>7. CASE LookupCount(i) \/ RelookupCount(i)
      BY <3>7 DEF LookupCount, RelookupCount, TypeOK, Live, Counts, startVars
    <3>8. CASE InsertCount(i)
      BY <3>8 DEF InsertCount, TypeOK, Live, Counts, startVars
    <3>9. CASE Count(i)
      BY <3>9 DEF Count, TypeOK, Live, Counts, startVars
    <3>10. CASE DeleteStart(i)
      BY <3>10 DEF DeleteStart, TypeOK, Live, Counts, startVars
    <3> QED
      BY <2>1, <3>1, <3>2, <3>3, <3>4, <3>5, <3>6, <3>7, <3>8, <3>9, <3>10 DEF Io
  <2> USE DEF kernelVars, blockVars, startVars
  <2>2. CASE AttachIssue \/ AttachComplete \/ AttachFails
    BY <2>2 DEF AttachIssue, AttachComplete, AttachFails, TypeOK, Live, Counts
  <2>3. CASE BeginRead \/ ReadFails
    BY <2>3 DEF BeginRead, ReadFails, TypeOK, Live, Counts, NoCounts
  <2>4. ASSUME NEW h \in HistogramKeys, ReadCount(h) PROVE TypeOK'
    BY <2>4 DEF ReadCount, TypeOK, Live, Counts
  <2>5. CASE ReturnDelta
    BY <2>5 DEF ReturnDelta, TypeOK, Live, Counts, Union
  <2>6. CASE SkipSnapshot \/ UNCHANGED vars
    BY <2>6 DEF SkipSnapshot, vars, TypeOK, Live, Counts
  <2> QED
    BY <2>1, <2>2, <2>3, <2>4, <2>5, <2>6 DEF Next, Reader
<1> QED
  BY <1>1, <1>2, PTL DEF Spec

-----------------------------------------------------------------------------
(* An I/O is counted under the one key its completion computed.            *)
LEMMA CountedUnderKeyInvariant == Spec => []CountedUnderKey
<1>1. Init => CountedUnderKey
  BY DEF Init, CountedUnderKey, NoCounts
<1>2. TypeOK /\ CountedUnderKey /\ [Next]_vars => CountedUnderKey'
  <2> SUFFICES ASSUME TypeOK, CountedUnderKey, [Next]_vars PROVE CountedUnderKey'
    OBVIOUS
  <2>1. ASSUME NEW i \in Ios, Io(i) PROVE CountedUnderKey'
    <3> USE DEF CountedUnderKey, TypeOK, probeVars, histVars
    <3>1. ASSUME NEW r \in Reqs, NEW k \in Kinds \cup {Other},
                 NEW p \in 1..MaxParts, Issue(i, r, k, p)
          PROVE  CountedUnderKey'
      BY <3>1 DEF Issue
    <3>2. CASE Reissue(i) \/ Partial(i)
      BY <3>2 DEF Reissue, Partial
    <3>3. CASE CompleteUnknown(i) \/ CompleteFound(i) \/ ReadStart(i)
      BY <3>3 DEF CompleteUnknown, CompleteFound, ReadStart
    <3>4. CASE LookupCount(i) \/ RelookupCount(i)
      BY <3>4 DEF LookupCount, RelookupCount
    <3>5. CASE InsertCount(i)
      BY <3>5 DEF InsertCount, Counts
    <3>6. CASE Count(i)
      <4>1. /\ hist' = [hist EXCEPT ![key[i]] = @ \cup {i}] /\ keys' = keys /\ key' = key
            /\ at' = [at EXCEPT ![i] = "delete"] /\ key[i] \in HistogramKeys
            /\ hist \in Counts /\ at[i] = "count" /\ key[i] \in keys
        BY <3>6 DEF Count
      <4> QED BY <4>1 DEF Counts
    <3>7. CASE DeleteStart(i)
      BY <3>7 DEF DeleteStart
    <3> QED
      BY <2>1, <3>1, <3>2, <3>3, <3>4, <3>5, <3>6, <3>7 DEF Io
  <2>2. CASE Reader \/ UNCHANGED vars
    BY <2>2 DEF Reader, AttachIssue, AttachComplete, AttachFails, BeginRead, ReadCount,
       ReadFails, ReturnDelta, SkipSnapshot, vars, kernelVars, blockVars, probeVars,
       histVars, CountedUnderKey
  <2> QED
    BY <2>1, <2>2 DEF Next
<1> QED
  BY <1>1, <1>2, BlockTypeCorrect, PTL DEF Spec

(* Each counted I/O is reported by exactly one snapshot: an iteration that *)
(* reads counters one by one while completions add to them never reports   *)
(* one twice, and what it has not read yet is left for the next one.       *)
THEOREM ReportsOnce == Spec => []ReportedOnce
<1>1. Init => ReportedOnce /\ BaselineInv
  BY DEF Init, ReportedOnce, BaselineInv, NoCounts, Union
<1>2. /\ TypeOK /\ CountedUnderKey /\ CountedUnderKey'
      /\ ReportedOnce /\ BaselineInv /\ [Next]_vars
      => (ReportedOnce /\ BaselineInv)'
  <2> SUFFICES ASSUME TypeOK, CountedUnderKey, CountedUnderKey', ReportedOnce,
                      BaselineInv, [Next]_vars
               PROVE  ReportedOnce' /\ BaselineInv'
    OBVIOUS
  <2>1. ASSUME NEW i \in Ios, Io(i) PROVE ReportedOnce' /\ BaselineInv'
    <3>1. /\ UNCHANGED readerVars
          /\ \A h \in HistogramKeys : hist[h] \subseteq hist'[h]
      <4>1. CASE InsertCount(i)
        BY <4>1 DEF InsertCount, CountedUnderKey, TypeOK, Counts, readerVars, histVars
      <4>2. CASE Count(i)
        BY <4>2 DEF Count, TypeOK, Counts, readerVars
      <4>3. ASSUME NEW r \in Reqs, NEW k \in Kinds \cup {Other},
                   NEW p \in 1..MaxParts, Issue(i, r, k, p)
            PROVE  UNCHANGED readerVars /\ hist' = hist
        BY <4>3 DEF Issue, histVars
      <4>4. CASE Reissue(i) \/ Partial(i) \/ CompleteUnknown(i) \/ CompleteFound(i)
                 \/ ReadStart(i) \/ LookupCount(i) \/ RelookupCount(i) \/ DeleteStart(i)
        BY <4>4 DEF Reissue, Partial, CompleteUnknown, CompleteFound, ReadStart,
           LookupCount, RelookupCount, DeleteStart, histVars
      <4> QED BY <2>1, <4>1, <4>2, <4>3, <4>4 DEF Io
    <3>2. UNCHANGED <<upc, present, visited, current, previous, sample, told>>
      BY <3>1 DEF readerVars
    <3>3. ReportedOnce'
      <4>1. Union(sample)' = Union(sample) /\ Union(previous)' = Union(previous)
        BY <3>2 DEF Union
      <4> QED BY <3>1, <3>2, <4>1 DEF ReportedOnce
    <3>4. BaselineInv'
      BY <3>1, <3>2 DEF BaselineInv
    <3> QED BY <3>3, <3>4
  <2>2. CASE AttachIssue \/ AttachComplete \/ AttachFails \/ ReadFails \/ SkipSnapshot
             \/ UNCHANGED vars
    BY <2>2 DEF AttachIssue, AttachComplete, AttachFails, ReadFails, SkipSnapshot, vars,
       kernelVars, histVars, readerVars, ReportedOnce, BaselineInv, Union
  <2>3. CASE BeginRead
    <3>1. /\ UNCHANGED <<hist, previous, sample, told>> /\ present' = keys /\ visited' = {}
          /\ current' = NoCounts
      BY <2>3 DEF BeginRead, kernelVars, histVars
    <3>2. ReportedOnce'
      BY <3>1 DEF ReportedOnce, Union
    <3>3. BaselineInv'
      BY <3>1 DEF ReportedOnce, BaselineInv, CountedUnderKey, NoCounts, TypeOK
    <3> QED BY <3>2, <3>3
  <2>4. ASSUME NEW h \in HistogramKeys, ReadCount(h)
        PROVE  ReportedOnce' /\ BaselineInv'
    <3>1. /\ UNCHANGED <<hist, upc, present, previous, sample, told>>
          /\ visited' = visited \cup {h} /\ current' = [current EXCEPT ![h] = hist[h]]
      BY <2>4 DEF ReadCount, kernelVars, histVars
    <3>2. ReportedOnce'
      BY <3>1 DEF ReportedOnce, Union
    <3>3. BaselineInv'
      BY <3>1 DEF ReportedOnce, BaselineInv, TypeOK, Counts
    <3> QED BY <3>2, <3>3
  <2>5. CASE ReturnDelta
    <3>1. /\ sample' = [h \in HistogramKeys |-> current[h] \ previous[h]]
          /\ told' = told \cup Union(sample) /\ previous' = current /\ upc' = "idle"
          /\ UNCHANGED <<hist, current>>
          /\ \A h \in HistogramKeys : previous[h] \subseteq current[h]
      BY <2>5 DEF ReturnDelta, BaselineInv, kernelVars, histVars, TypeOK
    <3>2. told' = Union(previous)
      BY <3>1 DEF ReportedOnce
    <3>3. Union(previous') = Union(previous) \cup Union(sample')
      BY <3>1 DEF Union
    <3>4. Union(previous) \cap Union(sample') = {}
      <4> SUFFICES ASSUME NEW g \in HistogramKeys, NEW h \in HistogramKeys, NEW i,
                          i \in previous[g], i \in current[h], i \notin previous[h]
                   PROVE  FALSE
        BY <3>1 DEF Union
      <4>1. i \in Ios /\ i \in hist[g] /\ i \in hist[h]
        BY DEF ReportedOnce, BaselineInv, TypeOK, Counts
      <4> QED BY <4>1 DEF CountedUnderKey
    <3>5. BaselineInv'
      BY <3>1 DEF BaselineInv
    <3>6. \A h \in HistogramKeys : previous'[h] \subseteq hist'[h]
      BY <3>1 DEF BaselineInv
    <3> QED BY <3>2, <3>3, <3>4, <3>5, <3>6 DEF ReportedOnce, Union
  <2> QED
    BY <2>1, <2>2, <2>3, <2>4, <2>5 DEF Next, Reader
<1> QED
  BY <1>1, <1>2, BlockTypeCorrect, CountedUnderKeyInvariant, PTL DEF Spec

-----------------------------------------------------------------------------
(* A traced issue of i that puts its start into e and evicts victims.      *)
Takes(i, r, k, victims, e) ==
  /\ crowded' = (crowded \ {i}) \cup Losing(victims \ {r})
  /\ \A q \in Live \ victims : starts[q] # e
  /\ starts' = [q \in Reqs |-> IF q = r THEN e
                               ELSE IF q \in victims THEN None ELSE starts[q]]
  /\ startVal' = [startVal EXCEPT ![e] = [io |-> i, issue |-> issues[i] + 1, kind |-> k]]

(* An issue that is traced takes an element that no start left in the table*)
(* has, and those that lose theirs to it are crowded out.                  *)
LEMMA TraceTakes ==
  ASSUME TypeOK, NEW i \in Ios, NEW r \in Reqs, NEW k \in Kinds \cup {Other},
         TraceIssue(i, r, k)
  PROVE  \/ /\ UNCHANGED <<starts, startVal, crowded>>
            /\ "issue" \notin attached \/ k = Other
         \/ /\ k \in Kinds /\ "issue" \in attached
            /\ \E victims \in SUBSET Live, e \in Elems : Takes(i, r, k, victims, e)
<1>1. CASE "issue" \in attached /\ k # Other
  <2>1. k \in Kinds /\ PutStart(i, r, k)
    BY <1>1 DEF TraceIssue
  <2>2. PICK victims \in SUBSET Live :
          /\ crowded' = (crowded \ {i}) \cup Losing(victims \ {r})
          /\ \E e \in Elems \ {starts[q] : q \in Live \ victims} :
               /\ starts' = [q \in Reqs |-> IF q = r THEN e
                                            ELSE IF q \in victims THEN None
                                            ELSE starts[q]]
               /\ startVal' = [startVal EXCEPT ![e] =
                                 [io |-> i, issue |-> issues[i] + 1, kind |-> k]]
    BY <2>1 DEF PutStart
  <2>3. PICK e \in Elems \ {starts[q] : q \in Live \ victims} :
          /\ starts' = [q \in Reqs |-> IF q = r THEN e
                                       ELSE IF q \in victims THEN None
                                       ELSE starts[q]]
          /\ startVal' = [startVal EXCEPT ![e] =
                            [io |-> i, issue |-> issues[i] + 1, kind |-> k]]
    BY <2>2
  <2>4. Takes(i, r, k, victims, e)
    BY <2>2, <2>3 DEF Takes
  <2> QED BY <1>1, <2>1, <2>4
<1>2. CASE ~ ("issue" \in attached /\ k # Other)
  BY <1>2 DEF TraceIssue, startVars
<1> QED BY <1>1, <1>2

(* The inductive invariant of the measurement.                             *)
MeasureInv == Unshared /\ OwnStart

(* Issues keep it: the new start replaces the request's own and those of   *)
(* I/Os that are then crowded out.                                         *)
LEMMA IssueMeasures ==
  ASSUME TypeOK, Unshared, OwnStart, CountedUnderKey,
         NEW i \in Ios, NEW r \in Reqs, NEW k \in Kinds \cup {Other},
         TraceIssue(i, r, k), issues' = [issues EXCEPT ![i] = issues[i] + 1],
         at' = [at EXCEPT ![i] = "issued"], at[i] \in {"new", "issued"},
         req' = [req EXCEPT ![i] = r], kind' = [kind EXCEPT ![i] = k],
         \A j \in Ios \ {i} : at[j] \notin {"new", "finished"} => req[j] # r,
         \A j \in Ios \ {i} : left'[j] = left[j],
         UNCHANGED <<attached, probeVars, histVars, upc>>
  PROVE  Unshared' /\ OwnStart'
<1>1. CASE UNCHANGED <<starts, startVal, crowded>> /\ ("issue" \notin attached \/ k = Other)
  <2>1. Unshared' /\ Live' = Live
    BY <1>1 DEF Unshared, Live, TypeOK
  <2>2. ASSUME NEW j \in Ios \ {i}
        PROVE  /\ at'[j] = at[j] /\ req'[j] = req[j] /\ kind'[j] = kind[j]
               /\ Own(j)' = Own(j) /\ left'[j] = left[j]
    BY DEF TypeOK, Own
  <2>3. at'[i] = "issued" /\ kind'[i] = k /\ (k \in Kinds => attached = {})
    BY <1>1, KindsAssumption DEF TypeOK
  <2>4. UNCHANGED <<hist, from, key, attached, ptr>>
    BY DEF probeVars, histVars
  <2> QED BY <1>1, <2>1, <2>2, <2>3, <2>4 DEF OwnStart
<1>2. ASSUME k \in Kinds, "issue" \in attached, NEW victims \in SUBSET Live, NEW e \in Elems,
             Takes(i, r, k, victims, e)
      PROVE  Unshared' /\ OwnStart'
  <2>1. Unshared'
    <3>1. ASSUME NEW q \in Reqs, starts'[q] # None, q # r
          PROVE  starts'[q] = starts[q] /\ starts[q] # e /\ q \in Live /\ starts'[r] = e
      BY <1>2, <3>1 DEF Takes, Live
    <3>2. \A q, p \in Live' : q # p => starts'[q] # starts'[p]
      BY <3>1 DEF Live, Unshared
    <3>3. ASSUME NEW j \in Ios, NEW l \in Ios, j # l, at'[j] \notin {"new", "finished"},
                 at'[l] \notin {"new", "finished"}
          PROVE  req'[j] # req'[l]
      BY <3>3 DEF Unshared, TypeOK
    <3> QED BY <3>2, <3>3 DEF Unshared
  <2>2. upc \notin {"load"} /\ (upc' = "loadComplete" => attached' = {"issue"})
    BY <1>2 DEF OwnStart
  <2>3. ASSUME NEW j \in Ios \ {i}
        PROVE  /\ at'[j] = at[j] /\ req'[j] = req[j] /\ kind'[j] = kind[j]
               /\ Own(j)' = Own(j) /\ left'[j] = left[j]
               /\ j \notin crowded' => j \notin crowded
               /\ j \notin crowded' /\ at[j] \in {"issued", "found"} =>
                    /\ starts'[req[j]] = starts[req[j]]
                    /\ starts[req[j]] # None =>
                         startVal'[starts[req[j]]] = startVal[starts[req[j]]]
    <3>1. /\ at'[j] = at[j] /\ req'[j] = req[j] /\ kind'[j] = kind[j]
          /\ issues'[j] = issues[j] /\ left'[j] = left[j]
      BY DEF TypeOK
    <3>2. ASSUME j \notin crowded', at[j] \in {"issued", "found"}
          PROVE  /\ starts'[req[j]] = starts[req[j]]
                 /\ starts[req[j]] # None =>
                      startVal'[starts[req[j]]] = startVal[starts[req[j]]]
      <4>1. req[j] # r /\ req[j] \in Reqs
        BY <3>2 DEF TypeOK
      <4>2. req[j] \notin victims
        BY <1>2, <3>2, <4>1 DEF Losing, Takes
      <4>3. starts[req[j]] # None => starts[req[j]] # e /\ starts[req[j]] \in Elems
        BY <1>2, <4>1, <4>2 DEF Live, TypeOK, Takes
      <4> QED BY <1>2, <4>1, <4>2, <4>3 DEF TypeOK, Takes
    <3>3. j \notin crowded' => j \notin crowded
      BY <1>2 DEF Takes
    <3> QED BY <3>1, <3>2, <3>3 DEF Own
  <2>4. /\ at'[i] = "issued" /\ req'[i] = r /\ kind'[i] = k
        /\ Own(i)' = [io |-> i, issue |-> issues[i] + 1, kind |-> k]
    BY DEF TypeOK, Own
  <2>5. startVal'[starts'[r]] = [io |-> i, issue |-> issues[i] + 1, kind |-> k]
    BY <1>2 DEF TypeOK, Takes
  <2>6. UNCHANGED <<hist, from, key, attached, ptr>>
    BY DEF probeVars, histVars
  <2> QED BY <2>1, <2>2, <2>3, <2>4, <2>5, <2>6 DEF OwnStart
<1> QED BY <1>1, <1>2, TraceTakes

(* Completions, attachments and snapshots keep it too.                     *)
LEMMA MeasureInvariant == Spec => []MeasureInv
<1>1. Init => MeasureInv
  BY BoundsAssumption DEF Init, MeasureInv, Unshared, OwnStart, Live
<1>2. TypeOK /\ CountedUnderKey /\ MeasureInv /\ [Next]_vars => MeasureInv'
  <2> SUFFICES ASSUME TypeOK, CountedUnderKey, Unshared, OwnStart, [Next]_vars
               PROVE  Unshared' /\ OwnStart'
    BY DEF MeasureInv
  <2>1. ASSUME NEW i \in Ios, Io(i) PROVE Unshared' /\ OwnStart'
    <3>1. ASSUME NEW r \in Reqs, NEW k \in Kinds \cup {Other},
                 NEW p \in 1..MaxParts, Issue(i, r, k, p)
          PROVE  Unshared' /\ OwnStart'
      <4>1. /\ issues' = [issues EXCEPT ![i] = issues[i] + 1]
            /\ at' = [at EXCEPT ![i] = "issued"] /\ at[i] = "new"
            /\ req' = [req EXCEPT ![i] = r] /\ kind' = [kind EXCEPT ![i] = k]
            /\ \A j \in Ios \ {i} : left'[j] = left[j]
            /\ UNCHANGED <<attached, probeVars, histVars, upc>>
            /\ TraceIssue(i, r, k)
        <5>1. issues[i] = 0 /\ issues' = [issues EXCEPT ![i] = 1]
          BY <3>1 DEF Issue, TypeOK
        <5>2. issues' = [issues EXCEPT ![i] = issues[i] + 1]
          BY <5>1
        <5>3. \A j \in Ios \ {i} : left'[j] = left[j]
          BY <3>1 DEF Issue, TypeOK
        <5>4. UNCHANGED <<attached, probeVars, histVars, upc>>
          BY <3>1 DEF Issue, readerVars
        <5> QED BY <3>1, <5>2, <5>3, <5>4 DEF Issue
      <4>2. \A j \in Ios \ {i} : at[j] \notin {"new", "finished"} => req[j] # r
        BY <3>1 DEF Issue, Carried
      <4> QED BY <4>1, <4>2, IssueMeasures
    <3>2. CASE Reissue(i)
      <4>1. /\ issues' = [issues EXCEPT ![i] = issues[i] + 1]
            /\ \A j \in Ios \ {i} : left'[j] = left[j]
            /\ at[i] = "issued" /\ req[i] \in Reqs /\ kind[i] \in Kinds \cup {Other}
            /\ UNCHANGED <<attached, probeVars, histVars, upc>>
            /\ TraceIssue(i, req[i], kind[i])
        BY <3>2 DEF Reissue, TypeOK, readerVars
      <4>2. /\ at' = [at EXCEPT ![i] = "issued"] /\ req' = [req EXCEPT ![i] = req[i]]
            /\ kind' = [kind EXCEPT ![i] = kind[i]]
        BY <3>2 DEF Reissue, TypeOK
      <4>3. \A j \in Ios \ {i} : at[j] \notin {"new", "finished"} => req[j] # req[i]
        BY <4>1 DEF Unshared
      <4> QED BY <4>1, <4>2, <4>3, IssueMeasures
    <3> USE DEF probeVars, startVars, histVars, readerVars, TypeOK, Own
    <3>3. CASE Partial(i)
      BY <3>3 DEF Partial, Unshared, OwnStart, Live
    <3>4. CASE CompleteUnknown(i)
      BY <3>4 DEF CompleteUnknown, Unshared, OwnStart, Live, CountedUnderKey
    <3>5. CASE CompleteFound(i)
      BY <3>5 DEF CompleteFound, Unshared, OwnStart, Live
    <3>6. CASE ReadStart(i)
      <4>1. /\ at[i] = "found" /\ at' = [at EXCEPT ![i] = "keyed"]
            /\ from' = [from EXCEPT ![i] = startVal[ptr[i]]]
            /\ UNCHANGED <<req, kind, issues, left, crowded, attached, starts, startVal,
                           ptr, hist, upc>>
        BY <3>6 DEF ReadStart
      <4>2. key'[i][1] = startVal[ptr[i]].kind /\ \A j \in Ios \ {i} : key'[j] = key[j]
        BY <3>6 DEF ReadStart
      <4>3. i \notin crowded => starts[req[i]] # None
        <5>1. i \notin crowded => ptr[i] = starts[req[i]]
          BY <4>1 DEF OwnStart
        <5>2. ptr[i] \in Elems
          BY <4>1
        <5> QED BY <5>1, <5>2, ElemsAssumption
      <4>4. i \notin crowded /\ kind[i] \in Kinds => startVal[ptr[i]] = Own(i)
        BY <4>1, <4>3 DEF OwnStart
      <4>5. i \notin crowded /\ kind[i] \in Kinds => from'[i] = Own(i)' /\ key'[i][1] = kind[i]
        BY <4>1, <4>2, <4>4
      <4>6. Unshared'
        BY <4>1 DEF Unshared, Live
      <4>7. \A j \in Ios \ {i} : at'[j] = at[j] /\ from'[j] = from[j] /\ Own(j)' = Own(j)
        BY <4>1
      <4> HIDE DEF Own, TypeOK
      <4>8. at'[i] = "keyed"
        BY <4>1 DEF TypeOK
      <4> QED BY <4>1, <4>2, <4>5, <4>6, <4>7, <4>8 DEF OwnStart, Live
    <3>7. CASE LookupCount(i) \/ RelookupCount(i)
      BY <3>7 DEF LookupCount, RelookupCount, Unshared, OwnStart, Live
    <3>8. CASE InsertCount(i)
      BY <3>8 DEF InsertCount, Unshared, OwnStart, Live, Counts
    <3>9. CASE Count(i)
      BY <3>9 DEF Count, Unshared, OwnStart, Live, Counts
    <3>10. CASE DeleteStart(i)
      BY <3>10 DEF DeleteStart, Unshared, OwnStart, Live
    <3> QED
      BY <2>1, <3>1, <3>2, <3>3, <3>4, <3>5, <3>6, <3>7, <3>8, <3>9, <3>10 DEF Io
  <2>2. CASE Reader \/ UNCHANGED vars
    <3>1. UNCHANGED kernelVars
      BY <2>2 DEF Reader, AttachIssue, AttachComplete, AttachFails, BeginRead, ReadCount,
         ReadFails, ReturnDelta, SkipSnapshot, vars, kernelVars
    <3>2. Unshared'
      BY <3>1 DEF Unshared, Live, kernelVars, blockVars, startVars
    <3>3. /\ UNCHANGED <<at, req, kind, left, crowded, starts, startVal, ptr, from, key, hist>>
          /\ Live' = Live /\ \A i \in Ios : Own(i)' = Own(i)
      BY <3>1 DEF Live, Own, kernelVars, blockVars, startVars, probeVars, histVars
    <3>4. CASE AttachFails
      BY <3>2, <3>3, <3>4 DEF AttachFails, OwnStart
    <3>5. CASE AttachIssue \/ AttachComplete
      BY <3>2, <3>3, <3>5 DEF AttachIssue, AttachComplete, OwnStart, Live, TypeOK
    <3>6. CASE ~ AttachFails /\ ~ AttachIssue /\ ~ AttachComplete
      <4>1. attached' = attached /\ upc' \in {upc, "read", "idle"}
        BY <2>2, <3>6 DEF Reader, BeginRead, ReadCount, ReadFails, ReturnDelta,
           SkipSnapshot, vars, readerVars
      <4> QED BY <3>2, <3>3, <4>1 DEF OwnStart
    <3> QED BY <3>2, <3>4, <3>5, <3>6
  <2> QED
    BY <2>1, <2>2 DEF Next
<1> QED
  BY <1>1, <1>2, BlockTypeCorrect, CountedUnderKeyInvariant, PTL DEF Spec

(* A read or write in a histogram was counted once, after its final        *)
(* completion, for its own device and direction, and with a latency that   *)
(* starts at its own latest issue.                                         *)
THEOREM MeasuresRight == Spec => []TracedMeasuredRight
<1>1. TypeOK /\ CountedUnderKey /\ MeasureInv => TracedMeasuredRight
  <2> SUFFICES ASSUME TypeOK, CountedUnderKey, OwnStart, NEW i \in Ios \ crowded, kind[i] \in Kinds,
                      NEW h \in HistogramKeys, i \in hist[h]
               PROVE  /\ left[i] = 0 /\ h[1] = kind[i] /\ from[i] = Own(i)
                      /\ \A g \in HistogramKeys \ {h} : i \notin hist[g]
    BY DEF MeasureInv, TracedMeasuredRight, MeasuredRight, Own
  <2>1. h = key[i] /\ at[i] \in {"delete", "finished"}
    BY DEF CountedUnderKey
  <2>2. \A g \in HistogramKeys \ {h} : i \notin hist[g]
    BY <2>1 DEF CountedUnderKey
  <2> QED BY <2>1, <2>2 DEF OwnStart
<1> QED
  BY <1>1, BlockTypeCorrect, CountedUnderKeyInvariant, MeasureInvariant, PTL

-----------------------------------------------------------------------------
(* An insertion leaves the key present, or found no room.                  *)
LEMMA InsertFinds ==
  ASSUME TypeOK, NEW i \in Ios, InsertCount(i)
  PROVE  /\ i \notin crowded' => key[i] \in keys'
         /\ keys \subseteq keys' /\ crowded \subseteq crowded'
         /\ CountedUnderKey => \A h \in HistogramKeys : hist'[h] = hist[h]
<1>1. key[i] \in HistogramKeys /\ keys \subseteq HistogramKeys
  BY DEF InsertCount, TypeOK
<1>2. (i \notin crowded' => key[i] \in keys') /\ keys \subseteq keys' /\ crowded \subseteq crowded'
  BY DEF InsertCount, histVars
<1>3. CountedUnderKey => \A h \in HistogramKeys : hist'[h] = hist[h]
  BY <1>1 DEF InsertCount, histVars, CountedUnderKey, TypeOK, Counts
<1> QED BY <1>2, <1>3

(* A traced issue leaves a start, and takes none of an I/O that is not     *)
(* crowded out by it.                                                      *)
LEMMA TraceKeepsStarts ==
  ASSUME TypeOK, NEW i \in Ios, NEW r \in Reqs, NEW k \in Kinds \cup {Other},
         TraceIssue(i, r, k)
  PROVE  /\ k \in Kinds /\ "issue" \in attached => starts'[r] # None
         /\ crowded \subseteq crowded' \cup {i}
         /\ \A j \in Ios \ crowded' :
              at[j] = "issued" /\ starts[req[j]] # None => starts'[req[j]] # None
<1>1. CASE UNCHANGED <<starts, startVal, crowded>> /\ ("issue" \notin attached \/ k = Other)
  BY <1>1, KindsAssumption
<1>2. ASSUME NEW victims \in SUBSET Live, NEW e \in Elems, Takes(i, r, k, victims, e)
      PROVE  /\ starts'[r] # None
             /\ crowded \subseteq crowded' \cup {i}
             /\ \A j \in Ios \ crowded' :
                  at[j] = "issued" /\ starts[req[j]] # None => starts'[req[j]] # None
  <2>1. starts'[r] # None
    BY <1>2, ElemsAssumption DEF Takes
  <2>2. ASSUME NEW j \in Ios \ crowded', at[j] = "issued", starts[req[j]] # None
        PROVE  starts'[req[j]] # None
    <3>1. req[j] \in Reqs /\ req[j] \notin victims \ {r}
      BY <1>2, <2>2 DEF Losing, TypeOK, Takes
    <3> QED BY <1>2, <2>1, <2>2, <3>1 DEF Takes
  <2> QED BY <1>2, <2>1, <2>2 DEF Takes
<1> QED BY <1>1, <1>2, TraceTakes

(* Starts and counters that were recorded stay until they have been used.  *)
LEMMA RecordInvariant == Spec => []Recorded
<1>1. Init => Recorded
  BY DEF Init, Recorded
<1>2. TypeOK /\ CountedUnderKey /\ MeasureInv /\ Recorded /\ [Next]_vars => Recorded'
  <2> SUFFICES ASSUME TypeOK, CountedUnderKey, Unshared, OwnStart, Recorded, [Next]_vars
               PROVE  Recorded'
    BY DEF MeasureInv
  <2>1. ASSUME NEW i \in Ios, Io(i) PROVE Recorded'
    <3> USE DEF probeVars, startVars, histVars, readerVars, TypeOK
    <3>1. ASSUME NEW r \in Reqs, NEW k \in Kinds \cup {Other},
                 NEW p \in 1..MaxParts, Issue(i, r, k, p)
          PROVE  Recorded'
      <4>1. /\ at' = [at EXCEPT ![i] = "issued"] /\ at[i] = "new"
            /\ req' = [req EXCEPT ![i] = r] /\ kind' = [kind EXCEPT ![i] = k]
            /\ missed' = IF "issue" \in attached THEN missed ELSE missed \cup {i}
            /\ UNCHANGED <<attached, key, keys, hist, upc>>
        BY <3>1 DEF Issue
      <4>2. /\ k \in Kinds /\ "issue" \in attached => starts'[r] # None
            /\ crowded \subseteq crowded' \cup {i}
            /\ \A j \in Ios \ crowded' :
                 at[j] = "issued" /\ starts[req[j]] # None => starts'[req[j]] # None
        BY <3>1, TraceKeepsStarts DEF Issue
      <4> QED BY <4>1, <4>2 DEF Recorded, OwnStart
    <3>2. CASE Reissue(i)
      <4>1. /\ at[i] = "issued"
            /\ missed' = IF "issue" \in attached THEN missed \ {i} ELSE missed \cup {i}
            /\ UNCHANGED <<at, req, kind, attached, key, keys, hist, upc>>
        BY <3>2 DEF Reissue
      <4>2. /\ kind[i] \in Kinds /\ "issue" \in attached => starts'[req[i]] # None
            /\ crowded \subseteq crowded' \cup {i}
            /\ \A j \in Ios \ crowded' :
                 at[j] = "issued" /\ starts[req[j]] # None => starts'[req[j]] # None
        BY <3>2, TraceKeepsStarts DEF Reissue
      <4> QED BY <4>1, <4>2 DEF Recorded, OwnStart
    <3>3. CASE Partial(i)
      BY <3>3 DEF Partial, Recorded
    <3>4. CASE CompleteUnknown(i)
      BY <3>4 DEF CompleteUnknown, Recorded
    <3>5. CASE CompleteFound(i)
      BY <3>5 DEF CompleteFound, Recorded
    <3>6. CASE ReadStart(i)
      BY <3>6 DEF ReadStart, Recorded
    <3>7. CASE LookupCount(i) \/ RelookupCount(i)
      BY <3>7 DEF LookupCount, RelookupCount, Recorded
    <3>8. CASE InsertCount(i)
      BY <3>8, InsertFinds DEF InsertCount, Recorded
    <3>9. CASE Count(i)
      BY <3>9 DEF Count, Recorded, Counts
    <3>10. CASE DeleteStart(i)
      BY <3>10 DEF DeleteStart, Recorded, Unshared
    <3> QED
      BY <2>1, <3>1, <3>2, <3>3, <3>4, <3>5, <3>6, <3>7, <3>8, <3>9, <3>10 DEF Io
  <2>2. CASE Reader \/ UNCHANGED vars
    <3>1. UNCHANGED <<at, req, kind, missed, crowded, starts, key, keys, hist>>
      BY <2>2 DEF Reader, AttachIssue, AttachComplete, AttachFails, BeginRead, ReadCount,
         ReadFails, ReturnDelta, SkipSnapshot, vars, kernelVars, blockVars, startVars,
         probeVars, histVars
    <3>2. CASE AttachIssue \/ AttachComplete \/ AttachFails
      BY <3>1, <3>2 DEF AttachIssue, AttachComplete, AttachFails, Recorded, OwnStart, TypeOK
    <3>3. CASE ~ AttachFails /\ ~ AttachIssue /\ ~ AttachComplete
      <4>1. attached' = attached /\ upc' \in {upc, "read", "idle"}
        BY <2>2, <3>3 DEF Reader, BeginRead, ReadCount, ReadFails, ReturnDelta,
           SkipSnapshot, vars, readerVars
      <4> QED BY <3>1, <4>1 DEF Recorded
    <3> QED BY <3>2, <3>3
  <2> QED
    BY <2>1, <2>2 DEF Next
<1> QED
  BY <1>1, <1>2, BlockTypeCorrect, CountedUnderKeyInvariant, MeasureInvariant, PTL DEF Spec

(* No completion is lost but to a full table: every other read or write the*)
(* programs saw issued and completed is in a histogram.                    *)
THEOREM CountsCompleted == Spec => []CompletedIsCounted
<1>1. Recorded => CompletedIsCounted
  BY DEF Recorded, CompletedIsCounted
<1> QED
  BY <1>1, RecordInvariant, PTL
=============================================================================
