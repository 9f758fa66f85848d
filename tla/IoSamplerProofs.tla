--------------------------- MODULE IoSamplerProofs ---------------------------
(***************************************************************************)
(* Proofs about a sample: its types, ticks are exact, volumes add up what  *)
(* their sources did, series are aligned and a volume's series is its own. *)
(***************************************************************************)
EXTENDS IoSampler, FiniteSetTheorems, TLAPS

(* The parts of the type that need no sum.                                 *)
Typed ==
    /\ device \in [Sources -> [present : BOOLEAN, ops : Nat, busy : 0..(Wrap - 1),
                               traced : Nat]]
    /\ pc \in {"idle", "diff", "traced"}
    /\ Partial(totals, Sources, Counters)
    /\ Partial(prev, Sources, Counters)
    /\ Partial(latest, Disks, Counters)
    /\ samples \in Nat
    /\ since \in [Sources -> Done] /\ interval \in [Sources -> Done]

-----------------------------------------------------------------------------
(* A counter that moved on by less than its modulus, once or twice.        *)
LEMMA WrapsOnce ==
    ASSUME NEW was \in 0..(Wrap - 1), NEW busy \in 0..(Wrap - 1)
    PROVE  /\ Wrapped(was + busy) \in 0..(Wrap - 1)
           /\ TimeDelta(Wrapped(was + busy), was) = busy
           /\ \A time \in Nat : busy + time < Wrap =>
                  Wrapped(Wrapped(was + busy) + time) = Wrapped(was + (busy + time))
<1>1. Wrap \in Nat \ {0} BY SamplerAssumption
<1>2. CASE was + busy < Wrap
    BY <1>1, <1>2 DEF Wrapped, TimeDelta
<1>3. CASE ~(was + busy < Wrap)
    BY <1>1, <1>3 DEF Wrapped, TimeDelta
<1> QED BY <1>2, <1>3

(* What is read has the counters of the devices that are there.            *)
LEMMA ReadsDevices ==
    ASSUME Typed, NEW layout
    PROVE  /\ Partial(ReadTotals(layout), Sources, Counters)
           /\ \A s \in DOMAIN ReadTotals(layout) :
                 /\ s \in Sources /\ device[s].present
                 /\ ReadTotals(layout)[s].ops = device[s].ops
                 /\ ReadTotals(layout)[s].busy = device[s].busy
<1>1. \A s \in Sources : device[s].ops \in Nat /\ device[s].busy \in 0..(Wrap - 1)
    BY DEF Typed
<1>2. Readable(layout) \subseteq Sources
    BY DEF Readable
<1>3. \A s \in Readable(layout) : [ops |-> device[s].ops, busy |-> device[s].busy] \in Counters
    BY <1>1, <1>2 DEF Counters
<1> QED BY <1>2, <1>3 DEF ReadTotals, Readable, Partial

(* What a device did between two readings of its counters.                 *)
Moved(was, now, done) ==
    /\ now.ops <= was.ops + done.ops
    /\ ~done.replaced => /\ now.ops = was.ops + done.ops
                         /\ now.busy = Wrapped(was.busy + done.busy)

(* The difference of two readings is what was done between them.           *)
LEMMA DeltaIsDone ==
    ASSUME NEW was \in Counters, NEW now \in Counters, NEW done \in Done, Moved(was, now, done)
    PROVE  /\ Delta(now, was) \in Counters
           /\ Delta(now, was).ops <= done.ops
           /\ ~done.replaced => Delta(now, was) = [ops |-> done.ops, busy |-> done.busy]
<1>1. Wrap \in Nat \ {0} BY SamplerAssumption
<1>2. /\ was.ops \in Nat /\ now.ops \in Nat /\ done.ops \in Nat
      /\ was.busy \in 0..(Wrap - 1) /\ now.busy \in 0..(Wrap - 1) /\ done.busy \in 0..(Wrap - 1)
    BY DEF Counters, Done
<1>3. TimeDelta(now.busy, was.busy) \in 0..(Wrap - 1)
    BY <1>1, <1>2 DEF TimeDelta
<1>4. Delta(now, was) \in Counters
    BY <1>2, <1>3 DEF Delta, Counters
<1>5. Delta(now, was).ops <= done.ops
    BY <1>2 DEF Delta, Moved
<1>6. ASSUME ~done.replaced
      PROVE  Delta(now, was) = [ops |-> done.ops, busy |-> done.busy]
    <2>1. now.ops - was.ops = done.ops /\ now.ops >= was.ops
        BY <1>2, <1>6 DEF Moved
    <2>2. TimeDelta(now.busy, was.busy) = done.busy
        <3>1. now.busy = Wrapped(was.busy + done.busy) BY <1>6 DEF Moved
        <3>2. TimeDelta(Wrapped(was.busy + done.busy), was.busy) = done.busy BY <1>2, WrapsOnce
        <3> QED BY <3>1, <3>2
    <2> QED BY <1>2, <2>1, <2>2 DEF Delta
<1> QED BY <1>4, <1>5, <1>6

-----------------------------------------------------------------------------
(* The counters that were read last: `diff' has them in totals, and makes  *)
(* them the previous ones.                                                 *)
LastRead == IF pc = "diff" THEN totals ELSE prev

(* Devices moved on from the last reading by what they have done since, and*)
(* the two readings of an interval are as far apart as what was done in it.*)
CountersInv ==
    /\ \A s \in DOMAIN LastRead : Moved(LastRead[s], device[s], since[s])
    /\ pc = "diff" => \A s \in DOMAIN totals \cap DOMAIN prev :
                         Moved(prev[s], totals[s], interval[s])
    /\ TicksAreExact

(* The program starts with counters it has just read.                     *)
LEMMA SamplerInit ==
    Init => Typed /\ CountersInv
<1> SUFFICES ASSUME Init PROVE Typed /\ CountersInv
    OBVIOUS
<1>1. Wrap \in Nat \ {0} BY SamplerAssumption
<1>2. PICK boot \in [Sources -> Boot], present \in SUBSET Sources :
          device = [s \in Sources |-> [present |-> s \in present, ops |-> boot[s].ops,
                                       busy |-> boot[s].busy, traced |-> 0]]
    BY DEF Init
<1>3. \A s \in Sources : boot[s] \in [ops : Nat, busy : 0..(Wrap - 1)]
    BY SamplerAssumption
<1>4. device \in [Sources -> [present : BOOLEAN, ops : Nat, busy : 0..(Wrap - 1), traced : Nat]]
    BY <1>2, <1>3
<1>5. /\ pc = "idle" /\ DOMAIN totals = {} /\ DOMAIN latest = {} /\ samples \in Nat
      /\ \A s \in Sources : since[s] = NothingDone
      /\ prev = ReadTotals(Nothing)
    BY DEF Init, Nothing
<1>6. NothingDone \in Done
    BY <1>1 DEF NothingDone, Done
<1>7. since \in [Sources -> Done] /\ interval \in [Sources -> Done]
    BY <1>6 DEF Init
<1>8. Readable(Nothing) \subseteq Sources
    BY DEF Readable
<1>9. Partial(prev, Sources, Counters)
    <2>1. \A s \in Readable(Nothing) : [ops |-> device[s].ops, busy |-> device[s].busy] \in Counters
        BY <1>4, <1>8 DEF Counters
    <2> QED BY <1>5, <1>8, <2>1 DEF ReadTotals, Partial
<1>10. Typed
    BY <1>4, <1>5, <1>7, <1>9 DEF Typed, Partial
<1>11. \A s \in DOMAIN prev : Moved(prev[s], device[s], since[s])
    <2> SUFFICES ASSUME NEW s \in DOMAIN prev
                 PROVE  Moved(prev[s], device[s], since[s])
        OBVIOUS
    <2>1. s \in Sources /\ prev[s].ops = device[s].ops /\ prev[s].busy = device[s].busy
        BY <1>5, <1>10, ReadsDevices
    <2>2. device[s].ops \in Nat /\ device[s].busy \in 0..(Wrap - 1)
        BY <1>4, <2>1
    <2> QED BY <1>1, <1>5, <2>1, <2>2 DEF Moved, NothingDone, Wrapped
<1> QED BY <1>5, <1>10, <1>11 DEF CountersInv, LastRead, TicksAreExact

(* An operation moves the counters of its device and what was done alike.  *)
LEMMA IoKeeps ==
    ASSUME Typed, CountersInv, NEW s \in Sources, NEW time \in Times, Io(s, time)
    PROVE  Typed' /\ CountersInv'
<1>1. Wrap \in Nat \ {0} /\ time \in Nat BY SamplerAssumption
<1>2. /\ device[s].ops \in Nat /\ device[s].busy \in 0..(Wrap - 1) /\ device[s].traced \in Nat
      /\ device[s].present \in BOOLEAN
      /\ since[s].ops \in Nat /\ since[s].busy \in 0..(Wrap - 1)
      /\ since[s].replaced \in BOOLEAN /\ since[s].measured \in BOOLEAN
    BY DEF Typed, Done
<1>3. /\ \A r \in Sources \ {s} : device'[r] = device[r] /\ since'[r] = since[r]
      /\ device'[s].ops = device[s].ops + 1
      /\ device'[s].busy = Wrapped(device[s].busy + time)
      /\ since'[s].ops = since[s].ops + 1
      /\ since'[s].busy = since[s].busy + time
      /\ since'[s].replaced = since[s].replaced
      /\ since[s].busy + time < Wrap
    BY DEF Io, Typed, Done
<1>4. Wrapped(device[s].busy + time) \in 0..(Wrap - 1)
    BY <1>1, <1>2, <1>3 DEF Wrapped
<1>5. device' \in [Sources -> [present : BOOLEAN, ops : Nat, busy : 0..(Wrap - 1), traced : Nat]]
    <2>1. device'[s] \in [present : BOOLEAN, ops : Nat, busy : 0..(Wrap - 1), traced : Nat]
        <3>1. device'[s] = [present |-> device[s].present, ops |-> device[s].ops + 1,
                            busy |-> Wrapped(device[s].busy + time),
                            traced |-> IF probe /\ s \in Disks THEN device[s].traced + 1
                                       ELSE device[s].traced]
            BY DEF Io, Typed
        <3> QED BY <1>2, <1>4, <3>1
    <2>2. device' = [device EXCEPT ![s] = device'[s]]
        BY DEF Io, Typed
    <2> QED BY <2>1, <2>2 DEF Typed
<1>6. since' \in [Sources -> Done]
    <2>1. since'[s] \in Done
        <3>1. since'[s] = [ops |-> since[s].ops + 1, busy |-> since[s].busy + time,
                           replaced |-> since[s].replaced, measured |-> since[s].measured]
            BY DEF Io, Typed, Done
        <3>2. since[s].busy + time \in 0..(Wrap - 1) /\ since[s].ops + 1 \in Nat
            BY <1>1, <1>2, <1>3
        <3> QED BY <1>2, <3>1, <3>2 DEF Done
    <2>2. since' = [since EXCEPT ![s] = since'[s]]
        BY DEF Io, Typed
    <2> QED BY <2>1, <2>2 DEF Typed
<1>7. UNCHANGED <<pc, totals, prev, latest, samples, interval>>
    BY DEF Io, sampler
<1>8. Typed'
    BY <1>5, <1>6, <1>7 DEF Typed
<1>9. \A r \in DOMAIN LastRead : Moved(LastRead[r], device'[r], since'[r])
    <2> SUFFICES ASSUME NEW r \in DOMAIN LastRead
                 PROVE  Moved(LastRead[r], device'[r], since'[r])
        OBVIOUS
    <2>1. r \in Sources /\ LastRead[r] \in Counters
        BY DEF LastRead, Typed, Partial
    <2>2. Moved(LastRead[r], device[r], since[r])
        BY DEF CountersInv
    <2>3. CASE r # s
        BY <1>3, <2>1, <2>2, <2>3
    <2>4. CASE r = s
        <3>1. LastRead[s].ops \in Nat /\ LastRead[s].busy \in 0..(Wrap - 1)
            BY <2>1, <2>4 DEF Counters
        <3>2. ASSUME ~since[s].replaced
              PROVE  device'[s].busy = Wrapped(LastRead[s].busy + since'[s].busy)
            <4>1. device[s].busy = Wrapped(LastRead[s].busy + since[s].busy)
                BY <2>2, <2>4, <3>2 DEF Moved
            <4>2. Wrapped(Wrapped(LastRead[s].busy + since[s].busy) + time)
                  = Wrapped(LastRead[s].busy + (since[s].busy + time))
                BY <1>1, <1>2, <1>3, <3>1, WrapsOnce
            <4> QED BY <1>3, <4>1, <4>2
        <3>3. device'[s].ops <= LastRead[s].ops + since'[s].ops
            BY <1>2, <1>3, <2>2, <2>4, <3>1 DEF Moved
        <3>4. ~since[s].replaced => device'[s].ops = LastRead[s].ops + since'[s].ops
            BY <1>2, <1>3, <2>2, <2>4, <3>1 DEF Moved
        <3> QED BY <1>3, <2>4, <3>2, <3>3, <3>4 DEF Moved
    <2> QED BY <2>3, <2>4
<1> QED BY <1>7, <1>8, <1>9 DEF CountersInv, LastRead, TicksAreExact

(* What was done to a device that was replaced is only bounded.            *)
LEMMA ReplaceKeeps ==
    ASSUME Typed, CountersInv, NEW s \in Sources, Remove(s) \/ Add(s)
    PROVE  Typed' /\ CountersInv'
<1>1. Wrap \in Nat \ {0} BY SamplerAssumption
<1>2. /\ device[s] \in [present : BOOLEAN, ops : Nat, busy : 0..(Wrap - 1), traced : Nat]
      /\ since[s] \in Done
    BY DEF Typed
<1>3. /\ \A r \in Sources \ {s} : device'[r] = device[r] /\ since'[r] = since[r]
      /\ device'[s].ops \in {device[s].ops, 0}
      /\ since'[s].ops = since[s].ops /\ since'[s].replaced
    BY <1>2 DEF Remove, Add, Typed, Done
<1>4. device' \in [Sources -> [present : BOOLEAN, ops : Nat, busy : 0..(Wrap - 1), traced : Nat]]
    <2>1. CASE Remove(s)
        BY <1>2, <2>1 DEF Remove, Typed
    <2>2. CASE Add(s)
        <3>1. device' = [device EXCEPT ![s].present = TRUE, ![s].ops = 0, ![s].busy = 0]
            BY <2>2 DEF Add
        <3>2. device \in [Sources -> [present : BOOLEAN, ops : Nat, busy : 0..(Wrap - 1),
                                      traced : Nat]]
            BY DEF Typed
        <3>3. device'[s] = [present |-> TRUE, ops |-> 0, busy |-> 0, traced |-> device[s].traced]
            BY <1>2, <3>1, <3>2
        <3>4. device'[s] \in [present : BOOLEAN, ops : Nat, busy : 0..(Wrap - 1), traced : Nat]
            BY <1>1, <1>2, <3>3
        <3>5. \A r \in Sources \ {s} : device'[r] = device[r]
            BY <3>1, <3>2
        <3>6. device' = [r \in Sources |-> device'[r]]
            BY <3>1, <3>2
        <3> HIDE <3>1
        <3> QED BY <3>2, <3>4, <3>5, <3>6
    <2> QED BY <2>1, <2>2
<1>5. since' \in [Sources -> Done]
    BY <1>2 DEF Remove, Add, Typed, Done
<1>6. UNCHANGED <<pc, totals, prev, latest, samples, interval>>
    BY DEF Remove, Add, sampler
<1>7. Typed'
    BY <1>4, <1>5, <1>6 DEF Typed
<1>8. \A r \in DOMAIN LastRead : Moved(LastRead[r], device'[r], since'[r])
    <2> SUFFICES ASSUME NEW r \in DOMAIN LastRead
                 PROVE  Moved(LastRead[r], device'[r], since'[r])
        OBVIOUS
    <2>1. r \in Sources /\ LastRead[r] \in Counters
        BY DEF LastRead, Typed, Partial
    <2>2. Moved(LastRead[r], device[r], since[r])
        BY DEF CountersInv
    <2>3. CASE r # s
        BY <1>3, <2>1, <2>2, <2>3
    <2>4. CASE r = s
        BY <1>2, <1>3, <2>1, <2>2, <2>4 DEF Moved, Counters, Done
    <2> QED BY <2>3, <2>4
<1> QED BY <1>6, <1>7, <1>8 DEF CountersInv, LastRead, TicksAreExact

(* A reading starts the next interval.                                     *)
LEMMA BeginKeeps ==
    ASSUME Typed, CountersInv, BeginSample
    PROVE  Typed' /\ CountersInv'
<1>1. Wrap \in Nat \ {0} BY SamplerAssumption
<1>2. /\ pc = "idle" /\ pc' = "diff" /\ LastRead = prev
      /\ UNCHANGED <<device, prev, latest>>
      /\ samples' = samples + 1
      /\ since' = [s \in Sources |-> NothingDone]
      /\ totals' = ReadTotals(rows) \/ totals' = Nothing
      /\ interval' = [s \in Sources |-> [since[s] EXCEPT !.measured =
                          s \in DOMAIN prev /\ s \in DOMAIN totals']]
    BY DEF BeginSample, LastRead
<1>3. NothingDone \in Done
    BY <1>1 DEF NothingDone, Done
<1>4. interval' \in [Sources -> Done]
    BY <1>2 DEF Typed, Done
<1>5. /\ Partial(totals', Sources, Counters)
      /\ \A s \in DOMAIN totals' : /\ s \in Sources
                                   /\ totals'[s].ops = device[s].ops
                                   /\ totals'[s].busy = device[s].busy
    <2>1. CASE totals' = ReadTotals(rows)
        BY <2>1, ReadsDevices
    <2>2. CASE totals' = Nothing
        BY <2>2 DEF Nothing, Partial
    <2> QED BY <1>2, <2>1, <2>2
<1>6. Typed'
    BY <1>2, <1>3, <1>4, <1>5 DEF Typed
<1>7. \A s \in DOMAIN totals' : Moved(totals'[s], device[s], since'[s])
    <2> SUFFICES ASSUME NEW s \in DOMAIN totals'
                 PROVE  Moved(totals'[s], device[s], since'[s])
        OBVIOUS
    <2>1. device[s].ops \in Nat /\ device[s].busy \in 0..(Wrap - 1)
        BY <1>5 DEF Typed
    <2>2. since'[s] = NothingDone
        BY <1>2, <1>5
    <2> QED BY <1>1, <1>5, <2>1, <2>2 DEF Moved, NothingDone, Wrapped
<1>8. \A s \in DOMAIN totals' \cap DOMAIN prev : Moved(prev[s], totals'[s], interval'[s])
    <2> SUFFICES ASSUME NEW s \in DOMAIN totals' \cap DOMAIN prev
                 PROVE  Moved(prev[s], totals'[s], interval'[s])
        OBVIOUS
    <2>1. Moved(prev[s], device[s], since[s])
        BY <1>2 DEF CountersInv
    <2>2. since[s] \in Done
        BY <1>5 DEF Typed
    <2>3. /\ interval'[s].ops = since[s].ops /\ interval'[s].busy = since[s].busy
          /\ interval'[s].replaced = since[s].replaced
        BY <1>2, <1>5, <2>2 DEF Done
    <2> QED BY <1>5, <2>1, <2>3 DEF Moved
<1> QED BY <1>2, <1>6, <1>7, <1>8 DEF CountersInv, LastRead, TicksAreExact

(* The two readings are compared.                                          *)
LEMMA DiffKeeps ==
    ASSUME Typed, CountersInv, Diff
    PROVE  Typed' /\ CountersInv'
<1> DEFINE ticks == {d \in Disks : HasTick(d) /\ device[d].present}
<1>1. /\ pc = "diff" /\ pc' = "traced"
      /\ latest' = [d \in ticks |-> Delta(totals[d], Baseline(d))]
      /\ totals' = prev /\ prev' = totals
      /\ UNCHANGED <<device, since, samples, interval>>
    BY DEF Diff, kernel
<1>2. \A d \in ticks :
        /\ latest'[d] \in Counters
        /\ latest'[d].ops <= interval[d].ops
        /\ ~interval[d].replaced =>
               latest'[d] = [ops |-> interval[d].ops, busy |-> interval[d].busy]
    <2> SUFFICES ASSUME NEW d \in ticks
                 PROVE  /\ latest'[d] \in Counters
                        /\ latest'[d].ops <= interval[d].ops
                        /\ ~interval[d].replaced =>
                               latest'[d] = [ops |-> interval[d].ops, busy |-> interval[d].busy]
        OBVIOUS
    <2>1. d \in DOMAIN totals /\ d \in DOMAIN prev /\ d \in Sources
        BY DEF HasTick, Sources
    <2>2. latest'[d] = Delta(totals[d], prev[d])
        BY <1>1, <2>1 DEF Baseline
    <2>3. totals[d] \in Counters /\ prev[d] \in Counters /\ interval[d] \in Done
        BY <2>1 DEF Typed, Partial
    <2>4. Moved(prev[d], totals[d], interval[d])
        BY <1>1, <2>1 DEF CountersInv
    <2> QED BY <2>2, <2>3, <2>4, DeltaIsDone
<1>3. DOMAIN latest' = ticks /\ ticks \subseteq Disks
    BY <1>1
<1> HIDE DEF ticks
<1>4. Typed'
    BY <1>1, <1>2, <1>3 DEF Typed, Partial
<1>5. TicksAreExact'
    BY <1>1, <1>2, <1>3 DEF TicksAreExact
<1> QED BY <1>1, <1>4, <1>5 DEF CountersInv, LastRead

(* The histograms and the rows do not touch counters.                      *)
LEMMA RestKeeps ==
    ASSUME Typed, CountersInv, TakeTraced \/ SetRows \/ UNCHANGED vars
    PROVE  Typed' /\ CountersInv'
<1>1. /\ UNCHANGED <<prev, latest, samples, since, interval>>
      /\ pc' \in {pc, "idle"} /\ (pc' # pc => pc = "traced")
      /\ totals' = totals \/ (pc' = "idle" /\ totals' = Nothing)
    BY DEF TakeTraced, SetRows, vars, kernel, sampler
<1>2. /\ device' \in [Sources -> [present : BOOLEAN, ops : Nat, busy : 0..(Wrap - 1),
                                  traced : Nat]]
      /\ \A s \in Sources : device'[s].ops = device[s].ops /\ device'[s].busy = device[s].busy
    <2>1. CASE device' = [s \in Sources |-> [device[s] EXCEPT !.traced = 0]]
        BY <2>1 DEF Typed
    <2>2. CASE UNCHANGED device
        BY <2>2 DEF Typed
    <2> QED BY <2>1, <2>2 DEF TakeTraced, SetRows, vars, kernel
<1>3. Partial(totals', Sources, Counters)
    BY <1>1 DEF Typed, Partial, Nothing
<1>4. Typed'
    BY <1>1, <1>2, <1>3 DEF Typed
<1>5. \A s \in DOMAIN LastRead : Moved(LastRead[s], device'[s], since'[s])
    BY <1>1, <1>2 DEF CountersInv, LastRead, Typed, Partial, Moved
<1>6. LastRead' = LastRead
    BY <1>1 DEF LastRead
<1>7. pc' = "diff" => pc = "diff" /\ totals' = totals
    BY <1>1
<1> QED BY <1>1, <1>4, <1>5, <1>6, <1>7 DEF CountersInv, TicksAreExact

(* Every step keeps counters and ticks as they should be.                  *)
LEMMA CountersStep ==
    Typed /\ CountersInv /\ [Next]_vars => Typed' /\ CountersInv'
BY IoKeeps, ReplaceKeeps, BeginKeeps, DiffKeeps, RestKeeps DEF Next, Kernel

(* The counters of devices, as they are and as they were read, keep their  *)
(* types: no difference of two readings is negative.                       *)
THEOREM CountersTyped == Spec => []Typed
<1> QED BY SamplerInit, CountersStep, PTL DEF Spec

(* For any devices and rows, whatever comes, goes or cannot be read: a tick*)
(* is exactly what its disk did between two readings, across a wrap of the *)
(* time counter.                                                           *)
THEOREM TicksExact == Spec => []TicksAreExact
<1>1. CountersInv => TicksAreExact BY DEF CountersInv
<1> QED BY <1>1, SamplerInit, CountersStep, PTL DEF Spec

-----------------------------------------------------------------------------
IsRing(r) == \E T : r \in Seq(T)
Push(r, entry) == Append(IF Len(r) = RingLen THEN Tail(r) ELSE r, entry)

(* What Append does.                                                       *)
LEMMA Appended ==
    ASSUME NEW S, NEW r \in Seq(S), NEW entry \in S
    PROVE  /\ Append(r, entry) \in Seq(S)
           /\ Len(r) \in Nat /\ Len(Append(r, entry)) = Len(r) + 1
           /\ DOMAIN Append(r, entry) = 1..(Len(r) + 1)
           /\ Append(r, entry)[Len(r) + 1] = entry
           /\ \A i \in 1..Len(r) : Append(r, entry)[i] = r[i]
<1>1. Append(r, entry) \in Seq(S) /\ Len(r) \in Nat /\ Len(Append(r, entry)) = Len(r) + 1
    OBVIOUS
<1>2. DOMAIN Append(r, entry) = 1..(Len(r) + 1)
    BY <1>1
<1>3. Append(r, entry)[Len(r) + 1] = entry
    OBVIOUS
<1>4. \A i \in 1..Len(r) : Append(r, entry)[i] = r[i]
    OBVIOUS
<1> QED BY <1>1, <1>2, <1>3, <1>4

(* A ring that was pushed to is a ring, ends in the new entry and has no   *)
(* other new one; rings of the same samples stay so.                       *)
LEMMA PushedRing ==
    ASSUME NEW r, IsRing(r), NEW entry
    PROVE  /\ IsRing(Push(r, entry))
           /\ Push(r, entry) # <<>>
           /\ Push(r, entry)[Len(Push(r, entry))] = entry
           /\ \A i \in DOMAIN Push(r, entry) :
                 Push(r, entry)[i] = entry \/ \E j \in DOMAIN r : Push(r, entry)[i] = r[j]
           /\ Len(Push(r, entry)) = (IF Len(r) = RingLen THEN Len(r) ELSE Len(r) + 1)
           /\ \A i \in 1..(Len(Push(r, entry)) - 1) :
                 /\ (IF Len(r) = RingLen THEN i + 1 ELSE i) \in DOMAIN r
                 /\ Push(r, entry)[i] = r[IF Len(r) = RingLen THEN i + 1 ELSE i]
<1>1. PICK T : r \in Seq(T) BY DEF IsRing
<1>2. RingLen \in Nat \ {0} BY SamplerAssumption
<1> DEFINE kept == IF Len(r) = RingLen THEN Tail(r) ELSE r
<1>3. /\ kept \in Seq(T)
      /\ Len(kept) = (IF Len(r) = RingLen THEN Len(r) - 1 ELSE Len(r))
      /\ Len(r) \in Nat /\ DOMAIN r = 1..Len(r)
      /\ \A i \in 1..Len(kept) :
            /\ (IF Len(r) = RingLen THEN i + 1 ELSE i) \in DOMAIN r
            /\ kept[i] = r[IF Len(r) = RingLen THEN i + 1 ELSE i]
    <2>1. CASE Len(r) = RingLen
        <3>1. r # <<>> BY <1>2, <2>1
        <3> QED BY <1>1, <2>1, <3>1
    <2>2. CASE Len(r) # RingLen
        BY <1>1, <2>2
    <2> QED BY <2>1, <2>2
<1> HIDE DEF kept
<1>4. kept \in Seq(T \cup {entry}) /\ Push(r, entry) = Append(kept, entry)
    BY <1>3 DEF Push, kept
<1>5. /\ Append(kept, entry) \in Seq(T \cup {entry})
      /\ Len(Append(kept, entry)) = Len(kept) + 1
      /\ Append(kept, entry)[Len(kept) + 1] = entry
      /\ \A i \in 1..Len(kept) : Append(kept, entry)[i] = kept[i]
      /\ DOMAIN Append(kept, entry) = 1..(Len(kept) + 1)
      /\ Len(kept) \in Nat
    <2>1. entry \in T \cup {entry} OBVIOUS
    <2> QED BY <1>4, <2>1, Appended
<1>6. IsRing(Push(r, entry)) BY <1>4, <1>5 DEF IsRing
<1>7. Push(r, entry) # <<>> BY <1>4, <1>5
<1>8. Len(Push(r, entry)) = (IF Len(r) = RingLen THEN Len(r) ELSE Len(r) + 1)
    <2>1. CASE Len(r) = RingLen BY <1>3, <1>4, <1>5, <2>1
    <2>2. CASE Len(r) # RingLen BY <1>3, <1>4, <1>5, <2>2
    <2> QED BY <2>1, <2>2
<1>9. \A i \in 1..(Len(Push(r, entry)) - 1) :
        /\ (IF Len(r) = RingLen THEN i + 1 ELSE i) \in DOMAIN r
        /\ Push(r, entry)[i] = r[IF Len(r) = RingLen THEN i + 1 ELSE i]
    <2>1. Len(Push(r, entry)) - 1 = Len(kept) BY <1>4, <1>5
    <2>2. \A i \in 1..Len(kept) : Push(r, entry)[i] = kept[i] BY <1>4, <1>5
    <2> QED BY <1>3, <2>1, <2>2
<1>10. \A i \in DOMAIN Push(r, entry) :
        Push(r, entry)[i] = entry \/ \E j \in DOMAIN r : Push(r, entry)[i] = r[j]
    <2> SUFFICES ASSUME NEW i \in DOMAIN Push(r, entry)
                 PROVE  Push(r, entry)[i] = entry \/ \E j \in DOMAIN r : Push(r, entry)[i] = r[j]
        OBVIOUS
    <2>1. i \in 1..(Len(kept) + 1) BY <1>4, <1>5
    <2>2. CASE i = Len(kept) + 1 BY <1>4, <1>5, <2>2
    <2>3. CASE i # Len(kept) + 1
        <3>1. i \in 1..(Len(Push(r, entry)) - 1) BY <1>4, <1>5, <2>1, <2>3
        <3> QED BY <1>9, <3>1
    <2> QED BY <2>2, <2>3
<1> QED BY <1>4, <1>5, <1>6, <1>7, <1>8, <1>9, <1>10

(* Two rings of the same samples have them after each other sample too.    *)
LEMMA PushAligned ==
    ASSUME NEW r, IsRing(r), NEW q, IsRing(q), Ats(r) = Ats(q),
           NEW a, NEW b, a.at = b.at
    PROVE  Ats(Push(r, a)) = Ats(Push(q, b))
<1>1. /\ DOMAIN r = 1..Len(r) /\ Len(r) \in Nat
      /\ DOMAIN q = 1..Len(q) /\ Len(q) \in Nat
    BY DEF IsRing
<1>2. DOMAIN r = DOMAIN q /\ \A i \in DOMAIN r : r[i].at = q[i].at
    <2>1. DOMAIN Ats(r) = DOMAIN r /\ DOMAIN Ats(q) = DOMAIN q BY DEF Ats
    <2>2. \A i \in DOMAIN r : Ats(r)[i] = r[i].at BY DEF Ats
    <2>3. \A i \in DOMAIN q : Ats(q)[i] = q[i].at BY DEF Ats
    <2> QED BY <2>1, <2>2, <2>3
<1>3. Len(r) = Len(q)
    <2>1. \A i, j \in Nat : 1..i = 1..j => i = j
        <3> SUFFICES ASSUME NEW i \in Nat, NEW j \in Nat, 1..i = 1..j PROVE i = j
            OBVIOUS
        <3>1. i > 0 => i \in 1..j OBVIOUS
        <3>2. j > 0 => j \in 1..i OBVIOUS
        <3> QED BY <3>1, <3>2
    <2> QED BY <1>1, <1>2, <2>1
<1> DEFINE n == Len(Push(r, a))
<1>4. n = Len(Push(q, b)) /\ n \in Nat /\ n > 0
      /\ DOMAIN Push(r, a) = 1..n /\ DOMAIN Push(q, b) = 1..n
    <2>1. IsRing(Push(r, a)) /\ IsRing(Push(q, b)) BY PushedRing
    <2>2. n = Len(Push(q, b)) BY <1>3, PushedRing
    <2>3. n \in Nat /\ n > 0 BY <1>1, PushedRing, SamplerAssumption
    <2> QED BY <2>1, <2>2, <2>3 DEF IsRing
<1>6. n = Len(Push(r, a)) OBVIOUS
<1> HIDE DEF n
<1>5. \A i \in 1..n : Push(r, a)[i].at = Push(q, b)[i].at
    <2> SUFFICES ASSUME NEW i \in 1..n PROVE Push(r, a)[i].at = Push(q, b)[i].at
        OBVIOUS
    <2>1. CASE i = n
        BY <1>4, <1>6, <2>1, PushedRing
    <2>2. CASE i # n
        <3>1. i \in 1..(n - 1) BY <1>4, <2>2
        <3> DEFINE j == IF Len(r) = RingLen THEN i + 1 ELSE i
        <3>2. j \in DOMAIN r /\ Push(r, a)[i] = r[j] BY <1>6, <3>1, PushedRing
        <3>3. Push(q, b)[i] = q[j] BY <1>3, <1>4, <3>1, PushedRing
        <3> HIDE DEF j
        <3> QED BY <1>2, <3>2, <3>3
    <2> QED BY <2>1, <2>2
<1> QED BY <1>4, <1>5 DEF Ats

(* push_ring, into the ring there is or a new one.                         *)
LEMMA PushedIsPush ==
    ASSUME NEW rings, NEW k, NEW entry
    PROVE  Pushed(rings, k, entry) = Push(Ring(rings, k), entry)
<1>1. CASE k \in DOMAIN rings
    BY <1>1 DEF Pushed, Push, Ring
<1>2. CASE k \notin DOMAIN rings
    <2>1. Ring(rings, k) = <<>> /\ Len(Ring(rings, k)) # RingLen
        BY <1>2, SamplerAssumption DEF Ring
    <2> QED BY <2>1 DEF Pushed, Push
<1> QED BY <1>1, <1>2

(* No entry yet is a ring.                                                 *)
LEMMA EmptyRing == IsRing(<<>>)
<1>1. <<>> \in Seq({}) OBVIOUS
<1> QED BY <1>1 DEF IsRing

-----------------------------------------------------------------------------
(* A disk has entries for the same samples in its two series, or, between  *)
(* the two steps of a sample, one more in the first.                       *)
Level(d) ==
    /\ d \in DOMAIN history <=> d \in DOMAIN traced
    /\ Ats(Ring(history, d)) = Ats(Ring(traced, d))
Ahead(d) ==
    /\ d \in DOMAIN history
    /\ \E r : /\ IsRing(r) /\ Ats(r) = Ats(Ring(traced, d))
             /\ history[d] = Push(r, [at |-> samples])

DisksInv ==
    /\ \A d \in Disks : IsRing(Ring(history, d)) /\ IsRing(Ring(traced, d))
    /\ DOMAIN history \subseteq Disks
    /\ probe \in BOOLEAN
    /\ ~probe => traced = Nothing
    /\ probe => \A d \in Disks : IF pc = "traced" /\ d \in DOMAIN latest THEN Ahead(d) ELSE Level(d)
    /\ pc # "diff" => \A d \in DOMAIN latest :
                         Ring(history, d) # <<>> /\ Ring(history, d)[Len(Ring(history, d))].at = samples
    /\ pc = "idle" => \A d \in DOMAIN latest :
                         DeviceSample(d) = [raw |-> latest[d], rates |-> samples,
                                            histogram |-> probe, requests |-> took[d]]

(* There are no series yet.                                                *)
LEMMA DisksInit ==
    Init => DisksInv
<1> SUFFICES ASSUME Init PROVE DisksInv OBVIOUS
<1>1. DOMAIN history = {} /\ traced = Nothing /\ DOMAIN traced = {} /\ DOMAIN latest = {}
      /\ pc = "idle"
    BY DEF Init, Nothing
<1>2. \A d \in Disks : Ring(history, d) = <<>> /\ Ring(traced, d) = <<>>
    BY <1>1 DEF Ring
<1>3. probe \in BOOLEAN BY DEF Init
<1>4. \A d \in Disks : IsRing(Ring(history, d)) /\ IsRing(Ring(traced, d))
    BY <1>2, EmptyRing
<1>5. \A d \in Disks : Level(d)
    BY <1>1, <1>2 DEF Level
<1> QED BY <1>1, <1>3, <1>4, <1>5 DEF DisksInv

(* A tick pushes to the first series.                                      *)
LEMMA DiffAligned ==
    ASSUME Typed, DisksInv, Diff
    PROVE  DisksInv'
<1> DEFINE ticks == {d \in Disks : HasTick(d) /\ device[d].present}
           entry == [at |-> samples]
<1>1. /\ pc = "diff" /\ pc' = "traced" /\ DOMAIN latest' = ticks /\ ticks \subseteq Disks
      /\ history' = [d \in DOMAIN history \cup ticks |->
                        IF d \in ticks THEN Pushed(history, d, entry) ELSE history[d]]
      /\ UNCHANGED <<traced, probe, samples>>
    BY DEF Diff
<1> HIDE DEF ticks
<1>2. \A d \in ticks : /\ history'[d] = Push(Ring(history, d), entry)
                       /\ Ring(history, d)' = Push(Ring(history, d), entry)
    <2> SUFFICES ASSUME NEW d \in ticks
                 PROVE  /\ history'[d] = Push(Ring(history, d), entry)
                        /\ Ring(history, d)' = Push(Ring(history, d), entry)
        OBVIOUS
    <2> HIDE DEF entry
    <2>1. d \in DOMAIN history' /\ history'[d] = Pushed(history, d, entry) BY <1>1
    <2>2. Pushed(history, d, entry) = Push(Ring(history, d), entry) BY PushedIsPush
    <2>3. Ring(history, d)' = history'[d] BY <2>1 DEF Ring
    <2> QED BY <2>1, <2>2, <2>3
<1>3. \A d \in Disks \ ticks : /\ Ring(history, d)' = Ring(history, d)
                               /\ d \in DOMAIN history' <=> d \in DOMAIN history
    BY <1>1 DEF Ring
<1>4. \A d : Ring(traced, d)' = Ring(traced, d)
    BY <1>1 DEF Ring
<1>5. \A d \in ticks : /\ IsRing(Ring(history, d)') /\ Ring(history, d)' # <<>>
                       /\ Ring(history, d)'[Len(Ring(history, d)')] = entry
    <2> SUFFICES ASSUME NEW d \in ticks
                 PROVE  /\ IsRing(Ring(history, d)') /\ Ring(history, d)' # <<>>
                        /\ Ring(history, d)'[Len(Ring(history, d)')] = entry
        OBVIOUS
    <2> HIDE DEF entry
    <2>1. IsRing(Ring(history, d)) BY <1>1 DEF DisksInv
    <2> QED BY <1>2, <2>1, PushedRing
<1>6. entry.at = samples OBVIOUS
<1>7. ASSUME probe, NEW d \in ticks PROVE Ahead(d)'
    <2>1. IsRing(Ring(history, d)) /\ Ats(Ring(history, d)) = Ats(Ring(traced, d))
        BY <1>1, <1>7 DEF DisksInv, Level
    <2>2. d \in DOMAIN history' /\ history'[d] = Push(Ring(history, d), entry)
        BY <1>1, <1>2
    <2> QED BY <1>1, <1>4, <2>1, <2>2 DEF Ahead
<1>8. ASSUME probe, NEW d \in Disks \ ticks PROVE Level(d)'
    <2>1. Level(d) BY <1>1, <1>8 DEF DisksInv
    <2> QED BY <1>1, <1>3, <1>4, <2>1 DEF Level
<1> HIDE DEF entry
<1>9. \A d \in Disks : IsRing(Ring(history, d)') /\ IsRing(Ring(traced, d)')
    BY <1>3, <1>4, <1>5 DEF DisksInv
<1>10. DOMAIN history' \subseteq Disks
    BY <1>1 DEF DisksInv
<1> QED BY <1>1, <1>5, <1>6, <1>7, <1>8, <1>9, <1>10 DEF DisksInv

(* A snapshot pushes to the second, or ends the second of all disks.       *)
LEMMA TakeAligned ==
    ASSUME Typed, DisksInv, TakeTraced
    PROVE  DisksInv'
<1>1. /\ pc = "traced" /\ pc' = "idle"
      /\ UNCHANGED <<latest, history, samples>>
      /\ DOMAIN latest \subseteq Disks
    BY DEF TakeTraced, Typed, Partial
<1>2. \A d : Ring(history, d)' = Ring(history, d)
    BY <1>1 DEF Ring
<1>3. \A d \in DOMAIN latest :
        Ring(history, d) # <<>> /\ Ring(history, d)[Len(Ring(history, d))].at = samples
    BY <1>1 DEF DisksInv
<1>4. CASE ~probe'
    <2>1. traced' = Nothing /\ \A d \in Disks : took'[d] = 0
        BY <1>1, <1>4 DEF TakeTraced, DisksInv
    <2>2. \A d : Ring(traced, d)' = <<>>
        BY <2>1 DEF Ring, Nothing
    <2>4. probe' = FALSE BY <1>4 DEF TakeTraced, DisksInv
    <2>3. \A d \in DOMAIN latest :
            DeviceSample(d)' = [raw |-> latest[d], rates |-> samples,
                                histogram |-> probe', requests |-> took'[d]]
        <3> SUFFICES ASSUME NEW d \in DOMAIN latest
                     PROVE  DeviceSample(d)' = [raw |-> latest[d], rates |-> samples,
                                                histogram |-> probe', requests |-> took'[d]]
            OBVIOUS
        <3>1. Newest(traced, d)' = 0 BY <2>2 DEF Newest
        <3>2. Ring(traced, d)' = <<>> /\ probe' = FALSE /\ took'[d] = 0
            BY <1>1, <2>1, <2>2, <2>4
        <3>3. DeviceSample(d)' = [raw |-> latest'[d],
                                  rates |-> Ring(history, d)'[Len(Ring(history, d)')].at,
                                  histogram |-> Ring(traced, d)' # <<>>,
                                  requests |-> Newest(traced, d)']
            BY DEF DeviceSample
        <3>4. Ring(history, d)'[Len(Ring(history, d)')].at = samples BY <1>2, <1>3
        <3> QED BY <1>1, <3>1, <3>2, <3>3, <3>4
    <2> QED BY <1>1, <1>2, <1>3, <2>1, <2>2, <2>3, <2>4, EmptyRing DEF DisksInv
<1>5. CASE probe'
    <2> DEFINE n(d) == IF device[d].present THEN device[d].traced ELSE 0
               entry(d) == [at |-> samples, n |-> n(d)]
    <2>1. /\ probe
          /\ traced' = [d \in DOMAIN traced \cup DOMAIN latest |->
                           IF d \in DOMAIN latest THEN Pushed(traced, d, entry(d)) ELSE traced[d]]
          /\ took' = [d \in Disks |-> IF d \in DOMAIN latest THEN n(d) ELSE 0]
        BY <1>5 DEF TakeTraced, TracedDisks
    <2>8. probe' = TRUE BY <1>5 DEF TakeTraced, DisksInv
    <2>2. \A d : entry(d).at = samples /\ entry(d).n = n(d) OBVIOUS
    <2> HIDE DEF n, entry
    <2>3. \A d \in DOMAIN latest : /\ d \in DOMAIN traced'
                                  /\ Ring(traced, d)' = Push(Ring(traced, d), entry(d))
        <3> SUFFICES ASSUME NEW d \in DOMAIN latest
                     PROVE  /\ d \in DOMAIN traced'
                            /\ Ring(traced, d)' = Push(Ring(traced, d), entry(d))
            OBVIOUS
        <3>1. d \in DOMAIN traced' /\ traced'[d] = Pushed(traced, d, entry(d)) BY <2>1
        <3>2. Pushed(traced, d, entry(d)) = Push(Ring(traced, d), entry(d)) BY PushedIsPush
        <3> QED BY <3>1, <3>2 DEF Ring
    <2>4. \A d \in Disks \ DOMAIN latest :
            /\ Ring(traced, d)' = Ring(traced, d)
            /\ d \in DOMAIN traced' <=> d \in DOMAIN traced
        BY <2>1 DEF Ring
    <2>5. \A d \in Disks : IsRing(Ring(traced, d)')
        <3> SUFFICES ASSUME NEW d \in Disks PROVE IsRing(Ring(traced, d)') OBVIOUS
        <3>1. IsRing(Ring(traced, d)) BY DEF DisksInv
        <3>2. CASE d \in DOMAIN latest BY <2>3, <3>1, <3>2, PushedRing
        <3>3. CASE d \notin DOMAIN latest BY <2>4, <3>1, <3>3
        <3> QED BY <3>2, <3>3
    <2>6. \A d \in Disks : Level(d)'
        <3> SUFFICES ASSUME NEW d \in Disks PROVE Level(d)' OBVIOUS
        <3>1. CASE d \in DOMAIN latest
            <4>1. Ahead(d) BY <1>1, <2>1, <3>1 DEF DisksInv
            <4>2. PICK r : /\ IsRing(r) /\ Ats(r) = Ats(Ring(traced, d))
                           /\ history[d] = Push(r, [at |-> samples])
                BY <4>1 DEF Ahead
            <4>3. IsRing(Ring(traced, d)) BY DEF DisksInv
            <4>4. [at |-> samples].at = entry(d).at BY <2>2
            <4>5. Ats(Push(r, [at |-> samples])) = Ats(Push(Ring(traced, d), entry(d)))
                BY <4>2, <4>3, <4>4, PushAligned
            <4>6. Ring(history, d)' = history[d] /\ d \in DOMAIN history'
                BY <1>1, <4>1 DEF Ring, Ahead
            <4>7. Ats(Ring(history, d)') = Ats(Ring(traced, d)')
                BY <2>3, <3>1, <4>2, <4>5, <4>6
            <4> QED BY <2>3, <3>1, <4>6, <4>7 DEF Level, Ats
        <3>2. CASE d \notin DOMAIN latest
            <4>1. Level(d) BY <1>1, <2>1, <3>2 DEF DisksInv
            <4>2. Ring(traced, d)' = Ring(traced, d) /\ Ring(history, d)' = Ring(history, d)
                BY <1>2, <2>4, <3>2
            <4>3. Ats(Ring(history, d)') = Ats(Ring(traced, d)')
                BY <4>1, <4>2 DEF Level
            <4>4. d \in DOMAIN history' <=> d \in DOMAIN traced'
                BY <1>1, <2>4, <3>2, <4>1 DEF Level
            <4> QED BY <4>3, <4>4 DEF Level, Ats
        <3> QED BY <3>1, <3>2
    <2>7. \A d \in DOMAIN latest :
            DeviceSample(d)' = [raw |-> latest[d], rates |-> samples,
                                histogram |-> probe', requests |-> took'[d]]
        <3> SUFFICES ASSUME NEW d \in DOMAIN latest
                     PROVE  DeviceSample(d)' = [raw |-> latest[d], rates |-> samples,
                                                histogram |-> probe', requests |-> took'[d]]
            OBVIOUS
        <3>1. IsRing(Ring(traced, d)) BY <1>1 DEF DisksInv
        <3>2. Ring(traced, d)' # <<>> /\ Ring(traced, d)'[Len(Ring(traced, d)')] = entry(d)
            BY <2>3, <3>1, PushedRing
        <3>3. traced'[d] = Ring(traced, d)' BY <2>3 DEF Ring
        <3>4. Newest(traced, d)' = n(d) BY <2>2, <3>2, <3>3 DEF Newest
        <3>5. took'[d] = n(d) BY <1>1, <2>1
        <3>6. DeviceSample(d)' = [raw |-> latest'[d],
                                  rates |-> Ring(history, d)'[Len(Ring(history, d)')].at,
                                  histogram |-> Ring(traced, d)' # <<>>,
                                  requests |-> Newest(traced, d)']
            BY DEF DeviceSample
        <3>7. Ring(history, d)'[Len(Ring(history, d)')].at = samples BY <1>2, <1>3
        <3> QED BY <1>1, <2>8, <3>2, <3>4, <3>5, <3>6, <3>7
    <2> QED BY <1>1, <1>2, <1>3, <2>5, <2>6, <2>7, <2>8 DEF DisksInv
<1> QED BY <1>4, <1>5

(* No other step touches the series of disks.                              *)
LEMMA OthersAligned ==
    ASSUME Typed, DisksInv, Kernel \/ SetRows \/ BeginSample \/ UNCHANGED vars
    PROVE  DisksInv'
<1>1. UNCHANGED <<latest, history, probe, traced, took>>
    BY DEF Kernel, Io, Remove, Add, SetRows, BeginSample, vars, sampler
<1>2. (UNCHANGED <<pc, samples>>) \/ (pc = "idle" /\ pc' = "diff")
    BY DEF Kernel, Io, Remove, Add, SetRows, BeginSample, vars, sampler
<1>3. /\ \A d : Ring(history, d)' = Ring(history, d) /\ Ring(traced, d)' = Ring(traced, d)
      /\ \A d : Level(d) => Level(d)'
    BY <1>1 DEF Ring, Level, Ats
<1>4. CASE UNCHANGED <<pc, samples>>
    <2>1. \A d : (Ahead(d) => Ahead(d)') /\ DeviceSample(d)' = DeviceSample(d)
        BY <1>1, <1>4 DEF Ahead, Ring, DeviceSample, Newest
    <2> QED BY <1>1, <1>3, <1>4, <2>1 DEF DisksInv
<1>5. CASE pc = "idle" /\ pc' = "diff"
    BY <1>1, <1>3, <1>5 DEF DisksInv
<1> QED BY <1>2, <1>4, <1>5

-----------------------------------------------------------------------------
(* Only volumes that are rows have series, of their own sources, and those *)
(* with per-request latency have both for the same samples.                *)
VolumesInv ==
    /\ \A v \in DOMAIN rows :
          /\ IsRing(Ring(volume.history, v)) /\ IsRing(Ring(volume.traced, v))
          /\ rows[v].latency # {} => Ats(Ring(volume.traced, v)) = Ats(Ring(volume.history, v))
    /\ \A v \in DOMAIN volume.traced : v \in DOMAIN volume.history /\ rows[v].latency # {}
    /\ SeriesIsOwn

(* There are no rows yet.                                                  *)
LEMMA VolumesInit ==
    Init => VolumesInv
<1> SUFFICES ASSUME Init PROVE VolumesInv OBVIOUS
<1>1. /\ DOMAIN rows = {} /\ DOMAIN volume.history = {} /\ DOMAIN volume.traced = {}
    BY DEF Init, Nothing
<1> QED BY <1>1 DEF VolumesInv, SeriesIsOwn

(* New rows keep the series of volumes with the same sources.              *)
LEMMA RowsKeepVolumes ==
    ASSUME VolumesInv, SetRows
    PROVE  VolumesInv'
<1> DEFINE same == {v \in DOMAIN rows' : SameSources(rows', v)}
           alike == {v \in same : rows'[v].latency # {}}
<1>1. /\ volume'.history = Restricted(volume.history, same)
      /\ volume'.traced = Restricted(volume.traced, alike)
    BY DEF SetRows
<1>2. \A v \in same : v \in DOMAIN rows /\ rows'[v] = rows[v] /\ v \in DOMAIN rows'
    BY DEF SameSources
<1>3. \A v \in alike : v \in same /\ rows'[v].latency # {}
    OBVIOUS
<1>4. \A v \in DOMAIN rows' : rows'[v].latency # {} /\ v \in same => v \in alike
    OBVIOUS
<1> HIDE DEF same, alike
<1>5. /\ DOMAIN volume'.history = DOMAIN volume.history \cap same
      /\ \A v \in DOMAIN volume'.history : volume'.history[v] = volume.history[v]
      /\ DOMAIN volume'.traced = DOMAIN volume.traced \cap alike
      /\ \A v \in DOMAIN volume'.traced : volume'.traced[v] = volume.traced[v]
    BY <1>1 DEF Restricted
<1>6. ASSUME NEW v \in DOMAIN rows'
      PROVE  /\ IsRing(Ring(volume.history, v)') /\ IsRing(Ring(volume.traced, v)')
             /\ rows'[v].latency # {} => Ats(Ring(volume.traced, v)') = Ats(Ring(volume.history, v)')
    <2>1. CASE v \in same
        <3>1. v \in DOMAIN rows /\ rows'[v] = rows[v] BY <1>2, <2>1
        <3>2. Ring(volume.history, v)' = Ring(volume.history, v)
            BY <1>5, <2>1 DEF Ring
        <3>3. rows'[v].latency # {} => Ring(volume.traced, v)' = Ring(volume.traced, v)
            BY <1>4, <1>5, <1>6, <2>1 DEF Ring
        <3>4. Ring(volume.traced, v)' = Ring(volume.traced, v) \/ Ring(volume.traced, v)' = <<>>
            BY <1>5 DEF Ring
        <3> QED BY <3>1, <3>2, <3>3, <3>4, EmptyRing DEF VolumesInv
    <2>2. CASE v \notin same
        <3>1. Ring(volume.history, v)' = <<>> BY <1>5, <2>2 DEF Ring
        <3>2. Ring(volume.traced, v)' = <<>> BY <1>3, <1>5, <2>2 DEF Ring
        <3> QED BY <3>1, <3>2, EmptyRing
    <2> QED BY <2>1, <2>2
<1>7. \A v \in DOMAIN volume'.traced : v \in DOMAIN volume'.history /\ rows'[v].latency # {}
    BY <1>3, <1>5 DEF VolumesInv
<1>8. SeriesIsOwn'
    BY <1>2, <1>5 DEF VolumesInv, SeriesIsOwn
<1> QED BY <1>6, <1>7, <1>8 DEF VolumesInv, Ats

(* A sample pushes to both series of each row, whatever the disks have.    *)
LEMMA SampledKeepVolumes ==
    ASSUME VolumesInv, NEW rings, volume' = SampledVolumes(rings), UNCHANGED <<rows, samples>>
    PROVE  VolumesInv'
<1> DEFINE entry(v) == [at |-> samples, of |-> rows[v]]
           requests(v) == [at |-> samples, n |-> VolumeTraced(rings, v)]
<1>1. /\ volume'.history = [v \in DOMAIN volume.history \cup DOMAIN rows |->
                              IF v \in DOMAIN rows THEN Pushed(volume.history, v, entry(v))
                              ELSE volume.history[v]]
      /\ volume'.traced = [v \in {w \in DOMAIN rows : rows[w].latency # {}} |->
                              Pushed(volume.traced, v, requests(v))]
    BY DEF SampledVolumes
<1>2. \A v : entry(v).at = requests(v).at /\ entry(v).of = rows[v] OBVIOUS
<1> HIDE DEF entry, requests
<1>3. DOMAIN volume.history \subseteq DOMAIN rows
    BY DEF VolumesInv, SeriesIsOwn
<1>4. DOMAIN volume'.history = DOMAIN rows
    BY <1>1, <1>3
<1>5. DOMAIN volume'.traced = {v \in DOMAIN rows : rows[v].latency # {}}
    BY <1>1
<1>6. \A v \in DOMAIN rows : Ring(volume.history, v)' = Push(Ring(volume.history, v), entry(v))
    <2> SUFFICES ASSUME NEW v \in DOMAIN rows
                 PROVE  Ring(volume.history, v)' = Push(Ring(volume.history, v), entry(v))
        OBVIOUS
    <2>1. volume'.history[v] = Pushed(volume.history, v, entry(v)) BY <1>1
    <2>2. Pushed(volume.history, v, entry(v)) = Push(Ring(volume.history, v), entry(v))
        BY PushedIsPush
    <2> QED BY <1>4, <2>1, <2>2 DEF Ring
<1>7. \A v \in DOMAIN volume'.traced :
        Ring(volume.traced, v)' = Push(Ring(volume.traced, v), requests(v))
    <2> SUFFICES ASSUME NEW v \in DOMAIN volume'.traced
                 PROVE  Ring(volume.traced, v)' = Push(Ring(volume.traced, v), requests(v))
        OBVIOUS
    <2>1. volume'.traced[v] = Pushed(volume.traced, v, requests(v)) BY <1>1
    <2>2. Pushed(volume.traced, v, requests(v)) = Push(Ring(volume.traced, v), requests(v))
        BY PushedIsPush
    <2> QED BY <2>1, <2>2 DEF Ring
<1>8. ASSUME NEW v \in DOMAIN rows
      PROVE  /\ IsRing(Ring(volume.history, v)') /\ IsRing(Ring(volume.traced, v)')
             /\ rows[v].latency # {} => Ats(Ring(volume.traced, v)') = Ats(Ring(volume.history, v)')
    <2>1. IsRing(Ring(volume.history, v)) /\ IsRing(Ring(volume.traced, v))
        BY DEF VolumesInv
    <2>2. IsRing(Ring(volume.history, v)')
        BY <1>6, <2>1, PushedRing
    <2>3. CASE rows[v].latency = {}
        <3>1. v \notin DOMAIN volume'.traced BY <1>5, <2>3
        <3>2. Ring(volume.traced, v)' = <<>> BY <3>1 DEF Ring
        <3> QED BY <2>2, <2>3, <3>2, EmptyRing
    <2>4. CASE rows[v].latency # {}
        <3>1. v \in DOMAIN volume'.traced BY <1>5, <2>4
        <3>2. Ats(Ring(volume.traced, v)) = Ats(Ring(volume.history, v))
            BY <2>4 DEF VolumesInv
        <3>3. Ats(Push(Ring(volume.traced, v), requests(v))) = Ats(Push(Ring(volume.history, v), entry(v)))
            BY <1>2, <2>1, <3>2, PushAligned
        <3>4. IsRing(Ring(volume.traced, v)')
            BY <1>7, <2>1, <3>1, PushedRing
        <3> QED BY <1>6, <1>7, <2>2, <3>1, <3>3, <3>4
    <2> QED BY <2>3, <2>4
<1>9. SeriesIsOwn'
    <2> SUFFICES ASSUME NEW v \in DOMAIN rows, NEW i \in DOMAIN volume'.history[v]
                 PROVE  volume'.history[v][i].of = rows[v]
        BY <1>4 DEF SeriesIsOwn
    <2>1. volume'.history[v] = Push(Ring(volume.history, v), entry(v))
        BY <1>4, <1>6 DEF Ring
    <2>2. IsRing(Ring(volume.history, v)) BY DEF VolumesInv
    <2>3. volume'.history[v][i] = entry(v)
          \/ \E j \in DOMAIN Ring(volume.history, v) : volume'.history[v][i] = Ring(volume.history, v)[j]
        BY <2>1, <2>2, PushedRing
    <2>4. \A j \in DOMAIN Ring(volume.history, v) : Ring(volume.history, v)[j].of = rows[v]
        <3>1. CASE v \in DOMAIN volume.history
            BY <3>1 DEF Ring, VolumesInv, SeriesIsOwn
        <3>2. CASE v \notin DOMAIN volume.history
            BY <3>2 DEF Ring
        <3> QED BY <3>1, <3>2
    <2> QED BY <1>2, <2>3, <2>4
<1>10. \A v \in DOMAIN volume'.traced : v \in DOMAIN volume'.history /\ rows'[v].latency # {}
    BY <1>4, <1>5
<1> QED BY <1>8, <1>9, <1>10 DEF VolumesInv, Ats

(* Every step keeps the series of volumes.                                 *)
LEMMA VolumesStep ==
    VolumesInv /\ [Next]_vars => VolumesInv'
<1> SUFFICES ASSUME VolumesInv, [Next]_vars PROVE VolumesInv'
    OBVIOUS
<1>1. CASE SetRows BY <1>1, RowsKeepVolumes
<1>2. CASE TakeTraced
    <2>1. UNCHANGED <<rows, samples>> BY <1>2 DEF TakeTraced
    <2>2. \E rings : volume' = SampledVolumes(rings) BY <1>2 DEF TakeTraced
    <2> QED BY <2>1, <2>2, SampledKeepVolumes
<1>3. CASE UNCHANGED <<rows, volume>>
    BY <1>3 DEF VolumesInv, SeriesIsOwn, Ring, Ats, IsRing
<1>4. Kernel \/ BeginSample \/ Diff \/ UNCHANGED vars => UNCHANGED <<rows, volume>>
    BY DEF Kernel, Io, Remove, Add, BeginSample, Diff, vars
<1> QED BY <1>1, <1>2, <1>3, <1>4 DEF Next

(* A volume's series is of the sources it has now, for any layouts and     *)
(* however rows are replaced.                                              *)
THEOREM SeriesOwn == Spec => []SeriesIsOwn
<1>1. VolumesInv => SeriesIsOwn BY DEF VolumesInv
<1> QED BY <1>1, VolumesInit, VolumesStep, PTL DEF Spec

(* After every sample the series of a disk, and those of a volume, are for *)
(* the same samples, and what a record of a disk puts together is of one   *)
(* interval, for any devices and rows and rings of any length.             *)
THEOREM SeriesAreAligned == Spec => []SeriesAligned
<1>1. Typed /\ DisksInv /\ [Next]_vars => DisksInv'
    BY DiffAligned, TakeAligned, OthersAligned DEF Next
<1>2. DisksInv /\ VolumesInv => SeriesAligned
    <2> SUFFICES ASSUME DisksInv, VolumesInv, pc = "idle" PROVE SeriesAligned
        BY DEF SeriesAligned
    <2>1. ASSUME probe, NEW d \in DOMAIN history
          PROVE  d \in DOMAIN traced /\ Ats(traced[d]) = Ats(history[d])
        BY <2>1 DEF DisksInv, Level, Ring
    <2>2. ASSUME NEW v \in DOMAIN volume.traced
          PROVE  v \in DOMAIN volume.history /\ Ats(volume.traced[v]) = Ats(volume.history[v])
        BY <2>2 DEF VolumesInv, SeriesIsOwn, Ring
    <2>3. \A d \in DOMAIN latest :
            DeviceSample(d) = [raw |-> latest[d], rates |-> samples,
                               histogram |-> probe, requests |-> took[d]]
        BY DEF DisksInv
    <2> QED BY <2>1, <2>2, <2>3 DEF SeriesAligned
<1> QED BY <1>1, <1>2, SamplerInit, CountersStep, DisksInit, VolumesInit, VolumesStep, PTL DEF Spec

-----------------------------------------------------------------------------
(* A finite family of naturals has finitely many units.                    *)
LEMMA UnitsFinite ==
    ASSUME NEW f, IsFiniteSet(DOMAIN f), \A x \in DOMAIN f : f[x] \in Nat
    PROVE  IsFiniteSet(Units(f))
<1> DEFINE block == [x \in DOMAIN f |-> {x} \X (1..f[x])]
           blocks == {block[x] : x \in DOMAIN f}
<1>1. block \in Surjection(DOMAIN f, blocks)
    BY DEF Surjection
<1>2. IsFiniteSet(blocks)
    BY <1>1, FS_Surjection
<1>3. ASSUME NEW x \in DOMAIN f PROVE IsFiniteSet(block[x])
    <2>1. IsFiniteSet({x}) BY FS_Singleton
    <2>2. IsFiniteSet(1..f[x])
        <3>1. f[x] \in Int /\ 1 \in Int OBVIOUS
        <3> QED BY <3>1, FS_Interval
    <2>3. IsFiniteSet({x} \X (1..f[x])) BY <2>1, <2>2, FS_Product
    <2> QED BY <2>3
<1>4. Units(f) = UNION blocks
    BY DEF Units
<1> HIDE DEF block, blocks
<1>5. \A b \in blocks : IsFiniteSet(b)
    BY <1>3 DEF blocks
<1> QED BY <1>2, <1>4, <1>5, FS_UNION

(* A sum is a natural number, and no greater than that of a family with    *)
(* more members and greater values.                                        *)
LEMMA TallyBound ==
    ASSUME NEW f, NEW g, IsFiniteSet(DOMAIN g), DOMAIN f \subseteq DOMAIN g,
           \A x \in DOMAIN g : g[x] \in Nat, \A x \in DOMAIN f : f[x] \in Nat /\ f[x] <= g[x]
    PROVE  Tally(f) \in Nat /\ Tally(g) \in Nat /\ Tally(f) <= Tally(g)
<1>1. IsFiniteSet(Units(g)) BY UnitsFinite
<1>2. Units(f) \subseteq Units(g)
    <2> SUFFICES ASSUME NEW x \in DOMAIN f, NEW u \in 1..f[x]
                 PROVE  <<x, u>> \in Units(g)
        BY DEF Units
    <2>1. x \in DOMAIN g /\ u \in 1..g[x] OBVIOUS
    <2> QED BY <2>1 DEF Units
<1>3. IsFiniteSet(Units(f)) /\ Cardinality(Units(f)) <= Cardinality(Units(g))
    BY <1>1, <1>2, FS_Subset
<1> QED BY <1>1, <1>3, FS_CardinalityType DEF Tally

(* Members that are zero add nothing to a sum.                             *)
LEMMA TallySame ==
    ASSUME NEW f, NEW g, DOMAIN f \subseteq DOMAIN g,
           \A x \in DOMAIN f : f[x] = g[x], \A x \in DOMAIN g \ DOMAIN f : g[x] = 0
    PROVE  Tally(f) = Tally(g)
<1>1. Units(f) = Units(g)
    <2>1. Units(f) \subseteq Units(g) BY DEF Units
    <2>2. \A x \in DOMAIN g \ DOMAIN f : 1..g[x] = {} OBVIOUS
    <2>3. Units(g) \subseteq Units(f) BY <2>2 DEF Units
    <2> QED BY <2>1, <2>3
<1> QED BY <1>1 DEF Tally

-----------------------------------------------------------------------------
(* Between the two readings of an interval sources moved on by what was    *)
(* done in it, and the interval knows which of them were in both.          *)
Both == DOMAIN prev \cap DOMAIN totals
ReadingsInv ==
    /\ pc # "idle" => \A s \in Sources : interval[s].measured <=> s \in Both
    /\ pc = "traced" => \A s \in Both : Moved(totals[s], prev[s], interval[s])
    /\ \A v \in DOMAIN rows : rows[v].counters \subseteq Sources
    /\ VolumesAreExact

(* There is no volume yet.                                                 *)
LEMMA ReadingsInit == Init => ReadingsInv
<1> SUFFICES ASSUME Init PROVE ReadingsInv OBVIOUS
<1>1. pc = "idle" /\ DOMAIN rows = {} /\ DOMAIN volume.latest = {}
    BY DEF Init, Nothing
<1> QED BY <1>1 DEF ReadingsInv, VolumesAreExact

(* A source adds to a volume what it did, if it was read twice.            *)
LEMMA SourcesExact ==
    ASSUME Typed, ReadingsInv, pc = "traced", NEW s \in Sources
    PROVE  /\ SourceOps(s) \in Nat /\ interval[s].ops \in Nat
           /\ SourceOps(s) <= interval[s].ops
           /\ ~interval[s].measured => SourceOps(s) = 0
           /\ interval[s].measured /\ ~interval[s].replaced => SourceOps(s) = interval[s].ops
<1>1. interval[s] \in Done BY DEF Typed
<1>2. interval[s].ops \in Nat BY <1>1 DEF Done
<1>3. CASE s \in Both
    <2>1. Moved(totals[s], prev[s], interval[s]) BY <1>3 DEF ReadingsInv
    <2>2. totals[s] \in Counters /\ prev[s] \in Counters
        BY <1>3 DEF Both, Typed, Partial
    <2>3. SourceOps(s) = Delta(prev[s], totals[s]).ops BY <1>3 DEF SourceOps, Both
    <2>4. /\ Delta(prev[s], totals[s]) \in Counters
          /\ Delta(prev[s], totals[s]).ops <= interval[s].ops
          /\ ~interval[s].replaced =>
                 Delta(prev[s], totals[s]) = [ops |-> interval[s].ops, busy |-> interval[s].busy]
        BY <1>1, <2>1, <2>2, DeltaIsDone
    <2>5. Delta(prev[s], totals[s]).ops \in Nat BY <2>4 DEF Counters
    <2>6. interval[s].measured <=> TRUE BY <1>3 DEF ReadingsInv
    <2>7. ~interval[s].replaced => Delta(prev[s], totals[s]).ops = interval[s].ops
        BY <2>4
    <2> QED BY <1>2, <2>3, <2>4, <2>5, <2>6, <2>7
<1>4. CASE s \notin Both
    <2>1. SourceOps(s) = 0 BY <1>4 DEF SourceOps, Both
    <2>2. ~interval[s].measured BY <1>4 DEF ReadingsInv
    <2> QED BY <1>2, <2>1, <2>2
<1> QED BY <1>3, <1>4

(* So a volume adds up what its sources did.                               *)
LEMMA VolumeExact ==
    ASSUME Typed, ReadingsInv, pc = "traced", NEW v \in DOMAIN rows
    PROVE  VolumeOps(v) \in Nat /\ AddsUp(VolumeOps(v), rows[v].counters)
<1> DEFINE of == rows[v].counters
           known == {s \in of : interval[s].measured}
           ops == [s \in of |-> SourceOps(s)]
           all == [s \in of |-> interval[s].ops]
           some == [s \in known |-> interval[s].ops]
<1>1. of \subseteq Sources /\ known \subseteq of BY DEF ReadingsInv
<1>2. \A s \in of : /\ SourceOps(s) \in Nat /\ interval[s].ops \in Nat
                    /\ SourceOps(s) <= interval[s].ops
                    /\ s \notin known => SourceOps(s) = 0
                    /\ s \in known /\ ~interval[s].replaced => SourceOps(s) = interval[s].ops
    BY <1>1, SourcesExact
<1>3. IsFiniteSet(of) BY <1>1, SamplerAssumption, FS_Subset
<1>4. /\ DOMAIN ops = of /\ DOMAIN all = of /\ DOMAIN some = known
      /\ \A s \in of : ops[s] = SourceOps(s) /\ all[s] = interval[s].ops
      /\ \A s \in known : some[s] = interval[s].ops
    OBVIOUS
<1>5. VolumeOps(v) = Tally(ops) BY DEF VolumeOps
<1> HIDE DEF ops, all, some, known, of
<1>6. Tally(ops) \in Nat /\ Tally(ops) <= Tally(all)
    BY <1>2, <1>3, <1>4, TallyBound
<1>7. ASSUME \A s \in known : ~interval[s].replaced
      PROVE  Tally(ops) = Tally(some)
    <2>1. /\ DOMAIN some \subseteq DOMAIN ops
          /\ \A s \in DOMAIN some : some[s] = ops[s]
          /\ \A s \in DOMAIN ops \ DOMAIN some : ops[s] = 0
        BY <1>1, <1>2, <1>4, <1>7
    <2> QED BY <2>1, TallySame
<1> QED BY <1>5, <1>6, <1>7 DEF AddsUp, of, known, all, some

(* Every step keeps it so.                                                 *)
LEMMA ReadingsStep ==
    Typed /\ CountersInv /\ ReadingsInv /\ [Next]_vars => ReadingsInv'
<1> SUFFICES ASSUME Typed, CountersInv, ReadingsInv, [Next]_vars PROVE ReadingsInv'
    OBVIOUS
<1>1. CASE Kernel \/ UNCHANGED vars
    <2>1. UNCHANGED <<pc, totals, prev, interval, rows, volume>>
        BY <1>1 DEF Kernel, Io, Remove, Add, vars, sampler
    <2> QED BY <2>1 DEF ReadingsInv, Both, VolumesAreExact, AddsUp
<1>2. CASE SetRows
    <2>1. /\ pc = "idle" /\ pc' = "idle" /\ UNCHANGED interval
          /\ volume'.latest = Restricted(volume.latest, DOMAIN rows')
        BY <1>2 DEF SetRows, sampler
    <2>2. \A v \in DOMAIN volume'.latest :
            v \in DOMAIN volume.latest /\ volume'.latest[v] = volume.latest[v]
        BY <2>1 DEF Restricted
    <2>3. \A v \in DOMAIN rows' : rows'[v].counters \subseteq Sources
        <3>1. PICK found \in Layouts :
                rows' = [v \in DOMAIN found |-> [counters |-> found[v].counters,
                                                 latency  |-> LatencySources(found, v)]]
            BY <1>2 DEF SetRows
        <3>2. \A v \in DOMAIN found : found[v].counters \subseteq Sources
            BY SamplerAssumption
        <3> QED BY <3>1, <3>2
    <2>4. VolumesAreExact'
        BY <2>1, <2>2 DEF ReadingsInv, VolumesAreExact, AddsUp
    <2> QED BY <2>1, <2>3, <2>4 DEF ReadingsInv
<1>3. CASE BeginSample
    <2>1. /\ pc' = "diff" /\ UNCHANGED <<prev, rows>>
          /\ interval' = [s \in Sources |-> [since[s] EXCEPT !.measured =
                             s \in DOMAIN prev /\ s \in DOMAIN totals']]
        BY <1>3 DEF BeginSample
    <2>2. \A s \in Sources : interval'[s].measured <=> s \in DOMAIN prev \cap DOMAIN totals'
        <3> SUFFICES ASSUME NEW s \in Sources
                     PROVE  interval'[s].measured <=> s \in DOMAIN prev \cap DOMAIN totals'
            OBVIOUS
        <3>1. since[s] \in Done BY DEF Typed
        <3>2. interval'[s] = [since[s] EXCEPT !.measured = s \in DOMAIN prev /\ s \in DOMAIN totals']
            BY <2>1
        <3>3. interval'[s].measured = (s \in DOMAIN prev /\ s \in DOMAIN totals')
            BY <3>1, <3>2 DEF Done
        <3> QED BY <3>3
    <2> QED BY <2>1, <2>2 DEF ReadingsInv, Both, VolumesAreExact
<1>4. CASE Diff
    <2>1. /\ pc = "diff" /\ pc' = "traced" /\ totals' = prev /\ prev' = totals
          /\ UNCHANGED <<interval, rows>>
        BY <1>4 DEF Diff
    <2>2. \A s \in Both : Moved(prev[s], totals[s], interval[s])
        BY <2>1 DEF CountersInv, Both
    <2>3. Both' = Both BY <2>1 DEF Both
    <2> QED BY <2>1, <2>2, <2>3 DEF ReadingsInv, VolumesAreExact
<1>5. CASE TakeTraced
    <2>1. /\ pc = "traced" /\ pc' = "idle" /\ UNCHANGED <<interval, rows>>
          /\ \E rings : volume' = SampledVolumes(rings)
        BY <1>5 DEF TakeTraced
    <2>2. volume'.latest = [v \in DOMAIN rows |-> [ops |-> VolumeOps(v), of |-> rows[v]]]
        BY <2>1 DEF SampledVolumes
    <2>3. VolumesAreExact'
        <3>1. \A v \in DOMAIN rows : AddsUp(VolumeOps(v), rows[v].counters)
            BY <2>1, VolumeExact
        <3>2. \A v \in DOMAIN rows : /\ volume'.latest[v].ops = VolumeOps(v)
                                     /\ volume'.latest[v].of.counters = rows[v].counters
            BY <2>2
        <3>3. \A v \in DOMAIN rows :
                AddsUp(volume'.latest[v].ops, volume'.latest[v].of.counters)
            BY <3>1, <3>2
        <3>4. \A ops, of : AddsUp(ops, of) => AddsUp(ops, of)'
            BY <2>1 DEF AddsUp
        <3> QED BY <2>1, <2>2, <3>3, <3>4 DEF VolumesAreExact
    <2> QED BY <2>1, <2>3 DEF ReadingsInv
<1> QED BY <1>1, <1>2, <1>3, <1>4, <1>5 DEF Next

(* For any devices, rows and failures: the operations of a volume are those*)
(* of its sources in the same interval, of which a partition that was just *)
(* admitted or a disk that came back adds nothing until it has a baseline. *)
THEOREM VolumesExact == Spec => []VolumesAreExact
<1>1. ReadingsInv => VolumesAreExact BY DEF ReadingsInv
<1> QED BY <1>1, SamplerInit, CountersStep, ReadingsInit, ReadingsStep, PTL DEF Spec

-----------------------------------------------------------------------------
(* The rest of the type: rings of typed entries that keep their length.    *)
Rings(rings, keys, T) ==
    /\ Partial(rings, keys, Seq(T))
    /\ \A k \in DOMAIN rings : Len(rings[k]) <= RingLen
Tick == [at : Nat]
Requests == [at : Nat, n : Nat]
Summed == [at : Nat, of : Row]
RestTyped ==
    /\ Rings(history, Disks, Tick)
    /\ probe \in BOOLEAN
    /\ Rings(traced, Disks, Requests)
    /\ Partial(rows, Volumes, Row)
    /\ Partial(volume.latest, Volumes, [ops : Nat, of : Row])
    /\ Rings(volume.history, Volumes, Summed)
    /\ Rings(volume.traced, Volumes, Requests)
    /\ samples \in 0..MaxSamples /\ changes \in 0..MaxChanges
    /\ took \in [Disks -> Nat]

(* A push keeps the type and the length of a ring.                         *)
LEMMA PushedTyped ==
    ASSUME NEW rings, NEW keys, NEW T, Rings(rings, keys, T), NEW k, NEW entry \in T
    PROVE  /\ Pushed(rings, k, entry) \in Seq(T)
           /\ Len(Pushed(rings, k, entry)) <= RingLen
<1>1. RingLen \in Nat \ {0} BY SamplerAssumption
<1>2. Ring(rings, k) \in Seq(T) /\ Len(Ring(rings, k)) <= RingLen
    <2>1. CASE k \in DOMAIN rings BY <2>1 DEF Rings, Partial, Ring
    <2>2. CASE k \notin DOMAIN rings
        <3>1. Ring(rings, k) = <<>> BY <2>2 DEF Ring
        <3>2. <<>> \in Seq(T) /\ Len(<<>>) = 0 OBVIOUS
        <3> QED BY <1>1, <3>1, <3>2
    <2> QED BY <2>1, <2>2
<1> DEFINE r == Ring(rings, k)
           kept == IF Len(r) = RingLen THEN Tail(r) ELSE r
<1>3. kept \in Seq(T) /\ Len(kept) <= RingLen - 1
    <2>1. CASE Len(r) = RingLen
        <3>1. r # <<>> BY <1>1, <2>1
        <3>2. Tail(r) \in Seq(T) /\ Len(Tail(r)) = Len(r) - 1 BY <1>2, <3>1
        <3> QED BY <1>1, <2>1, <3>2
    <2>2. CASE Len(r) # RingLen
        <3>1. Len(r) \in Nat BY <1>2
        <3> QED BY <1>1, <1>2, <2>2, <3>1
    <2> QED BY <2>1, <2>2
<1>4. Pushed(rings, k, entry) = Append(kept, entry)
    BY PushedIsPush DEF Push
<1> HIDE DEF kept, r
<1>5. Append(kept, entry) \in Seq(T) /\ Len(Append(kept, entry)) = Len(kept) + 1
    BY <1>3
<1>6. Len(kept) \in Nat BY <1>3
<1> QED BY <1>1, <1>3, <1>4, <1>5, <1>6

(* Some rings are pushed to, the others stay.                              *)
LEMMA RingsTyped ==
    ASSUME NEW rings, NEW keys, NEW T, Rings(rings, keys, T),
           NEW pushed, pushed \subseteq keys, NEW entry, \A k \in pushed : entry[k] \in T,
           NEW after, DOMAIN after \subseteq DOMAIN rings \cup pushed,
           \A k \in DOMAIN after : after[k] = IF k \in pushed THEN Pushed(rings, k, entry[k])
                                              ELSE rings[k]
    PROVE  Rings(after, keys, T)
<1>1. DOMAIN after \subseteq keys BY DEF Rings, Partial
<1>2. ASSUME NEW k \in DOMAIN after
      PROVE  after[k] \in Seq(T) /\ Len(after[k]) <= RingLen
    <2>1. CASE k \in pushed
        <3>1. entry[k] \in T /\ after[k] = Pushed(rings, k, entry[k]) BY <2>1
        <3>2. /\ Pushed(rings, k, entry[k]) \in Seq(T)
              /\ Len(Pushed(rings, k, entry[k])) <= RingLen
            BY <3>1, PushedTyped
        <3> QED BY <3>1, <3>2
    <2>2. CASE k \notin pushed
        <3>1. k \in DOMAIN rings /\ after[k] = rings[k] BY <2>2
        <3> QED BY <3>1 DEF Rings, Partial
    <2> QED BY <2>1, <2>2
<1> QED BY <1>1, <1>2 DEF Rings, Partial

(* There are no rings yet.                                                 *)
LEMMA RestInit == Init => RestTyped
<1> SUFFICES ASSUME Init PROVE RestTyped OBVIOUS
<1>1. \A keys, T : Rings(Nothing, keys, T) /\ Partial(Nothing, keys, T)
    BY DEF Rings, Partial, Nothing
<1>2. /\ history = Nothing /\ traced = Nothing /\ rows = Nothing /\ probe \in BOOLEAN
      /\ volume.latest = Nothing /\ volume.history = Nothing /\ volume.traced = Nothing
      /\ samples = 0 /\ changes = 0 /\ took = [d \in Disks |-> 0]
    BY DEF Init
<1>3. MaxSamples \in Nat /\ MaxChanges \in Nat BY SamplerAssumption
<1>4. took \in [Disks -> Nat] BY <1>2
<1> QED BY <1>1, <1>2, <1>3, <1>4 DEF RestTyped

(* A sample of the volumes, from the rings of the disks.                   *)
LEMMA SampledTyped ==
    ASSUME Typed, ReadingsInv, RestTyped, pc = "traced",
           NEW rings, Rings(rings, Disks, Requests)
    PROVE  LET sampled == SampledVolumes(rings)
           IN  /\ Partial(sampled.latest, Volumes, [ops : Nat, of : Row])
               /\ Rings(sampled.history, Volumes, Summed)
               /\ Rings(sampled.traced, Volumes, Requests)
<1> DEFINE latestOf == [v \in DOMAIN rows |-> [ops |-> VolumeOps(v), of |-> rows[v]]]
           summed == [v \in DOMAIN rows |-> [at |-> samples, of |-> rows[v]]]
           withTrace == {v \in DOMAIN rows : rows[v].latency # {}}
           requests == [v \in withTrace |-> [at |-> samples, n |-> VolumeTraced(rings, v)]]
           historyOf == [v \in DOMAIN volume.history \cup DOMAIN rows |->
                            IF v \in DOMAIN rows THEN Pushed(volume.history, v, summed[v])
                            ELSE volume.history[v]]
           tracedOf == [v \in withTrace |-> Pushed(volume.traced, v, requests[v])]
<1>1. SampledVolumes(rings) = [latest |-> latestOf, history |-> historyOf, traced |-> tracedOf]
    BY DEF SampledVolumes
<1>2. samples \in Nat BY DEF Typed
<1>3. DOMAIN rows \subseteq Volumes /\ withTrace \subseteq Volumes
      /\ \A v \in DOMAIN rows : rows[v] \in Row
    BY DEF RestTyped, Partial
<1>4. \A d : Newest(rings, d) \in Nat
    <2> SUFFICES ASSUME NEW d PROVE Newest(rings, d) \in Nat
        OBVIOUS
    <2>1. CASE Ring(rings, d) = <<>> BY <2>1 DEF Newest
    <2>2. CASE Ring(rings, d) # <<>>
        <3>1. d \in DOMAIN rings /\ Ring(rings, d) = rings[d] BY <2>2 DEF Ring
        <3>2. rings[d] \in Seq(Requests) BY <3>1 DEF Rings, Partial
        <3>3. rings[d][Len(rings[d])] \in Requests BY <2>2, <3>1, <3>2
        <3>4. Newest(rings, d) = rings[d][Len(rings[d])].n BY <2>2 DEF Newest
        <3> QED BY <3>3, <3>4 DEF Requests
    <2> QED BY <2>1, <2>2
<1>5. ASSUME NEW v \in DOMAIN rows PROVE VolumeTraced(rings, v) \in Nat
    <2> DEFINE newest == [d \in rows[v].latency |-> Newest(rings, d)]
    <2>1. rows[v].latency \subseteq Sources BY <1>3 DEF Row, Sources
    <2>2. IsFiniteSet(rows[v].latency) BY <2>1, SamplerAssumption, FS_Subset
    <2>3. /\ DOMAIN newest = rows[v].latency
          /\ \A d \in DOMAIN newest : newest[d] \in Nat /\ newest[d] <= newest[d]
        BY <1>4
    <2>4. VolumeTraced(rings, v) = Tally(newest) BY DEF VolumeTraced
    <2> HIDE DEF newest
    <2> QED BY <2>2, <2>3, <2>4, TallyBound
<1>6. Partial(latestOf, Volumes, [ops : Nat, of : Row])
    <2>1. \A v \in DOMAIN rows : VolumeOps(v) \in Nat BY VolumeExact
    <2> QED BY <1>3, <2>1 DEF Partial
<1>7. \A v \in DOMAIN rows : summed[v] \in Summed
    BY <1>2, <1>3 DEF Summed
<1>8. \A v \in withTrace : requests[v] \in Requests
    BY <1>2, <1>5 DEF Requests
<1>9. Rings(volume.history, Volumes, Summed) /\ Rings(volume.traced, Volumes, Requests)
    BY DEF RestTyped
<1>10. Rings(historyOf, Volumes, Summed)
    <2>1. /\ DOMAIN historyOf = DOMAIN volume.history \cup DOMAIN rows
          /\ \A v \in DOMAIN historyOf :
                historyOf[v] = IF v \in DOMAIN rows THEN Pushed(volume.history, v, summed[v])
                               ELSE volume.history[v]
        OBVIOUS
    <2> HIDE DEF historyOf, summed
    <2> QED BY <1>3, <1>7, <1>9, <2>1, RingsTyped
<1>11. Rings(tracedOf, Volumes, Requests)
    <2>1. /\ DOMAIN tracedOf = withTrace
          /\ \A v \in DOMAIN tracedOf :
                tracedOf[v] = IF v \in withTrace THEN Pushed(volume.traced, v, requests[v])
                              ELSE volume.traced[v]
        OBVIOUS
    <2> HIDE DEF tracedOf, requests, withTrace
    <2> QED BY <1>3, <1>8, <1>9, <2>1, RingsTyped
<1> HIDE DEF latestOf, historyOf, tracedOf
<1> QED BY <1>1, <1>6, <1>10, <1>11

(* A tick pushes to the rings of the disks.                                *)
LEMMA DiffTyped ==
    ASSUME Typed, RestTyped, Diff
    PROVE  RestTyped'
<1> DEFINE ticks == {d \in Disks : HasTick(d) /\ device[d].present}
           entry == [d \in ticks |-> [at |-> samples]]
<1>1. history' = [d \in DOMAIN history \cup ticks |->
                     IF d \in ticks THEN Pushed(history, d, [at |-> samples]) ELSE history[d]]
    BY DEF Diff
<1>2. /\ ticks \subseteq Disks /\ \A d \in ticks : entry[d] \in Tick
      /\ DOMAIN history' = DOMAIN history \cup ticks
      /\ \A d \in DOMAIN history' :
            history'[d] = IF d \in ticks THEN Pushed(history, d, entry[d]) ELSE history[d]
    BY <1>1 DEF Tick, Typed
<1>3. Rings(history, Disks, Tick) BY DEF RestTyped
<1> HIDE DEF ticks, entry
<1>4. Rings(history', Disks, Tick)
    BY <1>2, <1>3, RingsTyped
<1>5. UNCHANGED <<probe, traced, rows, volume, samples, changes, took>>
    BY DEF Diff, kernel
<1> QED BY <1>4, <1>5 DEF RestTyped

(* A snapshot pushes to the traced rings and to those of the volumes.      *)
LEMMA TakeTyped ==
    ASSUME Typed, ReadingsInv, RestTyped, TakeTraced
    PROVE  RestTyped'
<1>1. /\ pc = "traced" /\ UNCHANGED <<history, rows, samples, changes>>
      /\ DOMAIN latest \subseteq Disks
    BY DEF TakeTraced, Typed, Partial
<1>2. \A d \in Disks : device[d].traced \in Nat
    BY DEF Typed, Sources
<1>3. /\ Rings(traced', Disks, Requests) /\ volume' = SampledVolumes(traced')
      /\ probe' \in BOOLEAN /\ took' \in [Disks -> Nat]
    <2>1. CASE traced' = Nothing /\ volume' = SampledVolumes(Nothing)
               /\ probe' = FALSE /\ took' = [d \in Disks |-> 0]
        BY <2>1 DEF Rings, Partial, Nothing
    <2>2. CASE ~(traced' = Nothing /\ volume' = SampledVolumes(Nothing)
                 /\ probe' = FALSE /\ took' = [d \in Disks |-> 0])
        <3> DEFINE n(d) == IF device[d].present THEN device[d].traced ELSE 0
                   entry == [d \in DOMAIN latest |-> [at |-> samples, n |-> n(d)]]
        <3>1. /\ probe' = probe /\ volume' = SampledVolumes(traced')
              /\ traced' = [d \in DOMAIN traced \cup DOMAIN latest |->
                               IF d \in DOMAIN latest THEN Pushed(traced, d, [at |-> samples, n |-> n(d)])
                               ELSE traced[d]]
              /\ took' = [d \in Disks |-> IF d \in DOMAIN latest THEN n(d) ELSE 0]
            BY <2>2 DEF TakeTraced, TracedDisks
        <3>2. \A d \in Disks : n(d) \in Nat BY <1>2
        <3>3. took' \in [Disks -> Nat] BY <3>1, <3>2
        <3>4. /\ \A d \in DOMAIN latest : entry[d] \in Requests
              /\ DOMAIN traced' = DOMAIN traced \cup DOMAIN latest
              /\ \A d \in DOMAIN traced' :
                    traced'[d] = IF d \in DOMAIN latest THEN Pushed(traced, d, entry[d]) ELSE traced[d]
            BY <1>1, <3>1, <3>2 DEF Requests, Typed
        <3>5. Rings(traced, Disks, Requests) BY DEF RestTyped
        <3> HIDE DEF n, entry
        <3>6. Rings(traced', Disks, Requests)
            BY <1>1, <3>4, <3>5, RingsTyped
        <3> QED BY <3>1, <3>3, <3>6 DEF RestTyped
    <2> QED BY <2>1, <2>2
<1>4. /\ Partial(volume'.latest, Volumes, [ops : Nat, of : Row])
      /\ Rings(volume'.history, Volumes, Summed)
      /\ Rings(volume'.traced, Volumes, Requests)
    BY <1>1, <1>3, SampledTyped
<1> QED BY <1>1, <1>3, <1>4 DEF RestTyped

(* New rows are rows, and what is kept has its type.                       *)
LEMMA RowsTyped ==
    ASSUME RestTyped, SetRows
    PROVE  RestTyped'
<1> DEFINE same == {v \in DOMAIN rows' : SameSources(rows', v)}
           alike == {v \in same : rows'[v].latency # {}}
<1>1. /\ volume'.latest = Restricted(volume.latest, DOMAIN rows')
      /\ volume'.history = Restricted(volume.history, same)
      /\ volume'.traced = Restricted(volume.traced, alike)
      /\ UNCHANGED <<history, probe, traced, samples, changes, took>>
    BY DEF SetRows, kernel, sampler
<1>2. Partial(rows', Volumes, Row)
    <2>1. PICK found \in Layouts :
            rows' = [v \in DOMAIN found |-> [counters |-> found[v].counters,
                                             latency  |-> LatencySources(found, v)]]
        BY DEF SetRows
    <2>2. /\ DOMAIN found \subseteq Volumes
          /\ \A v \in DOMAIN found :
                found[v].members \subseteq Disks /\ found[v].counters \subseteq Sources
        BY SamplerAssumption
    <2>3. \A v \in DOMAIN found : LatencySources(found, v) \subseteq Disks
        BY <2>2 DEF LatencySources
    <2> QED BY <2>1, <2>2, <2>3 DEF Partial, Row
<1>3. \A f, keys, T, some : Partial(f, keys, T) => Partial(Restricted(f, some), keys, T)
    BY DEF Partial, Restricted
<1>4. \A f, keys, T, some : Rings(f, keys, T) => Rings(Restricted(f, some), keys, T)
    BY DEF Rings, Partial, Restricted
<1> HIDE DEF same, alike
<1> QED BY <1>1, <1>2, <1>3, <1>4 DEF RestTyped

(* The kernel and the reading touch none of it but their own counts.       *)
LEMMA OthersTyped ==
    ASSUME RestTyped, Kernel \/ BeginSample \/ UNCHANGED vars
    PROVE  RestTyped'
<1>1. UNCHANGED <<history, probe, traced, rows, volume, took>>
    BY DEF Kernel, Io, Remove, Add, BeginSample, vars, sampler
<1>2. MaxSamples \in Nat /\ MaxChanges \in Nat BY SamplerAssumption
<1>3. samples' \in 0..MaxSamples /\ changes' \in 0..MaxChanges
    <2>1. samples \in 0..MaxSamples /\ changes \in 0..MaxChanges BY DEF RestTyped
    <2>2. /\ samples' = samples \/ (samples' = samples + 1 /\ samples < MaxSamples)
          /\ changes' = changes \/ (changes' = changes + 1 /\ changes < MaxChanges)
        BY DEF Kernel, Io, Remove, Add, BeginSample, vars, kernel, sampler
    <2> QED BY <1>2, <2>1, <2>2
<1> QED BY <1>1, <1>3 DEF RestTyped

(* Whatever comes and goes, no counter, difference or sum is negative and  *)
(* no ring grows beyond its length, for rings of any length.               *)
THEOREM SamplerTyped == Spec => []TypeOK
<1>1. Typed /\ ReadingsInv /\ RestTyped /\ [Next]_vars => RestTyped'
    BY DiffTyped, TakeTyped, RowsTyped, OthersTyped DEF Next
<1>2. Typed /\ RestTyped => TypeOK
    <2> SUFFICES ASSUME Typed, RestTyped PROVE TypeOK
        OBVIOUS
    <2>1. /\ Partial(history, Disks, Seq([at : Nat]))
          /\ Partial(traced, Disks, Seq([at : Nat, n : Nat]))
          /\ Partial(volume.history, Volumes, Seq([at : Nat, of : Row]))
          /\ Partial(volume.traced, Volumes, Seq([at : Nat, n : Nat]))
        BY DEF RestTyped, Rings, Tick, Requests, Summed
    <2>2. /\ \A d \in DOMAIN history : Len(history[d]) <= RingLen
          /\ \A v \in DOMAIN volume.history : Len(volume.history[v]) <= RingLen
        BY DEF RestTyped, Rings
    <2>3. /\ Partial(rows, Volumes, Row) /\ Partial(volume.latest, Volumes, [ops : Nat, of : Row])
          /\ probe \in BOOLEAN /\ took \in [Disks -> Nat]
          /\ samples \in 0..MaxSamples /\ changes \in 0..MaxChanges
        BY DEF RestTyped
    <2> QED BY <2>1, <2>2, <2>3 DEF Typed, TypeOK
<1> QED BY <1>1, <1>2, SamplerInit, CountersStep, ReadingsInit, ReadingsStep, RestInit, PTL DEF Spec
=============================================================================
