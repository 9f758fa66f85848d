---------------------------- MODULE BlockLatency ----------------------------
(***************************************************************************)
(* Per-request block latency, from the two raw tracepoint programs of      *)
(* disk_latency.bpf.c to the histogram deltas of a sample (ebpf.rs,        *)
(* EbpfLatencyCollector::snapshot).                                        *)
(*                                                                         *)
(* The block layer (external) carries I/Os in request structures that it   *)
(* reuses, may complete a request in parts and may issue it again.  The    *)
(* issue program writes the request's start in STARTS, an LRU map; the     *)
(* completion program looks it up, counts the I/O in HISTOGRAMS and        *)
(* deletes it.  Completions run on every CPU, interleaved at each map      *)
(* helper call, with each other and with the reader of HISTOGRAMS.         *)
(*                                                                         *)
(* A counter is represented by the set of I/Os it counts.  A start value   *)
(* is represented by which issue of which I/O wrote it, so a latency is    *)
(* right when it was computed from the right start; the bucket it falls in *)
(* is left open.                                                           *)
(***************************************************************************)
EXTENDS Naturals, FiniteSets

CONSTANTS
  Ios,          (* block I/Os                                               *)
  Reqs,         (* request structures, the keys of STARTS                   *)
  Kinds,        (* (device, direction) of reads and writes                  *)
  Other,        (* the kind of flushes, discards...: not measured           *)
  Buckets,      (* LATENCY_BUCKETS                                          *)
  Elems,        (* elements of STARTS: MAX_IN_FLIGHT                        *)
  LruFloor,     (* with fewer starts than this nothing is evicted           *)
  MaxHistogramKeys,
  MaxIssues,    (* bound: times one I/O is issued                           *)
  MaxParts,     (* bound: completions one I/O takes                         *)
  None

ASSUME KindsAssumption ==
  Other \notin Kinds /\ IsFiniteSet(Kinds) /\ IsFiniteSet(Buckets)
ASSUME ElemsAssumption ==
  /\ IsFiniteSet(Elems) /\ IsFiniteSet(Reqs)
  /\ None \notin Elems \cup Reqs \cup Kinds \cup {Other}
  /\ LruFloor \in Nat
ASSUME BoundsAssumption ==
  MaxHistogramKeys \in Nat /\ MaxIssues \in Nat \ {0} /\ MaxParts \in Nat \ {0}

VARIABLES
  at,           (* where each I/O is: in the block layer or its completion  *)
  req,          (* the request that carries it                              *)
  kind,         (* its device and direction, or Other                       *)
  issues,       (* how often it has been issued                             *)
  left,         (* completions it still takes                               *)
  missed,       (* history: I/Os whose last issue or whose completion no    *)
                (* program saw                                              *)
  crowded,      (* history: those whose start was evicted since, or whose   *)
                (* counter found no room                                    *)
  attached,     (* the programs attached so far                             *)
  starts,       (* STARTS: the element of each request                      *)
  startVal,     (* the start_value in each element, linked or not           *)
  ptr,          (* completion program: the element it looked up             *)
  from,         (* completion program: the start_value it read              *)
  key,          (* completion program: its histogram key                    *)
  keys,         (* HISTOGRAMS: the keys present                             *)
  hist,         (* HISTOGRAMS: the I/Os each key counts, over all CPUs      *)
  upc,          (* where the reader is                                      *)
  status,       (* EbpfStatus of block latency                              *)
  present,      (* keys there when the iteration began                      *)
  visited,      (* keys it has visited                                      *)
  current,      (* counts read by the iteration                             *)
  previous,     (* previous                                                 *)
  sample,       (* the deltas returned last                                 *)
  told          (* everything returned before them                          *)

blockVars == <<at, req, kind, issues, left, missed>>
startVars == <<starts, startVal>>
probeVars == <<ptr, from, key>>
histVars == <<keys, hist>>
readerVars == <<upc, status, present, visited, current, previous,
                sample, told>>
vars == <<blockVars, crowded, attached, startVars, probeVars, histVars, readerVars>>

HistogramKeys == Kinds \X Buckets
NoCounts == [h \in HistogramKeys |-> {}]

Live == {r \in Reqs : starts[r] # None}

Init ==
  /\ at = [i \in Ios |-> "new"]
  /\ req = [i \in Ios |-> None]
  /\ kind = [i \in Ios |-> None]
  /\ issues = [i \in Ios |-> 0]
  /\ left = [i \in Ios |-> 0]
  /\ missed = {}
  /\ crowded = {}
  /\ attached = {}
  /\ starts = [r \in Reqs |-> None]
  /\ startVal = [e \in Elems |-> None]
  /\ ptr = [i \in Ios |-> None]
  /\ from = [i \in Ios |-> None]
  /\ key = [i \in Ios |-> None]
  /\ keys = {}
  /\ hist = NoCounts
  /\ upc = "load"
  /\ status = "loading"
  /\ present = {}
  /\ visited = {}
  /\ current = NoCounts
  /\ previous = NoCounts
  /\ sample = NoCounts
  /\ told = {}

-----------------------------------------------------------------------------
(* iodyne_block_issue                                                      *)

Carried(r) == \E i \in Ios : req[i] = r /\ at[i] \notin {"new", "finished"}

(* BPF_ANY update of an LRU map: a new element replaces the request's old  *)
(* one; to find one, the map may first evict other starts.                 *)
Losing(victims) == {j \in Ios : at[j] \in {"issued", "found"} /\ req[j] \in victims}

PutStart(i, r, k) ==
  \E victims \in SUBSET Live :
    /\ victims # {} => Cardinality(Live) >= LruFloor
    /\ crowded' = (crowded \ {i}) \cup Losing(victims \ {r})
    /\ \E e \in Elems \ {starts[q] : q \in Live \ victims} :
         /\ starts' = [q \in Reqs |-> IF q = r THEN e
                                      ELSE IF q \in victims THEN None
                                      ELSE starts[q]]
         /\ startVal' = [startVal EXCEPT ![e] =
                           [io |-> i, issue |-> issues[i] + 1, kind |-> k]]

(* The program ignores what is neither a read nor a write.                 *)
TraceIssue(i, r, k) ==
  IF "issue" \in attached /\ k # Other THEN PutStart(i, r, k)
  ELSE UNCHANGED <<startVars, crowded>>

Issue(i, r, k, parts) ==
  /\ at[i] = "new"
  /\ ~Carried(r)
  /\ at' = [at EXCEPT ![i] = "issued"]
  /\ req' = [req EXCEPT ![i] = r]
  /\ kind' = [kind EXCEPT ![i] = k]
  /\ issues' = [issues EXCEPT ![i] = 1]
  /\ left' = [left EXCEPT ![i] = parts]
  /\ missed' = IF "issue" \in attached THEN missed ELSE missed \cup {i}
  /\ TraceIssue(i, r, k)
  /\ UNCHANGED <<attached, probeVars, histVars, readerVars>>

(* The driver gives the request back and the block layer issues it again.  *)
Reissue(i) ==
  /\ at[i] = "issued"
  /\ issues[i] < MaxIssues
  /\ issues' = [issues EXCEPT ![i] = @ + 1]
  /\ missed' = IF "issue" \in attached THEN missed \ {i} ELSE missed \cup {i}
  /\ TraceIssue(i, req[i], kind[i])
  /\ UNCHANGED <<at, req, kind, left, attached, probeVars, histVars, readerVars>>

-----------------------------------------------------------------------------
(* iodyne_block_complete                                                   *)

(* Fault: a partial completion is taken for the final one.                 *)
PartialCounts(i) ==
  /\ at[i] = "issued"
  /\ left[i] > 1
  /\ left' = [left EXCEPT ![i] = @ - 1]
  /\ IF "complete" \in attached /\ starts[req[i]] # None
     THEN /\ at' = [at EXCEPT ![i] = "found"]
          /\ ptr' = [ptr EXCEPT ![i] = starts[req[i]]]
     ELSE UNCHANGED <<at, ptr>>
  /\ UNCHANGED <<req, kind, issues, missed, crowded, attached, startVars, from, key, histVars,
                 readerVars>>

(* completed < remaining: the start stays for the final completion.        *)
Partial(i) ==
  /\ at[i] = "issued"
  /\ left[i] > 1
  /\ left' = [left EXCEPT ![i] = @ - 1]
  /\ UNCHANGED <<at, req, kind, issues, missed, crowded, attached, startVars, probeVars,
                 histVars, readerVars>>

(* The final completion finds no start: the request was not measured, its  *)
(* start was evicted, or the program is not attached yet.                  *)
CompleteUnknown(i) ==
  /\ at[i] = "issued"
  /\ left[i] = 1
  /\ "complete" \in attached => starts[req[i]] = None
  /\ left' = [left EXCEPT ![i] = 0]
  /\ at' = [at EXCEPT ![i] = "finished"]
  /\ missed' = IF "complete" \in attached THEN missed ELSE missed \cup {i}
  /\ UNCHANGED <<req, kind, issues, crowded, attached, startVars, probeVars, histVars,
                 readerVars>>

CompleteFound(i) ==
  /\ at[i] = "issued"
  /\ left[i] = 1
  /\ "complete" \in attached
  /\ starts[req[i]] # None
  /\ left' = [left EXCEPT ![i] = 0]
  /\ ptr' = [ptr EXCEPT ![i] = starts[req[i]]]
  /\ at' = [at EXCEPT ![i] = "found"]
  /\ UNCHANGED <<req, kind, issues, missed, crowded, attached, startVars, from, key, histVars,
                 readerVars>>

(* The key is computed from the start the pointer leads to: if the element *)
(* was evicted meanwhile, from whatever start it holds now.                *)
ReadStart(i) ==
  /\ at[i] = "found"
  /\ from' = [from EXCEPT ![i] = startVal[ptr[i]]]
  /\ \E b \in Buckets : key' = [key EXCEPT ![i] = <<startVal[ptr[i]].kind, b>>]
  /\ at' = [at EXCEPT ![i] = "keyed"]
  /\ UNCHANGED <<req, kind, issues, left, missed, crowded, attached, startVars, ptr, histVars,
                 readerVars>>

LookupCount(i) ==
  /\ at[i] = "keyed"
  /\ at' = [at EXCEPT ![i] = IF key[i] \in keys THEN "count" ELSE "insert"]
  /\ UNCHANGED <<req, kind, issues, left, missed, crowded, attached, startVars, probeVars,
                 histVars, readerVars>>

(* Fault: BPF_ANY, which replaces a counter another CPU has created.       *)
InsertReplaces(i) ==
  /\ at[i] = "insert"
  /\ IF key[i] \in keys \/ Cardinality(keys) < MaxHistogramKeys
     THEN keys' = keys \cup {key[i]} /\ hist' = [hist EXCEPT ![key[i]] = {}]
     ELSE UNCHANGED histVars
  /\ at' = [at EXCEPT ![i] = "relookup"]
  /\ UNCHANGED <<req, kind, issues, left, missed, crowded, attached, startVars, probeVars,
                 readerVars>>

(* BPF_NOEXIST insertion of a zero counter, if there is room for it.       *)
InsertCount(i) ==
  /\ at[i] = "insert"
  /\ IF key[i] \notin keys /\ Cardinality(keys) < MaxHistogramKeys
     THEN keys' = keys \cup {key[i]} /\ hist' = [hist EXCEPT ![key[i]] = {}]
     ELSE UNCHANGED histVars
  /\ crowded' = IF key[i] \in keys' THEN crowded ELSE crowded \cup {i}
  /\ at' = [at EXCEPT ![i] = "relookup"]
  /\ UNCHANGED <<req, kind, issues, left, missed, attached, startVars, probeVars,
                 readerVars>>

RelookupCount(i) ==
  /\ at[i] = "relookup"
  /\ at' = [at EXCEPT ![i] = IF key[i] \in keys THEN "count" ELSE "delete"]
  /\ UNCHANGED <<req, kind, issues, left, missed, crowded, attached, startVars, probeVars,
                 histVars, readerVars>>

Count(i) ==
  /\ at[i] = "count"
  /\ hist' = [hist EXCEPT ![key[i]] = @ \cup {i}]
  /\ at' = [at EXCEPT ![i] = "delete"]
  /\ UNCHANGED <<req, kind, issues, left, missed, crowded, attached, startVars, probeVars, keys,
                 readerVars>>

(* The start is deleted before the block layer can reuse the request.      *)
DeleteStart(i) ==
  /\ at[i] = "delete"
  /\ starts' = [starts EXCEPT ![req[i]] = None]
  /\ at' = [at EXCEPT ![i] = "finished"]
  /\ UNCHANGED <<req, kind, issues, left, missed, crowded, attached, startVal, probeVars,
                 histVars, readerVars>>

Io(i) ==
  \/ \E r \in Reqs, k \in Kinds \cup {Other}, p \in 1..MaxParts : Issue(i, r, k, p)
  \/ Reissue(i)
  \/ Partial(i)
  \/ CompleteUnknown(i)
  \/ CompleteFound(i)
  \/ ReadStart(i)
  \/ LookupCount(i)
  \/ InsertCount(i)
  \/ RelookupCount(i)
  \/ Count(i)
  \/ DeleteStart(i)

-----------------------------------------------------------------------------
(* Userspace: load_linux, then snapshot once per display interval          *)

kernelVars == <<blockVars, crowded, startVars, probeVars, histVars>>

(* The issue program is attached before the completion program.            *)
AttachIssue ==
  /\ upc = "load"
  /\ attached' = {"issue"}
  /\ upc' = "loadComplete"
  /\ UNCHANGED <<kernelVars, status, present, visited, current, previous, sample, told>>

AttachComplete ==
  /\ upc = "loadComplete"
  /\ attached' = {"issue", "complete"}
  /\ status' = "active"
  /\ upc' = "idle"
  /\ UNCHANGED <<kernelVars, present, visited, current, previous, sample, told>>

(* Any load or attach error unloads the object.                            *)
AttachFails ==
  /\ upc \in {"load", "loadComplete"}
  /\ attached' = {}
  /\ status' = "unavailable"
  /\ upc' = "idle"
  /\ UNCHANGED <<kernelVars, present, visited, current, previous, sample, told>>

(* snapshot is only called while the source is active.                     *)
BeginRead ==
  /\ upc = "idle"
  /\ status = "active"
  /\ upc' = "read"
  /\ present' = keys
  /\ visited' = {}
  /\ current' = NoCounts
  /\ UNCHANGED <<kernelVars, attached, status, previous, sample, told>>

(* The iteration visits every key present when it began, and perhaps keys  *)
(* inserted since.                                                         *)
ReadCount(h) ==
  /\ upc = "read"
  /\ h \in keys \ visited
  /\ current' = [current EXCEPT ![h] = hist[h]]
  /\ visited' = visited \cup {h}
  /\ UNCHANGED <<kernelVars, attached, upc, status, present, previous, sample, told>>

ReadFails ==
  /\ upc = "read"
  /\ status' = "unavailable"
  /\ upc' = "idle"
  /\ UNCHANGED <<kernelVars, attached, present, visited, current, previous,
                 sample, told>>

Union(f) == UNION {f[h] : h \in HistogramKeys}

(* Fault: the baseline is kept.                                            *)
ReturnKeepsBaseline ==
  /\ upc = "read"
  /\ present \subseteq visited
  /\ sample' = [h \in HistogramKeys |-> current[h] \ previous[h]]
  /\ told' = told \cup Union(sample)
  /\ upc' = "idle"
  /\ UNCHANGED <<kernelVars, attached, status, present, visited, current, previous>>

(* Fault: the baseline is read from the map again after the snapshot.      *)
ReturnRereadsBaseline ==
  /\ upc = "read"
  /\ present \subseteq visited
  /\ sample' = [h \in HistogramKeys |-> current[h] \ previous[h]]
  /\ told' = told \cup Union(sample)
  /\ previous' = hist
  /\ upc' = "idle"
  /\ UNCHANGED <<kernelVars, attached, status, present, visited, current>>

(* histogram_delta against the previous snapshot, which it replaces.       *)
ReturnDelta ==
  /\ upc = "read"
  /\ present \subseteq visited
  /\ sample' = [h \in HistogramKeys |-> current[h] \ previous[h]]
  /\ told' = told \cup Union(sample)
  /\ previous' = current
  /\ upc' = "idle"
  /\ UNCHANGED <<kernelVars, attached, status, present, visited, current>>

(* sample_traced_latency returns early.                                    *)
SkipSnapshot ==
  /\ upc = "idle"
  /\ status # "active"
  /\ UNCHANGED vars

Reader ==
  \/ AttachIssue
  \/ AttachComplete
  \/ AttachFails
  \/ BeginRead
  \/ \E h \in HistogramKeys : ReadCount(h)
  \/ ReadFails
  \/ ReturnDelta
  \/ SkipSnapshot

Next == (\E i \in Ios : Io(i)) \/ Reader

(* The main loop keeps running and display intervals keep elapsing.        *)
Fairness == WF_vars(Reader)

Spec == Init /\ [][Next]_vars
FairSpec == Spec /\ Fairness

-----------------------------------------------------------------------------
(* Properties                                                              *)

Start == [io : Ios, issue : 1..MaxIssues, kind : Kinds]
Counts == [HistogramKeys -> SUBSET Ios]

(* Every variable holds a value of its type, and a completion program past *)
(* a step has what the step produced.                                      *)
TypeOK ==
  /\ at \in [Ios -> {"new", "issued", "found", "keyed", "insert", "relookup",
                     "count", "delete", "finished"}]
  /\ req \in [Ios -> Reqs \cup {None}]
  /\ kind \in [Ios -> Kinds \cup {Other, None}]
  /\ issues \in [Ios -> 0..MaxIssues]
  /\ left \in [Ios -> 0..MaxParts]
  /\ missed \in SUBSET Ios
  /\ crowded \in SUBSET Ios
  /\ attached \in {{}, {"issue"}, {"issue", "complete"}}
  /\ starts \in [Reqs -> Elems \cup {None}]
  /\ startVal \in [Elems -> Start \cup {None}]
  /\ ptr \in [Ios -> Elems \cup {None}]
  /\ from \in [Ios -> Start \cup {None}]
  /\ key \in [Ios -> HistogramKeys \cup {None}]
  /\ keys \in SUBSET HistogramKeys
  /\ hist \in Counts
  /\ upc \in {"load", "loadComplete", "idle", "read"}
  /\ status \in {"loading", "active", "unavailable"}
  /\ present \in SUBSET HistogramKeys
  /\ visited \in SUBSET HistogramKeys
  /\ current \in Counts
  /\ previous \in Counts
  /\ sample \in Counts
  /\ told \in SUBSET Ios
  /\ \A r \in Live : startVal[starts[r]] \in Start
  /\ \A i \in Ios :
       /\ at[i] = "new" => issues[i] = 0
       /\ at[i] # "new" => req[i] \in Reqs /\ kind[i] \in Kinds \cup {Other}
       /\ at[i] \notin {"new", "issued", "finished"} => ptr[i] \in Elems
       /\ at[i] = "found" => startVal[ptr[i]] \in Start
       /\ at[i] \in {"keyed", "insert", "relookup", "count", "delete"} =>
            from[i] \in Start /\ key[i] \in HistogramKeys

(* "latency is measured from its issue to the final completion"            *)
(* (ebpf/README.md:37): an I/O is counted once, under its own device and   *)
(* direction, after its final completion, and its latency was computed     *)
(* from the start that its own latest issue recorded.                      *)
MeasuredRight(i) ==
  \A h \in HistogramKeys : i \in hist[h] =>
    /\ left[i] = 0
    /\ h[1] = kind[i]
    /\ from[i] = [io |-> i, issue |-> issues[i], kind |-> kind[i]]
    /\ \A g \in HistogramKeys \ {h} : i \notin hist[g]

(* Reads and writes whose starts were not evicted are measured right,      *)
(* however requests are reused, requeued and completed in parts, whenever  *)
(* the programs are attached, and although elements of evicted starts are  *)
(* reused under completions that hold a pointer to them.                   *)
TracedMeasuredRight ==
  \A i \in Ios \ crowded : kind[i] \in Kinds => MeasuredRight(i)

(* Nothing but reads and writes is in a histogram, and all are right.      *)
AllMeasuredRight == \A i \in Ios \ crowded : MeasuredRight(i)

(* Every read or write whose issue and completion the programs saw is      *)
(* counted when its completion ends, although several CPUs may create the  *)
(* counter of its key at once: none is lost that a full table did not lose.*)
CompletedIsCounted ==
  \A i \in Ios \ (missed \cup crowded) :
    at[i] = "finished" /\ kind[i] \in Kinds => \E h \in HistogramKeys : i \in hist[h]

(* Snapshots report each counted I/O once, although they read the counters *)
(* one by one while completions add to them: what has been reported is the *)
(* baseline the next snapshot subtracts, and no counter is behind it.      *)
ReportedOnce ==
  /\ told \cap Union(sample) = {}
  /\ told \cup Union(sample) = Union(previous)
  /\ \A h \in HistogramKeys : previous[h] \subseteq hist[h]

(* What ReportedOnce rests on: an I/O is counted under the one key that its*)
(* completion computed, and an iteration never reads less than the baseline*)
(* it will be compared with.                                               *)
CountedUnderKey ==
  /\ \A i \in Ios, h \in HistogramKeys : i \in hist[h] =>
       h = key[i] /\ at[i] \in {"delete", "finished"}
  /\ \A h \in HistogramKeys \ keys : hist[h] = {}
  /\ \A i \in Ios : at[i] = "count" => key[i] \in keys

BaselineInv ==
  /\ \A h \in HistogramKeys : current[h] \subseteq hist[h]
  /\ upc = "read" =>
       /\ \A h \in visited : previous[h] \subseteq current[h]
       /\ \A h \in HistogramKeys \ present : previous[h] = {}

(* What TracedMeasuredRight rests on.  No element and no request is shared;*)
(* until a completion has read it, the start of a read or write issued     *)
(* since the program was attached is its own.                              *)
Own(i) == [io |-> i, issue |-> issues[i], kind |-> kind[i]]

Unshared ==
  /\ \A r, q \in Live : r # q => starts[r] # starts[q]
  /\ \A i, j \in Ios : i # j /\ at[i] \notin {"new", "finished"}
       /\ at[j] \notin {"new", "finished"} => req[i] # req[j]

OwnStart ==
  /\ upc = "load" => attached = {} /\ Live = {}
  /\ upc = "loadComplete" => attached = {"issue"}
  /\ \A i \in Ios :
       /\ at[i] \notin {"new", "issued"} => left[i] = 0
       /\ at[i] \in {"found", "keyed", "insert", "relookup", "count", "delete"} =>
            "complete" \in attached
       /\ i \notin crowded /\ at[i] = "found" => ptr[i] = starts[req[i]]
       /\ i \notin crowded /\ kind[i] \in Kinds =>
            /\ at[i] \in {"issued", "found"} /\ attached # {}
                 /\ starts[req[i]] # None => startVal[starts[req[i]]] = Own(i)
            /\ at[i] \in {"keyed", "insert", "relookup", "count", "delete"} =>
                 from[i] = Own(i) /\ key[i][1] = kind[i]
            /\ at[i] = "finished" /\ (\E h \in HistogramKeys : i \in hist[h]) =>
                 from[i] = Own(i) /\ key[i][1] = kind[i]

(* What CompletedIsCounted rests on besides: the start of a read or write  *)
(* whose issue was seen is there, and so is the counter it is added to.    *)
Recorded ==
  /\ upc = "load" => \A i \in Ios : at[i] # "new" => i \in missed
  /\ \A i \in Ios \ crowded :
       /\ kind[i] \in Kinds /\ i \notin missed /\ at[i] = "issued" /\ attached # {} =>
            starts[req[i]] # None
       /\ at[i] = "relookup" => key[i] \in keys
       /\ at[i] = "delete" => \E h \in HistogramKeys : i \in hist[h]
       /\ at[i] = "finished" /\ kind[i] \in Kinds /\ i \notin missed =>
            \E h \in HistogramKeys : i \in hist[h]

(* A counted I/O is eventually in a snapshot, or the collector has reported*)
(* itself unavailable.                                                     *)
CountedIsReported ==
  \A i \in Ios :
    (\E h \in HistogramKeys : i \in hist[h])
      ~> (i \in told \cup Union(sample) \/ status = "unavailable")
=============================================================================
