------------------------------ MODULE HotFiles ------------------------------
(***************************************************************************)
(* The hot files of a sample (collect/io.rs, sample_hot_files): the totals *)
(* of the window, per file and process, are merged by file, ranked, cut to *)
(* the limit, and completed from /proc as it is by then, which may be long *)
(* after the calls: a process may have exited, or have another parent.     *)
(*                                                                         *)
(* A key of the window is a record: the file, the process (tgid), the      *)
(* thread that was seen last, and what the probes captured at the call: the*)
(* parent, whether it was of a container, and whether its path is known.   *)
(* /proc is a record `proc': the parent of each process that is still      *)
(* there, what its descriptors are of in the order they are listed, and    *)
(* the processes with a container label.                                   *)
(***************************************************************************)
EXTENDS ActivityWindow, FiniteSets

CONSTANTS
    None,      \* no process
    Limit,     \* HOT_FILE_LIMIT
    ScanLimit, \* PROC_FD_SCAN_LIMIT
    Procs      \* what /proc may be at a sample

ASSUME LimitAssumption == Limit \in Nat \ {0} /\ ScanLimit \in Nat

(* Inodes and process numbers have a width.                                *)
ASSUME KeysAssumption == IsFiniteSet(Keys)

-----------------------------------------------------------------------------
(* ranked: an entry for each total, with what was captured of its process. *)
Entry(k) ==
    [file      |-> k.file,
     rate      |-> totals[k].units,
     processes |-> {<<k.thread, k.tgid>>},
     captured  |-> IF k.parent = None THEN {} ELSE {<<k.tgid, k.parent>>},
     workloads |-> IF k.container THEN {<<k.tgid, "container">>} ELSE {},
     path      |-> IF k.path THEN "ebpf" ELSE "fallback"]

Activity == [k \in DOMAIN totals |-> Entry(k)]

(* merge_vfs_processes: the entries of one file become one, with the sum of*)
(* their rates; a captured path is kept whichever entry comes first.       *)
Merge(entries) ==
    [f \in {entries[k].file : k \in DOMAIN entries} |->
        LET mine == {k \in DOMAIN entries : entries[k].file = f}
        IN  [file      |-> f,
             rate      |-> Tally([k \in mine |-> entries[k].rate]),
             processes |-> UNION {entries[k].processes : k \in mine},
             captured  |-> UNION {entries[k].captured : k \in mine},
             workloads |-> UNION {entries[k].workloads : k \in mine},
             path      |-> IF \E k \in mine : entries[k].path = "ebpf" THEN "ebpf" ELSE "fallback"]]

(* rank_vfs_activity: the order by rate is cut at the limit, so that none  *)
(* of those below is above one that stays.  Which of equal rates stay is   *)
(* decided by process and inode: by what does not change meanwhile.        *)
IsTop(top, items) ==
    /\ top \subseteq DOMAIN items
    /\ IF Cardinality(DOMAIN items) <= Limit THEN top = DOMAIN items
       ELSE Cardinality(top) = Limit
    /\ \A x \in top : \A y \in DOMAIN items \ top : items[x].rate >= items[y].rate

Hottest(items) ==
    [x \in CHOOSE top \in SUBSET DOMAIN items : IsTop(top, items) |-> items[x]]

(* Fault: entries are ranked and cut before those of a file are merged.    *)
RankedFirst == Merge(Hottest(Activity))

Ranked == Hottest(Merge(Activity))

-----------------------------------------------------------------------------
(* What is found in a scan of a process's descriptors, which ends with the *)
(* limit.                                                                  *)
Scanned(proc, p) ==
    IF p \in DOMAIN proc.open
    THEN {proc.open[p][i] : i \in DOMAIN proc.open[p] \cap 1..ScanLimit} ELSE {}

(* resolve_hot_file_paths: a file without a captured path takes that of a  *)
(* descriptor of one of its processes, by the thread or the process.       *)
ResolvedPath(item, proc) ==
    IF item.path = "fallback"
       /\ \E p \in item.processes : item.file \in Scanned(proc, p[1]) \cup Scanned(proc, p[2])
    THEN [item EXCEPT !.path = "proc_fd"] ELSE item

(* The parent of a process is the one at the call, or the present one.     *)
ParentOf(item, tgid, proc) ==
    LET captured == {c[2] : c \in {d \in item.captured : d[1] = tgid}}
    IN  IF captured # {} THEN CHOOSE parent \in captured : TRUE
        ELSE IF tgid \in DOMAIN proc.parent THEN proc.parent[tgid] ELSE None

(* collapse_hot_file_processes: the parent is displayed instead of a       *)
(* process when it is the parent of two contributors.                      *)
Displayed(item, tgid, proc) ==
    LET parent == ParentOf(item, tgid, proc)
        siblings == {p \in item.processes : ParentOf(item, p[2], proc) = parent}
    IN  IF parent # None /\ Cardinality(siblings) >= 2 THEN parent ELSE tgid

(* Fault: the labels stay with the processes that are no longer displayed. *)
CollapsedKeepsLabels(item, proc) ==
    [file |-> item.file, rate |-> item.rate, path |-> item.path, workloads |-> item.workloads,
     rollups |-> {<<p[2], Displayed(item, p[2], proc)>> : p \in item.processes}]

Collapsed(item, proc) ==
    [file |-> item.file, rate |-> item.rate, path |-> item.path,
     rollups |-> {<<p[2], Displayed(item, p[2], proc)>> : p \in item.processes},
     workloads |-> {<<Displayed(item, w[1], proc), w[2]>> : w \in item.workloads}]

DisplayProcesses(item) == {r[2] : r \in item.rollups}

(* annotate_workload_processes: the label that a displayed process has now *)
(* replaces what is known of it.                                           *)
Annotated(item, proc) ==
    LET exact == DisplayProcesses(item) \cap proc.labelled
    IN  [item EXCEPT !.workloads = {w \in @ : w[1] \notin exact} \cup {<<p, "exact">> : p \in exact}]

HotFile(item, proc) == Annotated(Collapsed(ResolvedPath(item, proc), proc), proc)

-----------------------------------------------------------------------------
RecentOf(file) == LET of == {k \in Keys : k.file = file}
                  IN  Tally([k \in of |-> Recent(k)])
Files == {k.file : k \in Keys}

(* The hot files are the hottest of the last ten seconds: each is listed   *)
(* once with all that its processes did, and none that is left out did     *)
(* more than one that is listed, however the activity of a file is spread  *)
(* over processes.                                                         *)
HottestOfWindow ==
    /\ \A f \in DOMAIN Ranked : Ranked[f].file = f /\ Ranked[f].rate = RecentOf(f)
    /\ \A f \in Files \ DOMAIN Ranked : RecentOf(f) = 0
          \/ (Cardinality(DOMAIN Ranked) = Limit /\ \A g \in DOMAIN Ranked : RecentOf(f) <= RecentOf(g))

(* Whatever has become of the processes: each that was active on a hot file*)
(* is displayed, by itself or by its parent; where a container was seen at *)
(* the call, what is displayed has a label; and a path that was captured   *)
(* for any of them, or that one still has among the descriptors that are   *)
(* looked at, is shown.                                                    *)
ContributorsShown ==
    \A f \in DOMAIN Ranked : \A proc \in Procs :
        LET shown == HotFile(Ranked[f], proc)
            mine == {k \in DOMAIN totals : k.file = f}
            parents(k) == {l.parent : l \in {m \in mine : m.tgid = k.tgid}}
                          \cup (IF k.tgid \in DOMAIN proc.parent THEN {proc.parent[k.tgid]} ELSE {})
        IN  \A k \in mine :
              /\ \E d \in DisplayProcesses(shown) :
                    /\ d \in {k.tgid} \cup (parents(k) \ {None})
                    /\ <<k.tgid, d>> \in shown.rollups
                    /\ k.container => \E w \in shown.workloads : w[1] = d
              /\ k.path \/ k.file \in Scanned(proc, k.tgid) => shown.path # "fallback"
=============================================================================
