------------------------------ MODULE VfsCalls ------------------------------
(***************************************************************************)
(* One VFS call from its entry probe to its return probe, and the path of  *)
(* its file (vfs_activity.bpf.c: the read, write and iter programs, the    *)
(* pending maps, the path program; ebpf.rs: attachment and the paths of a  *)
(* drain).                                                                 *)
(*                                                                         *)
(* The kernel (external) runs a task's calls as a stack: a call on a file  *)
(* of a stacked filesystem calls again on the file below, and every call   *)
(* asks security_file_permission before it does so.  A return probe fires  *)
(* for the calls that were entered after it was attached.  Once attaching  *)
(* has failed nothing is collected, and no more calls are modelled.  What  *)
(* a recorded call adds to VFS_AGG is the subject of VfsAgg: here agg is   *)
(* the set of rows with calls no drain has taken.                          *)
(***************************************************************************)
EXTENDS Integers, FiniteSets, Sequences

CONSTANTS
  Tasks,        (* threads                                                  *)
  Processes,    (* their thread groups                                      *)
  ProcessOf,    (* the thread group of each task                            *)
  ChargedTo,    (* the process its calls are charged to: its own, or the    *)
                (* requester a FUSE daemon works for                        *)
  Self,         (* iodyne's own process                                     *)
  Files,        (* inodes that calls are made on                            *)
  Opens,        (* the files a task calls on of its own                     *)
  Storage,      (* those vfs_key_for_file admits                            *)
  Below,        (* the files a call on a file may call on                   *)
  Names,        (* paths                                                    *)
  PathsOf,      (* the paths by which a process knows a file                *)
  PendingSize,  (* entries of each pending map                              *)
  PathsSize,    (* entries of VFS_PATHS                                     *)
  Unresolved,   (* the empty path                                           *)
  None

ASSUME TasksAssumption ==
  /\ ProcessOf \in [Tasks -> Processes]
  /\ ChargedTo \in [Tasks -> Processes]
ASSUME FilesAssumption ==
  /\ Storage \subseteq Files
  /\ Opens \in [Tasks -> SUBSET Files]
  /\ Below \in [Files -> SUBSET Files]
  /\ PathsOf \in [Files -> [Processes -> SUBSET Names]]
  /\ Unresolved \notin Names
ASSUME SizesAssumption == PendingSize \in Nat /\ PathsSize \in Nat \ {0}

VARIABLES
  attached,     (* how many of the programs of Order are attached           *)
  path,         (* the path program, and whether userspace reads its map    *)
  calls,        (* the calls each task is in, the innermost last            *)
  pending,      (* PENDING_VFS_IO and PENDING_ITER_IO, by task              *)
  paths,        (* VFS_PATHS                                                *)
  agg,          (* rows with calls in VFS_AGG                               *)
  drained,      (* rows of this drain whose path is not looked up           *)
  lost          (* history: path keys that were evicted, not resolved, or   *)
                (* used before the path program was there                   *)

vars == <<attached, path, calls, pending, paths, agg, drained, lost>>

Kinds == {"scalar", "iter"}
Directions == {"read", "write"}

(* Fault: a return attached before the entry of the other direction.       *)
OrderByFunction ==
  << <<"scalar", "read", "entry">>, <<"scalar", "read", "return">>,
     <<"scalar", "write", "return">>, <<"scalar", "write", "entry">>,
     <<"iter", "read", "entry">>, <<"iter", "read", "return">>,
     <<"iter", "write", "return">>, <<"iter", "write", "entry">> >>

(* load_vfs_linux: both entries of a map come before either of its returns. *)
Order ==
  << <<"scalar", "read", "entry">>, <<"scalar", "write", "entry">>,
     <<"scalar", "read", "return">>, <<"scalar", "write", "return">>,
     <<"iter", "read", "entry">>, <<"iter", "write", "entry">>,
     <<"iter", "read", "return">>, <<"iter", "write", "return">> >>

IsAttached(kind, direction, end) ==
  \E i \in 1..attached : Order[i] = <<kind, direction, end>>

Entry == [file : Files, direction : Directions]

(* A null pointer is not an entry.                                         *)
ASSUME NoneAssumption == None \notin Entry

Empty == [k \in {} |-> None]
Without(f, K) == [x \in DOMAIN f \ K |-> f[x]]
With(f, k, v) == [x \in DOMAIN f \cup {k} |-> IF x = k THEN v ELSE f[x]]

(* record_vfs_file and iodyne_vfs_path: calls of iodyne's own and files    *)
(* that are not on storage are left out.                                   *)
Admitted(t, f) == ProcessOf[t] # Self /\ f \in Storage

PathKey(t, f) == [file |-> f, tgid |-> ProcessOf[t]]
Row(t, f) == [file |-> f, tgid |-> ChargedTo[t], executor |-> ProcessOf[t]]

Init ==
  /\ attached = 0
  /\ path = "loading"
  /\ calls = [t \in Tasks |-> <<>>]
  /\ pending = [kind \in Kinds |-> Empty]
  /\ paths = Empty
  /\ agg = {}
  /\ drained = {}
  /\ lost = {}

-----------------------------------------------------------------------------
(* load_vfs_linux: the count programs in order, all or none; then the path *)
(* program, which may be refused.                                          *)

Attach ==
  /\ path = "loading"
  /\ attached < Len(Order)
  /\ attached' = attached + 1
  /\ UNCHANGED <<path, calls, pending, paths, agg, drained, lost>>

AttachFails ==
  /\ path = "loading"
  /\ attached < Len(Order)
  /\ attached' = 0
  /\ path' = "failed"
  /\ pending' = [kind \in Kinds |-> Empty]
  /\ agg' = {}
  /\ UNCHANGED <<calls, paths, drained, lost>>

AttachPath ==
  /\ path = "loading"
  /\ attached = Len(Order)
  /\ path' \in {"active", "unavailable"}
  /\ UNCHANGED <<attached, calls, pending, paths, agg, drained, lost>>

Loading == Attach \/ AttachFails \/ AttachPath

-----------------------------------------------------------------------------
(* The calls of a task                                                     *)

Innermost(t) == calls[t][Len(calls[t])]

(* A call begins on a file the task opened or, in a call that got its      *)
(* permission, on a file below; a read only reads below.                   *)
MayCall(t, f, direction) ==
  IF calls[t] = <<>> THEN f \in Opens[t]
  ELSE LET outer == Innermost(t) IN
       /\ outer.step = "permitted"
       /\ f \in Below[outer.file]
       /\ outer.direction = "read" => direction = "read"

(* begin_pending_io: a task's own entry is replaced; without one, the map  *)
(* may be full.                                                            *)
HasRoom(kind, t) ==
  t \in DOMAIN pending[kind] \/ Cardinality(DOMAIN pending[kind]) < PendingSize

BeginPending(kind, t, f, direction) ==
  [pending EXCEPT ![kind] = With(@, t, [file |-> f, direction |-> direction])]

Replaced(c, kind) == IF c.kind = kind THEN [c EXCEPT !.owed = FALSE] ELSE c

(* owed is a history: both probes of the call run, its entry found room,   *)
(* and no call inside it replaced the entry.                               *)
Enter(t, kind, f, direction) ==
  LET entered == IsAttached(kind, direction, "entry")
      probed == IsAttached(kind, direction, "return")
      stored == entered /\ HasRoom(kind, t)
      call == [kind |-> kind, file |-> f, direction |-> direction, step |-> "entered",
               probed |-> probed, owed |-> stored /\ probed]
      outer == IF entered THEN [i \in DOMAIN calls[t] |-> Replaced(calls[t][i], kind)]
               ELSE calls[t]
  IN
  /\ path # "failed"
  /\ MayCall(t, f, direction)
  /\ pending' = IF stored THEN BeginPending(kind, t, f, direction) ELSE pending
  /\ calls' = [calls EXCEPT ![t] = Append(outer, call)]
  /\ UNCHANGED <<attached, path, paths, agg, drained, lost>>

Proceed(t, step) == calls' = [calls EXCEPT ![t][Len(calls[t])].step = step]

(* iodyne_vfs_path: only the task that inserts the empty path goes on.     *)
PathProgramRuns == path \in {"active", "unread"}

PermitUnseen(t) ==
  /\ calls[t] # <<>> /\ Innermost(t).step = "entered"
  /\ ~PathProgramRuns \/ ~Admitted(t, Innermost(t).file)
  /\ Proceed(t, "permitted")
  /\ lost' = IF path = "loading" /\ Admitted(t, Innermost(t).file)
             THEN lost \cup {PathKey(t, Innermost(t).file)} ELSE lost
  /\ UNCHANGED <<attached, path, pending, paths, agg, drained>>

PermitKnown(t) ==
  /\ calls[t] # <<>> /\ Innermost(t).step = "entered"
  /\ PathProgramRuns /\ Admitted(t, Innermost(t).file)
  /\ PathKey(t, Innermost(t).file) \in DOMAIN paths
  /\ Proceed(t, "permitted")
  /\ UNCHANGED <<attached, path, pending, paths, agg, drained, lost>>

InsertSentinel(t) ==
  LET key == PathKey(t, Innermost(t).file) IN
  /\ calls[t] # <<>> /\ Innermost(t).step = "entered"
  /\ PathProgramRuns /\ Admitted(t, Innermost(t).file)
  /\ key \notin DOMAIN paths
  /\ \E victims \in SUBSET DOMAIN paths :
       /\ victims # {} => Cardinality(DOMAIN paths) = PathsSize
       /\ Cardinality(DOMAIN paths \ victims) < PathsSize
       /\ paths' = With(Without(paths, victims), key, Unresolved)
       /\ lost' = (lost \cup victims) \ {key}
  /\ Proceed(t, "resolving")
  /\ UNCHANGED <<attached, path, pending, agg, drained>>

(* Fault: the path is inserted, not updated.                               *)
PublishInserts(key, name) == IF key \in DOMAIN paths THEN paths ELSE With(paths, key, name)

(* bpf_d_path gives a path the process has for the file; the update needs  *)
(* the entry to be there still.                                            *)
Publish(key, name) == IF key \in DOMAIN paths THEN With(paths, key, name) ELSE paths

PublishPath(t) ==
  /\ calls[t] # <<>> /\ Innermost(t).step = "resolving"
  /\ LET f == Innermost(t).file IN
     \E name \in PathsOf[f][ProcessOf[t]] : paths' = Publish(PathKey(t, f), name)
  /\ Proceed(t, "permitted")
  /\ UNCHANGED <<attached, path, pending, agg, drained, lost>>

PathFails(t) ==
  /\ calls[t] # <<>> /\ Innermost(t).step = "resolving"
  /\ Proceed(t, "permitted")
  /\ lost' = lost \cup {PathKey(t, Innermost(t).file)}
  /\ UNCHANGED <<attached, path, pending, paths, agg, drained>>

(* complete_pending_io: a task's entry is taken out of the map whatever    *)
(* the result, and recorded if bytes were transferred.                     *)
Taken(call, t) ==
  IF call.probed /\ path # "failed" /\ t \in DOMAIN pending[call.kind]
  THEN pending[call.kind][t] ELSE None

Complete(call, t) ==
  IF Taken(call, t) = None THEN pending
  ELSE [pending EXCEPT ![call.kind] = Without(@, {t})]

Recorded(call, t, transferred) ==
  LET taken == Taken(call, t) IN
  IF taken # None /\ transferred /\ Admitted(t, taken.file) THEN taken ELSE None

Return(t, transferred) ==
  /\ calls[t] # <<>> /\ Innermost(t).step = "permitted"
  /\ LET call == Innermost(t)
         recorded == Recorded(call, t, transferred)
     IN /\ pending' = Complete(call, t)
        /\ agg' = IF recorded = None THEN agg ELSE agg \cup {Row(t, recorded.file)}
  /\ calls' = [calls EXCEPT ![t] = SubSeq(@, 1, Len(@) - 1)]
  /\ UNCHANGED <<attached, path, paths, drained, lost>>

Task(t) ==
  \/ \E kind \in Kinds, f \in Files, direction \in Directions : Enter(t, kind, f, direction)
  \/ PermitUnseen(t)
  \/ PermitKnown(t)
  \/ InsertSentinel(t)
  \/ PublishPath(t)
  \/ PathFails(t)
  \/ \E transferred \in BOOLEAN : Return(t, transferred)

-----------------------------------------------------------------------------
(* read_vfs_counts: the rows of a drain, without those charged to iodyne,  *)
(* and then the path of each under the key of the process that made the    *)
(* calls: PathOf(row) is the path a row gets in this state.  An error of   *)
(* the map ends the reading of paths for good.                             *)

BeginDrain ==
  LET taken == {row \in agg : row.tgid # Self} IN
  /\ path \notin {"loading", "failed"}
  /\ drained = {}
  /\ agg' = {}
  /\ drained' = IF path = "active" THEN taken ELSE {}
  /\ UNCHANGED <<attached, path, calls, pending, paths, lost>>

(* Fault: paths are looked up under the process that is charged.           *)
LookupCharged(row) == [file |-> row.file, tgid |-> row.tgid]

LookupKey(row) == [file |-> row.file, tgid |-> row.executor]

PathOf(row) ==
  IF LookupKey(row) \in DOMAIN paths THEN paths[LookupKey(row)] ELSE Unresolved

LookupPath ==
  \E row \in drained :
    /\ drained' = drained \ {row}
    /\ UNCHANGED <<attached, path, calls, pending, paths, agg, lost>>

LookupFails ==
  /\ path = "active" /\ drained # {}
  /\ path' = "unread"
  /\ drained' = {}
  /\ UNCHANGED <<attached, calls, pending, paths, agg, lost>>

Collector == BeginDrain \/ LookupPath \/ LookupFails

Next == Loading \/ Collector \/ \E t \in Tasks : Task(t)

Spec == Init /\ [][Next]_vars

-----------------------------------------------------------------------------
(* Properties                                                              *)

Call == [kind : Kinds, file : Files, direction : Directions,
         step : {"entered", "resolving", "permitted"},
         probed : BOOLEAN, owed : BOOLEAN]
Key == [file : Files, tgid : Processes]
Rows == [file : Files, tgid : Processes, executor : Processes]
PartialFunctions(D, R) == UNION {[X -> R] : X \in SUBSET D}

(* Every variable has its type.                                            *)
TypeOK ==
  /\ attached \in 0..Len(Order)
  /\ path \in {"loading", "failed", "active", "unavailable", "unread"}
  /\ calls \in [Tasks -> Seq(Call)]
  /\ pending \in [Kinds -> PartialFunctions(Tasks, Entry)]
  /\ paths \in PartialFunctions(Key, Names \cup {Unresolved})
  /\ agg \in SUBSET Rows
  /\ drained \in SUBSET Rows
  /\ lost \in SUBSET Key

(* A return probe records its own call: file and direction are those of    *)
(* the call that returns, and a call that transferred bytes of a storage   *)
(* file is recorded unless a probe of it was missing, the map was full or  *)
(* a call of the same kind was made inside it.  Calls nest through stacked *)
(* filesystems ("so they need independent pending state",                  *)
(* vfs_activity.bpf.c:244) and programs are attached while calls are under *)
(* way.                                                                    *)
CountsOwnCall ==
  \A t \in Tasks : calls[t] # <<>> =>
    LET call == Innermost(t) IN
    Recorded(call, t, TRUE) =
      IF call.owed /\ path # "failed" /\ Admitted(t, call.file)
      THEN [file |-> call.file, direction |-> call.direction] ELSE None

(* The path program runs before the call is counted: a row a drain finds   *)
(* has its path published, unless the key was lost or the first task of    *)
(* the process is resolving it at that moment.                             *)
Resolving(key) ==
  \E t \in Tasks :
    \E i \in 1..Len(calls[t]) :
      calls[t][i].step = "resolving" /\ PathKey(t, calls[t][i].file) = key

NamedWhenCounted ==
  path = "active" => \A row \in agg \cup drained :
    LET key == [file |-> row.file, tgid |-> row.executor] IN
    \/ key \in lost
    \/ Resolving(key)
    \/ key \in DOMAIN paths /\ paths[key] # Unresolved

(* A path is shown with a row only if the process that made the calls      *)
(* knows the file by it, whoever is charged for them and whoever else uses *)
(* the file under other names.                                             *)
PathIsOwn ==
  \A row \in drained :
    PathOf(row) = Unresolved \/ PathOf(row) \in PathsOf[row.file][row.executor]

=============================================================================
