--------------------------- MODULE FuseAttribution ---------------------------
(***************************************************************************)
(* To which process the VFS probes charge the backing I/O of a FUSE daemon *)
(* (vfs_activity.bpf.c: the programs on /dev/fuse reads and replies, the   *)
(* logical-writer and requester-identity programs, and the origin part of  *)
(* record_vfs_file; ebpf.rs: what a sample makes of the origin).           *)
(*                                                                         *)
(* Tasks ask the filesystem synchronously or write through its page cache; *)
(* the kernel (external) queues their requests, the writeback of dirty     *)
(* nodes and other requests of its own, both with process id zero.  A      *)
(* worker thread of the daemon takes one request at a time and does        *)
(* backing I/O, on one file, until it replies.  An operation goes to the   *)
(* entry of VFS_AGG that its key finds, or makes one: ChargedTo(w) is the  *)
(* process an operation of w in this state is charged to.                  *)
(***************************************************************************)
EXTENDS Integers, FiniteSets

CONSTANTS
  Tasks,        (* threads that use the filesystem                          *)
  Processes,    (* their thread groups                                      *)
  ProcessOf,    (* the thread group of each task                            *)
  Pids,         (* nonzero process ids                                      *)
  HeaderPid,    (* a task's id in the pid namespace of its mount            *)
  HostPid,      (* its id in the namespace the probes and iodyne run in     *)
  Nodes,        (* (mount, node id) of files, and their writeback requests  *)
  Background,   (* other requests with process id zero                      *)
  Workers,      (* threads of the daemon                                    *)
  MaxAge,       (* FUSE_WRITER_MAX_AGE_NS                                   *)
  ActiveRoom,   (* entries of ACTIVE_FUSE_REQUESTS                          *)
  LruFloor,     (* with fewer keys than this an LRU map evicts nothing      *)
  MaxTime,      (* bound: the last value of the clock                       *)
  Daemon,       (* the daemon's own process                                 *)
  None

Requests == Tasks \cup Nodes \cup Background
HeaderPids == {HeaderPid[t] : t \in Tasks}

ASSUME TasksAssumption ==
  /\ ProcessOf \in [Tasks -> Processes]
  /\ HeaderPid \in [Tasks -> Pids] /\ HostPid \in [Tasks -> Pids]
  /\ \A t, u \in Tasks : HostPid[t] = HostPid[u] => t = u
  /\ Daemon \notin Processes \cup Pids
  /\ Processes \cap Pids = {}
ASSUME RequestsAssumption ==
  /\ Tasks \cap Nodes = {} /\ Tasks \cap Background = {} /\ Nodes \cap Background = {}
  /\ None \notin Requests
ASSUME SizesAssumption ==
  /\ IsFiniteSet(Nodes) /\ IsFiniteSet(HeaderPids) /\ IsFiniteSet(Workers)
  /\ MaxAge \in Nat /\ ActiveRoom \in Nat /\ LruFloor \in Nat /\ MaxTime \in Nat

VARIABLES
  hooks,        (* the optional programs the kernel let iodyne attach       *)
  now,          (* bpf_ktime_get_ns                                         *)
  task,         (* what each task is doing                                  *)
  lookup,       (* writer program: the node, time and entry it looked up    *)
  queue,        (* requests no worker has taken                             *)
  worker,       (* where each worker is                                     *)
  serving,      (* the request it has taken and not answered                *)
  pendingRead,  (* PENDING_FUSE_READS: workers inside a /dev/fuse read      *)
  active,       (* ACTIVE_FUSE_REQUESTS                                     *)
  writers,      (* FUSE_LOGICAL_WRITERS                                     *)
  identities,   (* FUSE_REQUESTER_IDENTITIES                                *)
  origins,      (* VFS_AGG: whose identity each entry of the file carries   *)
  lastWrite,    (* history: when each process last wrote each node          *)
  contended,    (* history: nodes two tasks have written at once            *)
  unseen        (* history: workers whose last request ended where no       *)
                (* program looked                                           *)

taskVars == <<task, lookup, queue>>
workerVars == <<worker, serving>>
writerVars == <<lookup, writers, lastWrite, contended>>
fuseVars == <<hooks, now, task, lookup, queue, worker, serving, pendingRead, active,
              writers, identities, origins, lastWrite, contended, unseen>>

Writer == [task : Tasks, seen : 0..MaxTime, ambiguous : 0..(MaxTime + MaxAge)]
Lookup == [node : Nodes, time : 0..MaxTime, previous : Writer \cup {None}]

(* A null pointer is not an entry.                                         *)
ASSUME NoneAssumption == None \notin Writer

Never == -(MaxAge + 1)
Empty == [k \in {} |-> None]

(* load_vfs_linux: the identity and the writer programs need the request   *)
(* program; the reply program is attached on its own.                      *)
HookSets ==
  {h \in SUBSET {"reply", "request", "identity", "writer"} :
     "identity" \in h \/ "writer" \in h => "request" \in h}

FuseInit ==
  /\ hooks \in HookSets
  /\ now = 0
  /\ task = [t \in Tasks |-> "idle"]
  /\ lookup = [t \in Tasks |-> None]
  /\ queue = {}
  /\ worker = [w \in Workers |-> "user"]
  /\ serving = [w \in Workers |-> None]
  /\ pendingRead = {}
  /\ active = Empty
  /\ writers = Empty
  /\ identities = Empty
  /\ origins = Empty
  /\ lastWrite = [n \in Nodes |-> [p \in Processes |-> Never]]
  /\ contended = {}
  /\ unseen = {}

-----------------------------------------------------------------------------
(* The maps                                                                *)

Without(f, K) == [x \in DOMAIN f \ K |-> f[x]]
With(f, k, v) == [x \in DOMAIN f \cup {k} |-> IF x = k THEN v ELSE f[x]]

(* What BPF_ANY may leave of an LRU map: a new key may evict others.       *)
LruResults(f, k, v) ==
  {With(Without(f, E), k, v) :
     E \in {X \in SUBSET (DOMAIN f \ {k}) :
              X # {} => k \notin DOMAIN f /\ Cardinality(DOMAIN f) >= LruFloor}}

-----------------------------------------------------------------------------
(* Tasks                                                                   *)

Tick ==
  /\ now < MaxTime
  /\ now' = now + 1
  /\ UNCHANGED <<hooks, task, lookup, queue, workerVars, pendingRead, active,
                 writers, identities, origins, lastWrite, contended, unseen>>

(* A synchronous request is queued before its task waits for the answer.   *)
Ask(t) ==
  /\ task[t] = "idle"
  /\ task' = [task EXCEPT ![t] = "sent"]
  /\ queue' = queue \cup {t}
  /\ UNCHANGED <<hooks, now, workerVars, pendingRead, active, writerVars,
                 identities, origins, unseen>>

(* request_wait_answer: remember_fuse_identity, under the header's pid.    *)
WaitAnswer(t) ==
  /\ task[t] \in {"sent", "answered"}
  /\ task' = [task EXCEPT ![t] = IF @ = "sent" THEN "waiting" ELSE "idle"]
  /\ IF "identity" \in hooks
     THEN identities' \in LruResults(identities, HeaderPid[t], t)
     ELSE UNCHANGED identities
  /\ UNCHANGED <<hooks, now, queue, workerVars, pendingRead, active, writerVars,
                 origins, unseen>>

(* The kernel answers, or aborts, what a worker had taken.                 *)
Answer(r) ==
  task' = IF r \in Tasks
          THEN [task EXCEPT ![r] = IF @ = "sent" THEN "answered" ELSE "idle"]
          ELSE task

(* remember_fuse_writer, first half: on entry of fuse_file_write_iter,     *)
(* before the kernel locks the inode.                                      *)
LookupWriter(t, n) ==
  /\ "writer" \in hooks
  /\ task[t] = "idle"
  /\ task' = [task EXCEPT ![t] = "writing"]
  /\ lookup' = [lookup EXCEPT ![t] =
       [node |-> n, time |-> now,
        previous |-> IF n \in DOMAIN writers THEN writers[n] ELSE None]]
  /\ contended' = IF \E u \in Tasks : task[u] = "writing" /\ lookup[u].node = n
                  THEN contended \cup {n} ELSE contended
  /\ UNCHANGED <<hooks, now, queue, workerVars, pendingRead, active, writers,
                 identities, origins, lastWrite, unseen>>

(* Fault: a process that writes on is taken for the only writer.           *)
NextWriterForgets(t, l) ==
  [task |-> t, seen |-> l.time,
   ambiguous |->
     IF l.previous # None /\ l.time - l.previous.seen <= MaxAge
        /\ ProcessOf[l.previous.task] # ProcessOf[t]
     THEN l.time + MaxAge ELSE 0]

NextWriter(t, l) ==
  [task |-> t, seen |-> l.time,
   ambiguous |->
     IF l.previous = None \/ l.time - l.previous.seen > MaxAge THEN 0
     ELSE IF ProcessOf[l.previous.task] # ProcessOf[t] THEN l.time + MaxAge
     ELSE l.previous.ambiguous]

(* remember_fuse_writer, second half.                                      *)
RememberWriter(t) ==
  /\ task[t] = "writing"
  /\ writers' \in LruResults(writers, lookup[t].node, NextWriter(t, lookup[t]))
  /\ lastWrite' = [lastWrite EXCEPT ![lookup[t].node][ProcessOf[t]] = lookup[t].time]
  /\ task' = [task EXCEPT ![t] = "idle"]
  /\ lookup' = [lookup EXCEPT ![t] = None]
  /\ UNCHANGED <<hooks, now, queue, workerVars, pendingRead, active, identities,
                 origins, contended, unseen>>

(* The kernel writes a dirty node back, or sends a request of its own.     *)
Submit(r) ==
  /\ r \notin queue
  /\ \A w \in Workers : serving[w] # r
  /\ queue' = queue \cup {r}
  /\ UNCHANGED <<hooks, now, task, workerVars, pendingRead, active, writerVars,
                 identities, origins, unseen>>

-----------------------------------------------------------------------------
(* Workers                                                                 *)

(* A logical writer that is recent and unambiguous.                        *)
Joinable(n) ==
  /\ n \in DOMAIN writers
  /\ now - writers[n].seen <= MaxAge
  /\ writers[n].ambiguous <= now

(* begin_fuse_request; "inKernel" when the program has the fuse_req.       *)
Origin(r, inKernel) ==
  IF r \in Tasks THEN [kind |-> "protocol", origin |-> HeaderPid[r]]
  ELSE IF r \in Nodes /\ inKernel /\ Joinable(r)
  THEN [kind |-> "writeback", origin |-> writers[r].task]
  ELSE [kind |-> "pidZero", origin |-> None]

(* Fault: BPF_NOEXIST.                                                     *)
BeginRequestOnce(w, r, inKernel) ==
  active' = IF w \notin DOMAIN active /\ Cardinality(DOMAIN active) < ActiveRoom
            THEN With(active, w, Origin(r, inKernel)) ELSE active

(* BPF_ANY update of a hash map that may be full.                          *)
BeginRequest(w, r, inKernel) ==
  active' = IF w \in DOMAIN active \/ Cardinality(DOMAIN active) < ActiveRoom
            THEN With(active, w, Origin(r, inKernel)) ELSE active

(* Fault: the previous request is left to the reply programs.              *)
BeginFuseReadKeeps(w) ==
  /\ pendingRead' = pendingRead \cup {w}
  /\ UNCHANGED active

(* begin_fuse_read                                                         *)
BeginFuseRead(w) ==
  /\ active' = Without(active, {w})
  /\ pendingRead' = pendingRead \cup {w}

(* read(2) of /dev/fuse.                                                   *)
Read(w) ==
  /\ worker[w] = "user"
  /\ serving[w] = None
  /\ worker' = [worker EXCEPT ![w] = "reading"]
  /\ BeginFuseRead(w)
  /\ unseen' = unseen \ {w}
  /\ UNCHANGED <<hooks, now, taskVars, serving, writers, identities, origins,
                 lastWrite, contended>>

(* splice(2) from /dev/fuse, which runs no read program.                   *)
Splice(w) ==
  /\ worker[w] = "user"
  /\ serving[w] = None
  /\ worker' = [worker EXCEPT ![w] = "splicing"]
  /\ UNCHANGED <<hooks, now, taskVars, serving, pendingRead, active, writers,
                 identities, origins, lastWrite, contended, unseen>>

(* The kernel has selected a request: fuse_copy_args.                      *)
SelectRequest(w, r) ==
  /\ worker[w] \in {"reading", "splicing"}
  /\ serving[w] = None
  /\ r \in queue
  /\ queue' = queue \ {r}
  /\ serving' = [serving EXCEPT ![w] = r]
  /\ IF "request" \in hooks THEN BeginRequest(w, r, TRUE) ELSE UNCHANGED active
  /\ UNCHANGED <<hooks, now, task, worker, pendingRead, writerVars, identities,
                 origins, unseen>>

(* kretprobe of vfs_read: decodes the request's header a second time,      *)
(* unless the daemon's buffer cannot be read.                              *)
ReadReturn(w, readable) ==
  /\ worker[w] = "reading"
  /\ serving[w] # None
  /\ worker' = [worker EXCEPT ![w] = "user"]
  /\ pendingRead' = pendingRead \ {w}
  /\ IF readable THEN BeginRequest(w, serving[w], FALSE) ELSE UNCHANGED active
  /\ UNCHANGED <<hooks, now, taskVars, serving, writers, identities, origins,
                 lastWrite, contended, unseen>>

SpliceReturn(w) ==
  /\ worker[w] = "splicing"
  /\ serving[w] # None
  /\ worker' = [worker EXCEPT ![w] = "user"]
  /\ UNCHANGED <<hooks, now, taskVars, serving, pendingRead, active, writers,
                 identities, origins, lastWrite, contended, unseen>>

(* The read or splice ends without a request, or with a copy error that    *)
(* ends the request it had selected.                                       *)
TakeFails(w) ==
  /\ worker[w] \in {"reading", "splicing"}
  /\ worker' = [worker EXCEPT ![w] = "user"]
  /\ pendingRead' = pendingRead \ {w}
  /\ serving' = [serving EXCEPT ![w] = None]
  /\ Answer(serving[w])
  /\ unseen' = IF serving[w] = None THEN unseen ELSE unseen \cup {w}
  /\ UNCHANGED <<hooks, now, queue, active, writerVars, identities, origins>>

(* finish_fuse_reply: on vfs_write, or on fuse_dev_write for a writev.     *)
Reply(w) ==
  /\ worker[w] = "user"
  /\ serving[w] # None
  /\ serving' = [serving EXCEPT ![w] = None]
  /\ Answer(serving[w])
  /\ active' = Without(active, {w})
  /\ UNCHANGED <<hooks, now, queue, worker, pendingRead, writerVars, identities,
                 origins, unseen>>

(* The worker replies by splice, or by writev without the reply program,   *)
(* or it dies and its thread id is used again.                             *)
EndUnseen(w) ==
  /\ worker[w] = "user"
  /\ serving[w] # None
  /\ serving' = [serving EXCEPT ![w] = None]
  /\ Answer(serving[w])
  /\ unseen' = unseen \cup {w}
  /\ UNCHANGED <<hooks, now, queue, worker, pendingRead, active, writerVars,
                 identities, origins>>

-----------------------------------------------------------------------------
(* Operations                                                              *)

(* Operations that the programs keep apart from the daemon's own.          *)
Delegated(w) == w \in DOMAIN active /\ active[w].kind # "pidZero"

(* record_vfs_file: the identity that goes with the worker's request, its  *)
(* logical writer or whoever last waited with the header's pid.            *)
Identity(w) ==
  IF active[w].kind = "writeback" THEN active[w].origin
  ELSE IF active[w].origin \in DOMAIN identities THEN identities[active[w].origin]
  ELSE None

(* The origin part of the key; file and daemon are the same for all.       *)
Key(w) ==
  [kind |-> active[w].kind,
   pid |-> IF Identity(w) # None THEN HostPid[Identity(w)] ELSE active[w].origin]

(* The origin that goes with the operation: the entry's if its key has one *)
(* already, which is never written again, and else that of its request.    *)
Charged(w) == IF Key(w) \in DOMAIN origins THEN origins[Key(w)].who ELSE Identity(w)

(* read_vfs_counts charges a known identity's process, an unknown          *)
(* requester by its bare pid, and a writer nobody knows to the daemon.     *)
ChargedTo(w) ==
  IF ~Delegated(w) THEN Daemon
  ELSE IF Charged(w) # None THEN ProcessOf[Charged(w)]
  ELSE Key(w).pid

(* With room for every key, an LRU map of identities evicts nothing.       *)
IdentitiesKept == Cardinality(HeaderPids) <= LruFloor

(* The requester of the worker's request surely is known: it waits, with   *)
(* the programs attached, and neither map has been full.                   *)
SurelyKnown(w) ==
  /\ {"request", "identity"} \subseteq hooks
  /\ serving[w] \in Tasks
  /\ task[serving[w]] = "waiting"
  /\ w \in DOMAIN active \/ Cardinality(Workers) <= ActiveRoom
  /\ HeaderPid[serving[w]] \in DOMAIN identities \/ IdentitiesKept

(* An operation whose key has no entry inserts one, with its origin; of    *)
(* entries "early" is a history: made before the requester surely was      *)
(* known.  An operation that finds its key, or a full table, leaves them.  *)
Record(w) ==
  /\ worker[w] = "user"
  /\ Delegated(w)
  /\ Key(w) \notin DOMAIN origins
  /\ origins' = With(origins, Key(w), [who |-> Identity(w), early |-> ~SurelyKnown(w)])
  /\ UNCHANGED <<hooks, now, taskVars, workerVars, pendingRead, active,
                 writerVars, identities, unseen>>

(* The collector takes an entry from the table.                            *)
DrainOrigin(k) ==
  /\ k \in DOMAIN origins
  /\ origins' = Without(origins, {k})
  /\ UNCHANGED <<hooks, now, taskVars, workerVars, pendingRead, active,
                 writerVars, identities, unseen>>

-----------------------------------------------------------------------------
Task(t) ==
  \/ Ask(t)
  \/ WaitAnswer(t)
  \/ \E n \in Nodes : LookupWriter(t, n)
  \/ RememberWriter(t)

Worker(w) ==
  \/ Read(w)
  \/ Splice(w)
  \/ \E r \in Requests : SelectRequest(w, r)
  \/ \E readable \in BOOLEAN : ReadReturn(w, readable)
  \/ SpliceReturn(w)
  \/ TakeFails(w)
  \/ Reply(w)
  \/ EndUnseen(w)
  \/ Record(w)

FuseNext ==
  \/ Tick
  \/ \E t \in Tasks : Task(t)
  \/ \E r \in Nodes \cup Background : Submit(r)
  \/ \E w \in Workers : Worker(w)
  \/ \E k \in DOMAIN origins : DrainOrigin(k)

FuseSpec == FuseInit /\ [][FuseNext]_fuseVars

-----------------------------------------------------------------------------
(* Types                                                                   *)

Origins == [kind : {"protocol"}, origin : HeaderPids]
           \cup [kind : {"writeback"}, origin : Tasks]
           \cup [kind : {"pidZero"}, origin : {None}]
OriginKeys == [kind : {"protocol", "writeback"}, pid : Pids]

(* A request is queued, with one worker, or nowhere.                       *)
RequestsOK ==
  /\ queue \subseteq Requests
  /\ serving \in [Workers -> Requests \cup {None}]
  /\ \A w \in Workers : serving[w] # None =>
       /\ serving[w] \notin queue
       /\ \A v \in Workers \ {w} : serving[v] # serving[w]

TasksOK ==
  /\ task \in [Tasks -> {"idle", "sent", "waiting", "answered", "writing"}]
  /\ DOMAIN lookup = Tasks
  /\ \A t \in Tasks : t \in queue \/ (\E w \in Workers : serving[w] = t)
                        <=> task[t] \in {"sent", "waiting"}
  /\ \A t \in Tasks : task[t] = "writing" => lookup[t] \in Lookup

MapsOK ==
  /\ DOMAIN active \subseteq Workers
  /\ \A w \in DOMAIN active : active[w] \in Origins
  /\ DOMAIN writers \subseteq Nodes
  /\ \A n \in DOMAIN writers : writers[n] \in Writer
  /\ DOMAIN identities \subseteq HeaderPids
  /\ \A p \in DOMAIN identities :
       identities[p] \in Tasks /\ HeaderPid[identities[p]] = p

(* An entry carries the identity of the pid in its key, or none, under a   *)
(* header's pid.                                                           *)
OriginsOK ==
  /\ DOMAIN origins \subseteq OriginKeys
  /\ \A k \in DOMAIN origins :
       \/ origins[k].who \in Tasks /\ k.pid = HostPid[origins[k].who]
       \/ origins[k].who = None /\ k.pid \in HeaderPids

(* Every variable always holds a value of its type: requests are where     *)
(* their tasks think, a task that writes has looked its node up, and only  *)
(* a worker inside a /dev/fuse read has a read pending.                    *)
FuseTypeOK ==
  /\ hooks \in HookSets
  /\ now \in 0..MaxTime
  /\ RequestsOK
  /\ TasksOK
  /\ worker \in [Workers -> {"user", "reading", "splicing"}]
  /\ pendingRead = {w \in Workers : worker[w] = "reading"}
  /\ MapsOK
  /\ OriginsOK
  /\ lastWrite \in [Nodes -> [Processes -> Never..MaxTime]]
  /\ contended \subseteq Nodes
  /\ unseen \subseteq Workers

-----------------------------------------------------------------------------
(* Inductive invariants                                                    *)

(* The pid in a task's requests is no other task's, in either namespace;   *)
(* the LRU map of the writers never has to evict.                          *)
PidsApart ==
  \A t, u \in Tasks : HeaderPid[t] \in {HeaderPid[u], HostPid[u]} => t = u
WritersKept == Cardinality(Nodes) <= LruFloor

(* A worker's entry of ACTIVE_FUSE_REQUESTS is of the request it has, if   *)
(* the last one ended where a program looked or the request program runs.  *)
OfRequest(w) == active[w] = [kind |-> "protocol", origin |-> HeaderPid[serving[w]]]
ActiveIsServed ==
  \A w \in Workers :
    /\ serving[w] = None /\ w \notin unseen => w \notin DOMAIN active
    /\ serving[w] \in Tasks /\ w \in DOMAIN active /\ w \notin unseen => OfRequest(w)
    /\ serving[w] \in Tasks /\ "request" \in hooks =>
         /\ w \in DOMAIN active => OfRequest(w)
         /\ Cardinality(Workers) <= ActiveRoom => w \in DOMAIN active

(* A task that waits is known by the pid its request carries.              *)
WaitingIsKnown ==
  "identity" \in hooks /\ IdentitiesKept =>
    \A t \in Tasks : task[t] = "waiting" => HeaderPid[t] \in DOMAIN identities

(* Only an early entry carries no identity.                                *)
NamelessIsEarly ==
  \A k \in DOMAIN origins : origins[k].who = None => origins[k].early

(* On a node no two tasks wrote at once: what a writer program looked up   *)
(* is still what the map holds, and the entry is the last write; a write   *)
(* of another process is older than the window by then or made the entry   *)
(* ambiguous for as long.                                                  *)
LookupIsFresh(n) ==
  \A t \in Tasks : task[t] = "writing" /\ lookup[t].node = n =>
    /\ lookup[t].time <= now
    /\ lookup[t].previous = IF n \in DOMAIN writers THEN writers[n] ELSE None
    /\ n \in DOMAIN writers => writers[n].seen <= lookup[t].time
    /\ \A u \in Tasks \ {t} : task[u] = "writing" => lookup[u].node # n

EntryIsLast(n) ==
  /\ n \notin DOMAIN writers => \A p \in Processes : lastWrite[n][p] = Never
  /\ n \in DOMAIN writers =>
       /\ writers[n].seen <= now
       /\ lastWrite[n][ProcessOf[writers[n].task]] = writers[n].seen
       /\ \A p \in Processes : lastWrite[n][p] <= writers[n].seen
       /\ \A p \in Processes \ {ProcessOf[writers[n].task]} :
            \/ lastWrite[n][p] + MaxAge < writers[n].seen
            \/ lastWrite[n][p] + MaxAge <= writers[n].ambiguous

WritersInv ==
  WritersKept => \A n \in Nodes \ contended : LookupIsFresh(n) /\ EntryIsLast(n)

-----------------------------------------------------------------------------
(* Safety                                                                  *)

(* What a worker does for a synchronous request is never charged to a      *)
(* process other than its requester: at worst to the requester's bare pid  *)
(* or to the daemon.  Once the requester surely is known it is charged to  *)
(* the requester, unless it still finds an entry made before that.         *)
Attributed(w) ==
  serving[w] \in Tasks /\ worker[w] = "user" =>
    LET p == ProcessOf[serving[w]] IN
    /\ w \notin unseen =>
         ChargedTo(w) \in {p, HeaderPid[serving[w]], Daemon}
    /\ SurelyKnown(w) /\ (Key(w) \in DOMAIN origins => ~origins[Key(w)].early) =>
         ChargedTo(w) = p

(* RequesterCharged is promised to tasks whose pids cannot be mistaken.    *)
RequesterCharged == PidsApart => \A w \in Workers : Attributed(w)

(* "the header PID can be mapped to the real host process even across PID  *)
(* namespaces" (vfs_activity.bpf.c:742-743): the same for any tasks.       *)
RequesterChargedAcrossNamespaces == \A w \in Workers : Attributed(w)

(* What a worker does for no request is its daemon's own, unless its last  *)
(* request ended where no program looked and it has not read /dev/fuse     *)
(* since.                                                                  *)
OwnWork ==
  \A w \in Workers :
    worker[w] = "user" /\ serving[w] = None /\ w \notin unseen => ChargedTo(w) = Daemon

(* A logical writer is known for n, and no other process wrote n less than *)
(* MaxAge ago.                                                             *)
SoleWriter(n, t) ==
  /\ now - lastWrite[n][ProcessOf[t]] <= MaxAge
  /\ \A p \in Processes \ {ProcessOf[t]} : now - lastWrite[n][p] >= MaxAge

(* The worker's operations begin to be charged to a logical writer.        *)
JoinsWriter(w) ==
  /\ w \in DOMAIN active'
  /\ active'[w].kind = "writeback"
  /\ w \notin DOMAIN active \/ active'[w] # active[w]

(* Writeback is charged to a process only if that process alone has        *)
(* written the node in the last MaxAge, provided no two tasks ever wrote   *)
(* the node at once and no entry had to be evicted.                        *)
WritebackNeverGuessed ==
  [][WritersKept =>
       \A w \in Workers : JoinsWriter(w) /\ serving'[w] \notin contended =>
         SoleWriter(serving'[w], active'[w].origin)]_fuseVars

(* "A different process writing the same node suppresses attribution for   *)
(* 60 seconds rather than guessing" (ebpf/README.md:63-65): the same with  *)
(* tasks that write at once.                                               *)
ConflictsSuppress ==
  [][WritersKept =>
       \A w \in Workers : JoinsWriter(w) =>
         SoleWriter(serving'[w], active'[w].origin)]_fuseVars

(* "A /dev/fuse read-return probe provides a compatibility fallback"       *)
(* (ebpf/README.md:55-56): it does not undo what the request program found *)
(* for the request the worker still has.                                   *)
JoinKept ==
  [][\A w \in Workers :
       /\ w \in DOMAIN active /\ active[w].kind = "writeback"
       /\ serving[w] # None /\ serving'[w] = serving[w]
       => w \in DOMAIN active' /\ active'[w] = active[w]]_fuseVars
=============================================================================
