--------------------------- MODULE VfsCallsProofs ---------------------------
(***************************************************************************)
(* What VfsCalls guarantees for any tasks, files and nesting of calls.     *)
(***************************************************************************)
EXTENDS VfsCalls, SequenceTheorems, TLAPS

Steps == {"entered", "resolving", "permitted"}

-----------------------------------------------------------------------------
(* Types                                                                   *)

(* The number of programs attached decides which probes run.               *)
LEMMA AttachedUpTo ==
  ASSUME attached \in 0..Len(Order)
  PROVE  /\ Len(Order) = 8
         /\ IsAttached("scalar", "read", "entry") <=> attached >= 1
         /\ IsAttached("scalar", "write", "entry") <=> attached >= 2
         /\ IsAttached("scalar", "read", "return") <=> attached >= 3
         /\ IsAttached("scalar", "write", "return") <=> attached >= 4
         /\ IsAttached("iter", "read", "entry") <=> attached >= 5
         /\ IsAttached("iter", "write", "entry") <=> attached >= 6
         /\ IsAttached("iter", "read", "return") <=> attached >= 7
         /\ IsAttached("iter", "write", "return") <=> attached >= 8
<1>1. Len(Order) = 8
  BY DEF Order
<1>2. /\ Order[1] = <<"scalar", "read", "entry">>
      /\ Order[2] = <<"scalar", "write", "entry">>
      /\ Order[3] = <<"scalar", "read", "return">>
      /\ Order[4] = <<"scalar", "write", "return">>
      /\ Order[5] = <<"iter", "read", "entry">>
      /\ Order[6] = <<"iter", "write", "entry">>
      /\ Order[7] = <<"iter", "read", "return">>
      /\ Order[8] = <<"iter", "write", "return">>
  BY DEF Order
<1>3. ASSUME NEW kind, NEW direction, NEW end, NEW n \in 1..8,
             Order[n] = <<kind, direction, end>>,
             \A i \in 1..8 : Order[i] = <<kind, direction, end>> => i = n
      PROVE  IsAttached(kind, direction, end) <=> attached >= n
  BY <1>1, <1>3 DEF IsAttached
<1>4. IsAttached("scalar", "read", "entry") <=> attached >= 1
  BY <1>2, <1>3
<1>5. IsAttached("scalar", "write", "entry") <=> attached >= 2
  BY <1>2, <1>3
<1>6. IsAttached("scalar", "read", "return") <=> attached >= 3
  BY <1>2, <1>3
<1>7. IsAttached("scalar", "write", "return") <=> attached >= 4
  BY <1>2, <1>3
<1>8. IsAttached("iter", "read", "entry") <=> attached >= 5
  BY <1>2, <1>3
<1>9. IsAttached("iter", "write", "entry") <=> attached >= 6
  BY <1>2, <1>3
<1>10. IsAttached("iter", "read", "return") <=> attached >= 7
  BY <1>2, <1>3
<1>11. IsAttached("iter", "write", "return") <=> attached >= 8
  BY <1>2, <1>3
<1> QED BY <1>1, <1>4, <1>5, <1>6, <1>7, <1>8, <1>9, <1>10, <1>11

(* Where the return of a kind and direction is attached, so are the        *)
(* entries of that kind and the return of reads.                           *)
LEMMA ReturnsLast ==
  ASSUME attached \in 0..Len(Order), NEW kind \in Kinds, NEW direction \in Directions,
         IsAttached(kind, direction, "return")
  PROVE  /\ \A x \in Directions : IsAttached(kind, x, "entry")
         /\ IsAttached(kind, "read", "return")
BY AttachedUpTo DEF Kinds, Directions

(* A call is added to the stack of its task.                               *)
NewCall(kind, f, direction, t) ==
  LET probed == IsAttached(kind, direction, "return") IN
  [kind |-> kind, file |-> f, direction |-> direction, step |-> "entered",
   probed |-> probed,
   owed |-> (IsAttached(kind, direction, "entry") /\ HasRoom(kind, t)) /\ probed]

LEMMA Pushed ==
  ASSUME TypeOK, NEW t \in Tasks, NEW kind \in Kinds, NEW f \in Files,
         NEW direction \in Directions, Enter(t, kind, f, direction)
  PROVE  LET n == Len(calls[t]) IN
         /\ n \in Nat
         /\ calls' \in [Tasks -> Seq(Call)]
         /\ \A u \in Tasks \ {t} : calls'[u] = calls[u]
         /\ Len(calls'[t]) = n + 1
         /\ NewCall(kind, f, direction, t) \in Call
         /\ calls'[t][n + 1] = NewCall(kind, f, direction, t)
         /\ \A i \in 1..n : calls'[t][i] = IF IsAttached(kind, direction, "entry")
                                           THEN Replaced(calls[t][i], kind)
                                           ELSE calls[t][i]
<1> DEFINE s == calls[t]
           call == NewCall(kind, f, direction, t)
           outer == IF IsAttached(kind, direction, "entry")
                    THEN [i \in DOMAIN s |-> Replaced(s[i], kind)] ELSE s
<1>1. s \in Seq(Call) /\ Len(s) \in Nat /\ DOMAIN s = 1..Len(s)
  BY DEF TypeOK
<1>2. call \in Call
  BY DEF Call, NewCall, IsAttached, HasRoom, Steps
<1>3. \A i \in 1..Len(s) : s[i] \in Call /\ Replaced(s[i], kind) \in Call
  <2>1. \A i \in 1..Len(s) : s[i] \in Call
    BY <1>1
  <2>2. \A c \in Call : Replaced(c, kind) \in Call
    BY DEF Replaced, Call
  <2> QED BY <2>1, <2>2
<1>4. outer \in Seq(Call) /\ Len(outer) = Len(s)
  <2>1. CASE IsAttached(kind, direction, "entry")
    <3> DEFINE g == [i \in 1..Len(s) |-> Replaced(s[i], kind)]
    <3>1. \A i \in 1..Len(s) : g[i] \in Call
      BY <1>3
    <3>2. DOMAIN g = 1..Len(s) /\ g \in [1..Len(s) -> Call]
      BY <3>1
    <3>3. g \in Seq(Call) /\ Len(g) = Len(s)
      <4> HIDE DEF g
      <4> QED BY <3>2, <1>1
    <3> QED BY <2>1, <3>3, <1>1
  <2> QED BY <2>1, <1>1
<1>5. calls' = [calls EXCEPT ![t] = Append(outer, call)]
  BY DEF Enter, NewCall
<1>6. Append(outer, call) \in Seq(Call)
      /\ Len(Append(outer, call)) = Len(s) + 1
      /\ Append(outer, call)[Len(s) + 1] = call
      /\ \A i \in 1..Len(s) : Append(outer, call)[i] = outer[i]
  <2> HIDE DEF outer, call
  <2> QED BY <1>1, <1>2, <1>4, AppendProperties
<1>7. calls \in [Tasks -> Seq(Call)]
  BY DEF TypeOK
<1>8. calls'[t] = Append(outer, call)
  BY <1>5, <1>7
<1>9. \A i \in 1..Len(s) : calls'[t][i] = outer[i]
  BY <1>6, <1>8
<1>10. \A i \in 1..Len(s) : outer[i] = IF IsAttached(kind, direction, "entry")
                                       THEN Replaced(s[i], kind) ELSE s[i]
  BY <1>1
<1>11. calls' \in [Tasks -> Seq(Call)] /\ \A u \in Tasks \ {t} : calls'[u] = calls[u]
  <2> HIDE DEF outer, call
  <2> QED BY <1>5, <1>6, <1>7
<1> QED BY <1>1, <1>2, <1>6, <1>8, <1>9, <1>10, <1>11

(* A step of the innermost call changes nothing else of the stack.         *)
LEMMA Proceeds ==
  ASSUME TypeOK, NEW t \in Tasks, calls[t] # <<>>, NEW step \in Steps, Proceed(t, step)
  PROVE  LET n == Len(calls[t]) IN
         /\ n \in Nat /\ n > 0
         /\ calls' \in [Tasks -> Seq(Call)]
         /\ \A u \in Tasks \ {t} : calls'[u] = calls[u]
         /\ Len(calls'[t]) = n
         /\ \A i \in 1..n : calls'[t][i] = IF i = n THEN [calls[t][i] EXCEPT !.step = step]
                                           ELSE calls[t][i]
<1> DEFINE s == calls[t]  n == Len(s)  c == [s[n] EXCEPT !.step = step]
<1>1. s \in Seq(Call) /\ n \in Nat /\ n > 0 /\ calls \in [Tasks -> Seq(Call)]
  BY EmptySeq DEF TypeOK
<1>2. s[n] \in Call
  BY <1>1
<1>3. c \in Call
  BY <1>2 DEF Call, Steps
<1>4. calls' = [calls EXCEPT ![t] = [s EXCEPT ![n] = c]]
  BY DEF Proceed
<1>5. [s EXCEPT ![n] = c] \in Seq(Call) /\ Len([s EXCEPT ![n] = c]) = n
      /\ \A i \in 1..n : [s EXCEPT ![n] = c][i] = IF i = n THEN c ELSE s[i]
  <2> HIDE DEF c
  <2> QED BY <1>1, <1>3, ExceptSeq
<1>6. calls'[t] = [s EXCEPT ![n] = c]
  BY <1>1, <1>4
<1>7. calls' \in [Tasks -> Seq(Call)] /\ \A u \in Tasks \ {t} : calls'[u] = calls[u]
  <2> HIDE DEF c
  <2> QED BY <1>1, <1>4, <1>5
<1> QED BY <1>1, <1>5, <1>6, <1>7

(* A return removes the innermost call.                                    *)
LEMMA Popped ==
  ASSUME TypeOK, NEW t \in Tasks, NEW transferred \in BOOLEAN, Return(t, transferred)
  PROVE  LET n == Len(calls[t]) IN
         /\ n \in Nat /\ n > 0
         /\ calls' \in [Tasks -> Seq(Call)]
         /\ \A u \in Tasks \ {t} : calls'[u] = calls[u]
         /\ Len(calls'[t]) = n - 1
         /\ \A i \in 1..(n - 1) : calls'[t][i] = calls[t][i]
<1> DEFINE s == calls[t]  n == Len(s)
<1>1. s \in Seq(Call) /\ n \in Nat /\ n > 0 /\ calls \in [Tasks -> Seq(Call)]
  BY EmptySeq DEF TypeOK, Return
<1>2. calls' = [calls EXCEPT ![t] = SubSeq(s, 1, n - 1)]
  BY DEF Return
<1>3. SubSeq(s, 1, n - 1) \in Seq(Call) /\ Len(SubSeq(s, 1, n - 1)) = n - 1
      /\ \A i \in 1..(n - 1) : SubSeq(s, 1, n - 1)[i] = s[i]
  <2>1. \A i \in 1..(n - 1) : s[i] \in Call
    BY <1>1
  <2>2. n - 1 \in Int /\ 1 \in Int
    BY <1>1
  <2>3. /\ SubSeq(s, 1, n - 1) \in Seq(Call)
        /\ Len(SubSeq(s, 1, n - 1)) = IF 1 <= n - 1 THEN (n - 1) - 1 + 1 ELSE 0
        /\ \A i \in 1..((n - 1) - 1 + 1) : SubSeq(s, 1, n - 1)[i] = s[1 + i - 1]
    BY <2>1, <2>2, SubSeqProperties
  <2> HIDE DEF n, s
  <2> QED BY <2>3, <1>1
<1> QED BY <1>1, <1>2, <1>3

(* Entries are added to a map, replaced and deleted within its type.       *)
LEMMA Maps ==
  ASSUME NEW D, NEW R, NEW f \in PartialFunctions(D, R)
  PROVE  /\ DOMAIN f \subseteq D
         /\ \A k \in DOMAIN f : f[k] \in R
         /\ \A k \in D, v \in R : With(f, k, v) \in PartialFunctions(D, R)
         /\ \A K : Without(f, K) \in PartialFunctions(D, R)
         /\ Empty \in PartialFunctions(D, R)
<1>1. PICK X \in SUBSET D : f \in [X -> R]
  BY DEF PartialFunctions
<1>2. ASSUME NEW k \in D, NEW v \in R PROVE With(f, k, v) \in PartialFunctions(D, R)
  <2>1. With(f, k, v) \in [X \cup {k} -> R]
    BY <1>1 DEF With
  <2> QED BY <2>1 DEF PartialFunctions
<1>3. ASSUME NEW K PROVE Without(f, K) \in PartialFunctions(D, R)
  <2>1. Without(f, K) \in [X \ K -> R]
    BY <1>1 DEF Without
  <2> QED BY <2>1 DEF PartialFunctions
<1>4. Empty \in PartialFunctions(D, R)
  <2>1. Empty \in [{} -> R]
    BY DEF Empty
  <2> QED BY <2>1 DEF PartialFunctions
<1> QED BY <1>1, <1>2, <1>3, <1>4

(* What a task and a file are keyed by.                                    *)
LEMMA KeyTypes ==
  ASSUME NEW t \in Tasks, NEW f \in Files
  PROVE  PathKey(t, f) \in Key /\ Row(t, f) \in Rows
BY TasksAssumption DEF PathKey, Row, Key, Rows

(* Every call of a task is a call.                                         *)
LEMMA CallTypes ==
  ASSUME TypeOK, NEW t \in Tasks, NEW i \in 1..Len(calls[t])
  PROVE  /\ calls[t][i] \in Call
         /\ calls[t][i].kind \in Kinds
         /\ calls[t][i].file \in Files
         /\ calls[t][i].direction \in Directions
         /\ calls[t][i].step \in Steps
         /\ calls[t][i].probed \in BOOLEAN
         /\ calls[t][i].owed \in BOOLEAN
<1>1. calls[t] \in Seq(Call)
  BY DEF TypeOK
<1>2. calls[t][i] \in Call
  BY <1>1
<1> QED BY <1>2 DEF Call, Steps

(* The innermost call is one of its task's calls.                          *)
LEMMA InnermostCall ==
  ASSUME TypeOK, NEW t \in Tasks, calls[t] # <<>>
  PROVE  Len(calls[t]) \in Nat /\ Len(calls[t]) > 0 /\ Innermost(t) \in Call
<1>1. calls[t] \in Seq(Call) /\ Len(calls[t]) \in Nat /\ Len(calls[t]) > 0
  BY EmptySeq DEF TypeOK
<1> QED BY <1>1 DEF Innermost

(* A task that has an entry has it in the map of its call.                 *)
LEMMA TakenType ==
  ASSUME TypeOK, NEW t \in Tasks, NEW call \in Call
  PROVE  /\ Taken(call, t) \in Entry \cup {None}
         /\ Complete(call, t) \in [Kinds -> PartialFunctions(Tasks, Entry)]
         /\ \A transferred \in BOOLEAN :
              Recorded(call, t, transferred) \in Entry \cup {None}
<1>1. call.kind \in Kinds /\ pending[call.kind] \in PartialFunctions(Tasks, Entry)
  BY DEF TypeOK, Call
<1>2. /\ \A k \in DOMAIN pending[call.kind] : pending[call.kind][k] \in Entry
      /\ Without(pending[call.kind], {t}) \in PartialFunctions(Tasks, Entry)
  BY <1>1, Maps
<1>3. Taken(call, t) \in Entry \cup {None}
  BY <1>2 DEF Taken
<1>4. Complete(call, t) \in [Kinds -> PartialFunctions(Tasks, Entry)]
  BY <1>1, <1>2 DEF Complete, TypeOK
<1>5. ASSUME NEW transferred \in BOOLEAN
      PROVE  Recorded(call, t, transferred) \in Entry \cup {None}
  BY <1>3 DEF Recorded
<1> QED BY <1>3, <1>4, <1>5

(* Every variable of a call, of its path and of a drain has its type.      *)
THEOREM CallsTypeCorrect == Spec => []TypeOK
<1>1. Init => TypeOK
  <2> SUFFICES ASSUME Init PROVE TypeOK
    OBVIOUS
  <2>1. Empty \in PartialFunctions(Tasks, Entry)
        /\ Empty \in PartialFunctions(Key, Names \cup {Unresolved})
    <3>1. \A D, R : [k \in {} |-> None] \in [{} -> R] /\ {} \in SUBSET D
      OBVIOUS
    <3> QED BY <3>1 DEF PartialFunctions, Empty
  <2>2. calls \in [Tasks -> Seq(Call)]
    BY EmptySeq DEF Init
  <2>3. attached \in 0..Len(Order)
    BY DEF Init, Order
  <2> QED BY <2>1, <2>2, <2>3 DEF Init, TypeOK
<1>2. TypeOK /\ [Next]_vars => TypeOK'
  <2> SUFFICES ASSUME TypeOK, [Next]_vars PROVE TypeOK'
    OBVIOUS
  <2>1. CASE Loading
    <3>0. Empty \in PartialFunctions(Tasks, Entry)
      BY Maps DEF TypeOK, Kinds
    <3>1. CASE Attach
      BY <3>1, AttachedUpTo DEF Attach, TypeOK
    <3>2. CASE AttachFails
      BY <3>0, <3>2, AttachedUpTo DEF AttachFails, TypeOK
    <3>3. CASE AttachPath
      BY <3>3 DEF AttachPath, TypeOK
    <3> QED BY <2>1, <3>1, <3>2, <3>3 DEF Loading
  <2>2. CASE Collector
    <3>1. CASE BeginDrain
      BY <3>1 DEF BeginDrain, TypeOK
    <3>2. CASE LookupPath
      BY <3>2 DEF LookupPath, TypeOK
    <3>3. CASE LookupFails
      BY <3>3 DEF LookupFails, TypeOK
    <3> QED BY <2>2, <3>1, <3>2, <3>3 DEF Collector
  <2>3. ASSUME NEW t \in Tasks, Task(t) PROVE TypeOK'
    <3>1. ASSUME NEW kind \in Kinds, NEW f \in Files, NEW direction \in Directions,
                 Enter(t, kind, f, direction)
          PROVE  TypeOK'
      <4>1. calls' \in [Tasks -> Seq(Call)]
        BY <3>1, Pushed
      <4>2. pending' \in [Kinds -> PartialFunctions(Tasks, Entry)]
        <5>1. [file |-> f, direction |-> direction] \in Entry
          BY DEF Entry
        <5>2. pending[kind] \in PartialFunctions(Tasks, Entry)
          BY DEF TypeOK
        <5>3. With(pending[kind], t, [file |-> f, direction |-> direction])
                \in PartialFunctions(Tasks, Entry)
          BY <5>1, <5>2, Maps
        <5> QED BY <3>1, <5>3 DEF Enter, BeginPending, TypeOK
      <4> QED BY <3>1, <4>1, <4>2 DEF Enter, TypeOK
    <3>2. CASE PermitUnseen(t)
      <4>1. calls' \in [Tasks -> Seq(Call)]
        BY <3>2, Proceeds DEF PermitUnseen, Steps
      <4>2. Innermost(t).file \in Files
        BY <3>2, InnermostCall DEF PermitUnseen, Call
      <4> QED BY <3>2, <4>1, <4>2, KeyTypes DEF PermitUnseen, TypeOK
    <3>3. CASE PermitKnown(t)
      <4>1. calls' \in [Tasks -> Seq(Call)]
        BY <3>3, Proceeds DEF PermitKnown, Steps
      <4> QED BY <3>3, <4>1 DEF PermitKnown, TypeOK
    <3>4. CASE InsertSentinel(t)
      <4>1. calls' \in [Tasks -> Seq(Call)]
        BY <3>4, Proceeds DEF InsertSentinel, Steps
      <4>2. Innermost(t).file \in Files
        BY <3>4, InnermostCall DEF InsertSentinel, Call
      <4>3. PathKey(t, Innermost(t).file) \in Key
        BY <4>2, KeyTypes
      <4>4. PICK victims \in SUBSET DOMAIN paths :
              /\ paths' = With(Without(paths, victims), PathKey(t, Innermost(t).file), Unresolved)
              /\ lost' = (lost \cup victims) \ {PathKey(t, Innermost(t).file)}
        BY <3>4 DEF InsertSentinel
      <4>5. paths \in PartialFunctions(Key, Names \cup {Unresolved})
        BY DEF TypeOK
      <4>6. /\ Without(paths, victims) \in PartialFunctions(Key, Names \cup {Unresolved})
            /\ victims \in SUBSET Key
        BY <4>5, Maps
      <4>7. paths' \in PartialFunctions(Key, Names \cup {Unresolved})
        BY <4>3, <4>4, <4>6, Maps
      <4>8. lost' \in SUBSET Key
        BY <4>4, <4>6 DEF TypeOK
      <4> QED BY <3>4, <4>1, <4>7, <4>8 DEF InsertSentinel, TypeOK
    <3>5. CASE PublishPath(t)
      <4>1. calls' \in [Tasks -> Seq(Call)]
        BY <3>5, Proceeds DEF PublishPath, Steps
      <4>2. Innermost(t).file \in Files
        BY <3>5, InnermostCall DEF PublishPath, Call
      <4>3. PICK name \in PathsOf[Innermost(t).file][ProcessOf[t]] :
              paths' = Publish(PathKey(t, Innermost(t).file), name)
        BY <3>5 DEF PublishPath
      <4>4. name \in Names /\ PathKey(t, Innermost(t).file) \in Key
        BY <4>2, KeyTypes, FilesAssumption, TasksAssumption
      <4>5. paths \in PartialFunctions(Key, Names \cup {Unresolved})
        BY DEF TypeOK
      <4>6. paths' \in PartialFunctions(Key, Names \cup {Unresolved})
        BY <4>3, <4>4, <4>5, Maps DEF Publish
      <4> QED BY <3>5, <4>1, <4>6 DEF PublishPath, TypeOK
    <3>6. CASE PathFails(t)
      <4>1. calls' \in [Tasks -> Seq(Call)]
        BY <3>6, Proceeds DEF PathFails, Steps
      <4>2. Innermost(t).file \in Files
        BY <3>6, InnermostCall DEF PathFails, Call
      <4> QED BY <3>6, <4>1, <4>2, KeyTypes DEF PathFails, TypeOK
    <3>7. ASSUME NEW transferred \in BOOLEAN, Return(t, transferred) PROVE TypeOK'
      <4>1. calls' \in [Tasks -> Seq(Call)]
        BY <3>7, Popped
      <4>2. Innermost(t) \in Call
        BY <3>7, InnermostCall DEF Return
      <4>3. /\ pending' \in [Kinds -> PartialFunctions(Tasks, Entry)]
            /\ Recorded(Innermost(t), t, transferred) \in Entry \cup {None}
        BY <3>7, <4>2, TakenType DEF Return
      <4>4. agg' \in SUBSET Rows
        BY <3>7, <4>3, KeyTypes DEF Return, TypeOK, Entry
      <4> QED BY <3>7, <4>1, <4>3, <4>4 DEF Return, TypeOK
    <3> QED
      BY <2>3, <3>1, <3>2, <3>3, <3>4, <3>5, <3>6, <3>7 DEF Task
  <2>4. CASE UNCHANGED vars
    BY <2>4 DEF vars, TypeOK
  <2> QED
    BY <2>1, <2>2, <2>3, <2>4 DEF Next
<1> QED BY <1>1, <1>2, PTL DEF Spec

-----------------------------------------------------------------------------
(* A return records its own call                                           *)

(* A call whose return probe runs was entered with that probe attached.    *)
ProbedSince ==
  \A t \in Tasks : \A i \in 1..Len(calls[t]) :
    calls[t][i].probed =>
      IsAttached(calls[t][i].kind, calls[t][i].direction, "return")

(* Only a call whose return probe runs is owed a count.                    *)
OwedProbed ==
  \A t \in Tasks : \A i \in 1..Len(calls[t]) : calls[t][i].owed => calls[t][i].probed

(* A read only reads below.                                                *)
ReadsBelow ==
  \A t \in Tasks : \A i, j \in 1..Len(calls[t]) :
    i < j /\ calls[t][i].direction = "read" => calls[t][j].direction = "read"

(* Inside a call whose return probe runs, the probes of the calls of its   *)
(* kind run too, and the first of them has replaced its entry.             *)
InnerProbed ==
  \A t \in Tasks : \A i, j \in 1..Len(calls[t]) :
    i < j /\ calls[t][i].kind = calls[t][j].kind /\ calls[t][i].probed =>
      calls[t][j].probed /\ ~calls[t][i].owed

(* The innermost call of its kind has the entry of its task, if its return *)
(* probe runs and its entry found room; otherwise there is none.           *)
InnermostOfKind(t, i) ==
  \A j \in 1..Len(calls[t]) : j > i => calls[t][j].kind # calls[t][i].kind

HoldsOwn(t, call) ==
  IF call.owed
  THEN t \in DOMAIN pending[call.kind]
       /\ pending[call.kind][t] = [file |-> call.file, direction |-> call.direction]
  ELSE t \notin DOMAIN pending[call.kind]

OwnEntry ==
  \A t \in Tasks : \A i \in 1..Len(calls[t]) :
    calls[t][i].probed /\ InnermostOfKind(t, i) => HoldsOwn(t, calls[t][i])

CallInv ==
  path # "failed" => ProbedSince /\ OwedProbed /\ ReadsBelow /\ InnerProbed /\ OwnEntry

(* A step that changes neither what the calls are nor the maps, nor takes  *)
(* a probe away, keeps the invariant.                                      *)
LEMMA CallInvKept ==
  ASSUME TypeOK, CallInv, path # "failed",
         attached' \in 0..Len(Order), attached' >= attached,
         UNCHANGED pending,
         \A t \in Tasks :
           /\ Len(calls'[t]) = Len(calls[t])
           /\ \A i \in 1..Len(calls[t]) :
                /\ calls'[t][i].kind = calls[t][i].kind
                /\ calls'[t][i].file = calls[t][i].file
                /\ calls'[t][i].direction = calls[t][i].direction
                /\ calls'[t][i].probed = calls[t][i].probed
                /\ calls'[t][i].owed = calls[t][i].owed
  PROVE  CallInv'
<1>1. ProbedSince'
  <2>1. \A kind, direction : IsAttached(kind, direction, "return") =>
                               IsAttached(kind, direction, "return")'
    BY DEF IsAttached, TypeOK
  <2> QED BY <2>1 DEF CallInv, ProbedSince
<1>2. OwedProbed' /\ ReadsBelow' /\ InnerProbed'
  <2>1. OwedProbed /\ ReadsBelow /\ InnerProbed
    BY DEF CallInv
  <2>2. OwedProbed'
    BY <2>1 DEF OwedProbed
  <2>3. ReadsBelow'
    BY <2>1 DEF ReadsBelow
  <2>4. InnerProbed'
    BY <2>1 DEF InnerProbed
  <2> QED BY <2>2, <2>3, <2>4
<1>3. OwnEntry'
  <2> SUFFICES ASSUME NEW t \in Tasks, NEW i \in 1..Len(calls'[t]),
                      calls'[t][i].probed, InnermostOfKind(t, i)'
               PROVE  HoldsOwn(t, calls[t][i])'
    BY DEF OwnEntry, HoldsOwn
  <2>1. i \in 1..Len(calls[t]) /\ calls[t][i].probed /\ InnermostOfKind(t, i)
    BY DEF InnermostOfKind
  <2> QED BY <2>1 DEF CallInv, OwnEntry, HoldsOwn
<1> QED BY <1>1, <1>2, <1>3 DEF CallInv

(* A call that begins has the entry, or its task has none, and the calls   *)
(* around it of its kind are owed no count.                                *)
LEMMA EnterKeeps ==
  ASSUME TypeOK, CallInv, NEW t \in Tasks, NEW kind \in Kinds, NEW f \in Files,
         NEW direction \in Directions, Enter(t, kind, f, direction)
  PROVE  CallInv'
<1> DEFINE n == Len(calls[t])
           call == NewCall(kind, f, direction, t)
           entered == IsAttached(kind, direction, "entry")
<1>1. /\ n \in Nat
      /\ \A u \in Tasks \ {t} : calls'[u] = calls[u]
      /\ Len(calls'[t]) = n + 1
      /\ calls'[t][n + 1] = call
      /\ \A i \in 1..n : calls'[t][i] = IF entered THEN Replaced(calls[t][i], kind)
                                        ELSE calls[t][i]
  BY Pushed
<1>2. /\ call.kind = kind /\ call.file = f /\ call.direction = direction
      /\ call.probed = IsAttached(kind, direction, "return")
      /\ call.owed = ((entered /\ HasRoom(kind, t)) /\ call.probed)
  BY DEF NewCall
<1> HIDE DEF call
<1>3. path # "failed" /\ path' = path /\ attached' = attached
  BY DEF Enter
<1>4. ProbedSince /\ OwedProbed /\ ReadsBelow /\ InnerProbed /\ OwnEntry
  BY <1>3 DEF CallInv
<1>5. \A i \in 1..n : calls[t][i] \in Call
  BY DEF TypeOK
<1>6. \A i \in 1..n :
        /\ calls'[t][i].kind = calls[t][i].kind
        /\ calls'[t][i].file = calls[t][i].file
        /\ calls'[t][i].direction = calls[t][i].direction
        /\ calls'[t][i].probed = calls[t][i].probed
        /\ calls'[t][i].owed => calls[t][i].owed
        /\ calls[t][i].kind # kind => calls'[t][i].owed = calls[t][i].owed
        /\ calls[t][i].kind = kind /\ entered => ~calls'[t][i].owed
  BY <1>1, <1>5 DEF Replaced, Call
<1>7. attached \in 0..Len(Order)
  BY DEF TypeOK
<1>8. \A k, x, e : IsAttached(k, x, e)' <=> IsAttached(k, x, e)
  BY <1>3 DEF IsAttached
<1>9. IsAttached(kind, direction, "return") => entered
  BY <1>7, ReturnsLast
<1>10. \A i \in 1..n : calls[t][i].direction = "read" => direction = "read"
  <2> SUFFICES ASSUME NEW i \in 1..n, calls[t][i].direction = "read"
               PROVE  direction = "read"
    OBVIOUS
  <2>1. calls[t] # <<>>
    BY EmptySeq DEF TypeOK
  <2>2. Innermost(t).direction = "read"
    BY <1>1, <1>4 DEF ReadsBelow, Innermost
  <2> QED BY <2>1, <2>2 DEF Enter, MayCall
<1>11. \A i \in 1..n : calls[t][i].kind = kind /\ calls[t][i].probed => call.probed /\ entered
  <2> SUFFICES ASSUME NEW i \in 1..n, calls[t][i].kind = kind, calls[t][i].probed
               PROVE  call.probed /\ entered
    OBVIOUS
  <2>1. calls[t][i].direction \in Directions
    BY <1>5 DEF Call
  <2>2. IsAttached(kind, calls[t][i].direction, "return")
    BY <1>4 DEF ProbedSince
  <2>3. IsAttached(kind, "read", "return")
    BY <1>7, <2>1, <2>2, ReturnsLast
  <2>4. direction = "read" \/ calls[t][i].direction = direction
    BY <1>10, <2>1 DEF Directions
  <2>5. IsAttached(kind, direction, "return")
    BY <2>2, <2>3, <2>4
  <2> QED BY <1>2, <1>9, <2>5
<1>12. ProbedSince'
  <2> SUFFICES ASSUME NEW u \in Tasks, NEW i \in 1..Len(calls'[u]), calls'[u][i].probed
               PROVE  IsAttached(calls[u][i].kind, calls[u][i].direction, "return")'
    BY DEF ProbedSince
  <2>1. CASE u = t /\ i = n + 1
    BY <1>1, <1>2, <1>8, <2>1
  <2>2. CASE u = t /\ i # n + 1
    BY <1>1, <1>4, <1>6, <1>8, <2>2 DEF ProbedSince
  <2>3. CASE u # t
    BY <1>1, <1>4, <1>8, <2>3 DEF ProbedSince
  <2> QED BY <2>1, <2>2, <2>3
<1>13. OwedProbed'
  <2> SUFFICES ASSUME NEW u \in Tasks, NEW i \in 1..Len(calls'[u]), calls'[u][i].owed
               PROVE  calls'[u][i].probed
    BY DEF OwedProbed
  <2>1. CASE u = t /\ i = n + 1
    BY <1>1, <1>2, <2>1
  <2>2. CASE u = t /\ i # n + 1
    BY <1>1, <1>4, <1>6, <2>2 DEF OwedProbed
  <2>3. CASE u # t
    BY <1>1, <1>4, <2>3 DEF OwedProbed
  <2> QED BY <2>1, <2>2, <2>3
<1>14. ReadsBelow'
  <2> SUFFICES ASSUME NEW u \in Tasks, NEW i \in 1..Len(calls'[u]), NEW j \in 1..Len(calls'[u]),
                      i < j, calls'[u][i].direction = "read"
               PROVE  calls'[u][j].direction = "read"
    BY DEF ReadsBelow
  <2>1. CASE u = t /\ j = n + 1
    <3>1. i \in 1..n BY <1>1, <2>1
    <3>2. direction = "read" BY <1>6, <1>10, <2>1, <3>1
    <3> QED BY <1>1, <1>2, <2>1, <3>2
  <2>2. CASE u = t /\ j # n + 1
    <3>1. i \in 1..n /\ j \in 1..n BY <1>1, <2>2
    <3>2. calls[t][i].direction = "read" BY <1>6, <2>2, <3>1
    <3>3. calls[t][j].direction = "read" BY <1>4, <3>1, <3>2 DEF ReadsBelow
    <3> QED BY <1>6, <2>2, <3>1, <3>3
  <2>3. CASE u # t
    BY <1>1, <1>4, <2>3 DEF ReadsBelow
  <2> QED BY <2>1, <2>2, <2>3
<1>15. InnerProbed'
  <2> SUFFICES ASSUME NEW u \in Tasks, NEW i \in 1..Len(calls'[u]), NEW j \in 1..Len(calls'[u]),
                      i < j, calls'[u][i].kind = calls'[u][j].kind, calls'[u][i].probed
               PROVE  calls'[u][j].probed /\ ~calls'[u][i].owed
    BY DEF InnerProbed
  <2>1. CASE u = t /\ j = n + 1
    <3>1. i \in 1..n BY <1>1, <2>1
    <3>2. calls[t][i].kind = kind /\ calls[t][i].probed BY <1>1, <1>2, <1>6, <2>1, <3>1
    <3>3. call.probed /\ entered BY <1>11, <3>1, <3>2
    <3> QED BY <1>1, <1>6, <2>1, <3>1, <3>2, <3>3
  <2>2. CASE u = t /\ j # n + 1
    <3>1. i \in 1..n /\ j \in 1..n BY <1>1, <2>2
    <3>2. calls[t][i].kind = calls[t][j].kind /\ calls[t][i].probed BY <1>6, <2>2, <3>1
    <3>3. calls[t][j].probed /\ ~calls[t][i].owed BY <1>4, <3>1, <3>2 DEF InnerProbed
    <3> QED BY <1>6, <2>2, <3>1, <3>3
  <2>3. CASE u # t
    BY <1>1, <1>4, <2>3 DEF InnerProbed
  <2> QED BY <2>1, <2>2, <2>3
<1>16. OwnEntry'
  <2> SUFFICES ASSUME NEW u \in Tasks, NEW i \in 1..Len(calls'[u]),
                      calls'[u][i].probed, InnermostOfKind(u, i)'
               PROVE  HoldsOwn(u, calls[u][i])'
    BY DEF OwnEntry, HoldsOwn
  <2>0. pending' = IF entered /\ HasRoom(kind, t)
                   THEN BeginPending(kind, t, f, direction) ELSE pending
    BY DEF Enter
  <2>1. \A k \in Kinds \ {kind} : pending'[k] = pending[k]
    BY <2>0 DEF BeginPending, TypeOK
  <2>2. pending'[kind] = IF entered /\ HasRoom(kind, t)
                         THEN With(pending[kind], t, [file |-> f, direction |-> direction])
                         ELSE pending[kind]
    BY <2>0 DEF BeginPending, TypeOK
  <2>3. \A v \in Tasks \ {t} : \A k \in Kinds :
          /\ v \in DOMAIN pending'[k] <=> v \in DOMAIN pending[k]
          /\ v \in DOMAIN pending[k] => pending'[k][v] = pending[k][v]
    BY <2>1, <2>2 DEF With
  <2>4. CASE u # t
    <3>1. i \in 1..Len(calls[u]) /\ calls[u][i].probed /\ InnermostOfKind(u, i)
      BY <1>1, <2>4 DEF InnermostOfKind
    <3>2. HoldsOwn(u, calls[u][i])
      BY <1>4, <3>1 DEF OwnEntry
    <3>3. calls[u][i].kind \in Kinds
      BY <3>1, CallTypes
    <3> QED BY <1>1, <2>3, <2>4, <3>2, <3>3 DEF HoldsOwn
  <2>5. CASE u = t /\ i = n + 1
    <3>1. call.probed /\ entered
      BY <1>1, <1>2, <1>9, <2>5
    <3>2. call.owed = HasRoom(kind, t)
      BY <1>2, <3>1 DEF HasRoom
    <3>3. CASE HasRoom(kind, t)
      <4>1. pending'[kind] = With(pending[kind], t, [file |-> f, direction |-> direction])
        BY <2>2, <3>1, <3>3
      <4> QED BY <1>1, <1>2, <2>5, <3>2, <3>3, <4>1 DEF HoldsOwn, With
    <3>4. CASE ~HasRoom(kind, t)
      <4>1. t \notin DOMAIN pending[kind] /\ pending'[kind] = pending[kind]
        BY <2>2, <3>4 DEF HasRoom
      <4> QED BY <1>1, <1>2, <2>5, <3>2, <3>4, <4>1 DEF HoldsOwn
    <3> QED BY <3>3, <3>4
  <2>6. CASE u = t /\ i # n + 1
    <3>1. i \in 1..n /\ n + 1 \in 1..Len(calls'[t])
      BY <1>1, <2>6
    <3>2. calls[t][i].kind # kind
      BY <1>1, <1>2, <1>6, <2>6, <3>1 DEF InnermostOfKind
    <3>3. InnermostOfKind(t, i) /\ calls[t][i].probed
      BY <1>1, <1>6, <2>6, <3>1 DEF InnermostOfKind
    <3>4. HoldsOwn(t, calls[t][i])
      BY <1>4, <3>1, <3>3 DEF OwnEntry
    <3>5. calls[t][i].kind \in Kinds \ {kind}
      BY <1>5, <3>1, <3>2 DEF Call
    <3> QED BY <1>6, <2>1, <2>6, <3>1, <3>2, <3>4, <3>5 DEF HoldsOwn
  <2> QED BY <2>4, <2>5, <2>6
<1> QED BY <1>12, <1>13, <1>14, <1>15, <1>16 DEF CallInv

(* A call that returns takes the entry out, which is that of no call       *)
(* around it.                                                              *)
LEMMA ReturnKeeps ==
  ASSUME TypeOK, CallInv, NEW t \in Tasks, NEW transferred \in BOOLEAN,
         Return(t, transferred)
  PROVE  CallInv'
<1> DEFINE n == Len(calls[t])
           call == Innermost(t)
<1>1. /\ n \in Nat /\ n > 0
      /\ \A u \in Tasks \ {t} : calls'[u] = calls[u]
      /\ Len(calls'[t]) = n - 1
      /\ \A i \in 1..(n - 1) : calls'[t][i] = calls[t][i]
  BY Popped
<1>2. path' = path /\ attached' = attached /\ pending' = Complete(call, t)
  BY DEF Return
<1> SUFFICES ASSUME path # "failed" PROVE CallInv'
  BY <1>2 DEF CallInv
<1>3. ProbedSince /\ OwedProbed /\ ReadsBelow /\ InnerProbed /\ OwnEntry
  BY DEF CallInv
<1>4. calls[t] # <<>> /\ call \in Call /\ call = calls[t][n]
  BY InnermostCall DEF Return, Innermost
<1>5. \A k, x, e : IsAttached(k, x, e)' <=> IsAttached(k, x, e)
  BY <1>2 DEF IsAttached
<1>6. ProbedSince' /\ OwedProbed' /\ ReadsBelow' /\ InnerProbed'
  <2>1. ProbedSince'
    BY <1>1, <1>3, <1>5 DEF ProbedSince
  <2>2. \A u \in Tasks : \A i \in 1..Len(calls'[u]) :
          i \in 1..Len(calls[u]) /\ calls'[u][i] = calls[u][i]
    BY <1>1
  <2>3. OwedProbed'
    BY <1>3, <2>2 DEF OwedProbed
  <2>4. ReadsBelow'
    BY <1>3, <2>2 DEF ReadsBelow
  <2>5. InnerProbed'
    BY <1>3, <2>2 DEF InnerProbed
  <2> QED BY <2>1, <2>3, <2>4, <2>5
<1>7. /\ \A k \in Kinds \ {call.kind} : pending'[k] = pending[k]
      /\ pending'[call.kind] = IF Taken(call, t) = None THEN pending[call.kind]
                               ELSE Without(pending[call.kind], {t})
  BY <1>2, <1>4 DEF Complete, TypeOK, Call
<1>8. call.probed => t \notin DOMAIN pending'[call.kind]
  <2>1. pending[call.kind] \in PartialFunctions(Tasks, Entry)
    BY <1>4 DEF TypeOK, Call
  <2>2. \A v \in DOMAIN pending[call.kind] : pending[call.kind][v] \in Entry
    BY <2>1, Maps
  <2>3. call.probed /\ t \in DOMAIN pending[call.kind] => Taken(call, t) # None
    BY <2>2, NoneAssumption DEF Taken
  <2> QED BY <1>7, <2>3 DEF Without
<1>9. OwnEntry'
  <2> SUFFICES ASSUME NEW u \in Tasks, NEW i \in 1..Len(calls'[u]),
                      calls'[u][i].probed, InnermostOfKind(u, i)'
               PROVE  HoldsOwn(u, calls[u][i])'
    BY DEF OwnEntry, HoldsOwn
  <2>1. i \in 1..Len(calls[u]) /\ calls'[u][i] = calls[u][i]
    BY <1>1
  <2>2. calls[u][i].kind \in Kinds
    BY <2>1, CallTypes
  <2>3. CASE u = t /\ calls[t][i].kind = call.kind
    <3>1. i < n
      BY <1>1, <2>3
    <3>2. call.probed /\ ~calls[t][i].owed
      BY <1>1, <1>3, <1>4, <2>1, <2>3, <3>1 DEF InnerProbed
    <3> QED BY <1>8, <2>1, <2>3, <3>2 DEF HoldsOwn
  <2>4. CASE u = t /\ calls[t][i].kind # call.kind
    <3>1. InnermostOfKind(t, i)
      <4>1. \A j \in 1..n : j > i => j = n \/ j \in 1..Len(calls'[t])
        BY <1>1
      <4> QED BY <1>1, <1>4, <2>1, <2>4, <4>1 DEF InnermostOfKind
    <3>2. HoldsOwn(t, calls[t][i])
      BY <1>3, <2>1, <2>4, <3>1 DEF OwnEntry
    <3> QED BY <1>7, <2>1, <2>2, <2>4, <3>2 DEF HoldsOwn
  <2>5. CASE u # t
    <3>1. InnermostOfKind(u, i)
      BY <1>1, <2>5 DEF InnermostOfKind
    <3>2. HoldsOwn(u, calls[u][i])
      BY <1>3, <2>1, <3>1 DEF OwnEntry
    <3>3. \A k \in Kinds :
            /\ u \in DOMAIN pending'[k] <=> u \in DOMAIN pending[k]
            /\ u \in DOMAIN pending[k] => pending'[k][u] = pending[k][u]
      BY <1>7, <2>5 DEF Without
    <3> QED BY <2>1, <2>2, <3>2, <3>3 DEF HoldsOwn
  <2> QED BY <2>3, <2>4, <2>5
<1> QED BY <1>6, <1>9 DEF CallInv

(* What the innermost call of a task would have recorded is its own file   *)
(* and direction, if it is owed a count, and nothing otherwise.            *)
LEMMA CallInvMeans == TypeOK /\ CallInv => CountsOwnCall
<1> SUFFICES ASSUME TypeOK, CallInv, NEW t \in Tasks, calls[t] # <<>>
             PROVE  Recorded(Innermost(t), t, TRUE) =
                      IF Innermost(t).owed /\ path # "failed"
                         /\ Admitted(t, Innermost(t).file)
                      THEN [file |-> Innermost(t).file,
                            direction |-> Innermost(t).direction]
                      ELSE None
  BY DEF CountsOwnCall
<1> DEFINE call == Innermost(t)  n == Len(calls[t])
<1>1. n \in Nat /\ n > 0 /\ call \in Call /\ call = calls[t][n]
  BY InnermostCall DEF Innermost
<1>2. CASE path = "failed"
  BY <1>2 DEF Recorded, Taken
<1>3. CASE path # "failed"
  <2>1. OwedProbed /\ OwnEntry
    BY <1>3 DEF CallInv
  <2>2. CASE ~call.probed
    <3>1. ~call.owed
      BY <1>1, <2>1, <2>2 DEF OwedProbed
    <3> QED BY <2>2, <3>1 DEF Recorded, Taken
  <2>3. CASE call.probed
    <3>1. InnermostOfKind(t, n)
      BY <1>1 DEF InnermostOfKind
    <3>2. HoldsOwn(t, call)
      BY <1>1, <2>1, <2>3, <3>1 DEF OwnEntry
    <3>3. CASE call.owed
      <4>1. [file |-> call.file, direction |-> call.direction] \in Entry
        BY <1>1 DEF Call, Entry
      <4>2. Taken(call, t) = [file |-> call.file, direction |-> call.direction]
        BY <1>3, <2>3, <3>2, <3>3 DEF Taken, HoldsOwn
      <4>3. Taken(call, t) # None /\ Taken(call, t).file = call.file
        BY <4>1, <4>2, NoneAssumption
      <4> QED BY <1>3, <3>3, <4>2, <4>3 DEF Recorded
    <3>4. CASE ~call.owed
      BY <3>2, <3>4 DEF Recorded, Taken, HoldsOwn
    <3> QED BY <3>3, <3>4
  <2> QED BY <2>2, <2>3
<1> QED BY <1>2, <1>3

(* A path step of the innermost call keeps the invariant.                  *)
LEMMA ProceedKeeps ==
  ASSUME TypeOK, CallInv, NEW t \in Tasks, calls[t] # <<>>, NEW step \in Steps,
         Proceed(t, step), UNCHANGED <<attached, path, pending>>
  PROVE  CallInv'
<1>1. CASE path = "failed"
  BY <1>1 DEF CallInv
<1>2. CASE path # "failed"
  <2>1. attached' \in 0..Len(Order) /\ attached' >= attached
    BY DEF TypeOK
  <2>2. /\ \A u \in Tasks \ {t} : calls'[u] = calls[u]
        /\ Len(calls'[t]) = Len(calls[t])
        /\ \A i \in 1..Len(calls[t]) :
             calls'[t][i] = IF i = Len(calls[t]) THEN [calls[t][i] EXCEPT !.step = step]
                            ELSE calls[t][i]
    BY Proceeds
  <2>3. ASSUME NEW i \in 1..Len(calls[t])
        PROVE  /\ calls'[t][i].kind = calls[t][i].kind
               /\ calls'[t][i].file = calls[t][i].file
               /\ calls'[t][i].direction = calls[t][i].direction
               /\ calls'[t][i].probed = calls[t][i].probed
               /\ calls'[t][i].owed = calls[t][i].owed
    <3>1. calls[t][i] \in Call
      BY CallTypes
    <3> QED BY <2>2, <3>1 DEF Call
  <2> QED BY <1>2, <2>1, <2>2, <2>3, CallInvKept
<1> QED BY <1>1, <1>2

(* The entry a return finds is that of its own call.                       *)
LEMMA CallInvariant == Spec => []CallInv
<1>1. Init => CallInv
  BY DEF Init, CallInv, ProbedSince, OwedProbed, ReadsBelow, InnerProbed, OwnEntry
<1>2. TypeOK /\ CallInv /\ [Next]_vars => CallInv'
  <2> SUFFICES ASSUME TypeOK, CallInv, [Next]_vars PROVE CallInv'
    OBVIOUS
  <2>1. ASSUME path # "failed", UNCHANGED <<calls, pending>>,
               attached' \in 0..Len(Order), attached' >= attached
        PROVE  CallInv'
    BY <2>1, CallInvKept
  <2>2. ASSUME path = "failed", path' = path PROVE CallInv'
    BY <2>2 DEF CallInv
  <2>3. CASE Loading
    <3>1. CASE Attach
      BY <2>1, <3>1 DEF Attach, TypeOK
    <3>2. CASE AttachFails
      BY <3>2 DEF AttachFails, CallInv
    <3>3. CASE AttachPath
      BY <2>1, <3>3 DEF AttachPath, TypeOK
    <3> QED BY <2>3, <3>1, <3>2, <3>3 DEF Loading
  <2>4. CASE Collector
    <3>1. UNCHANGED <<attached, calls, pending>>
          /\ (path = "failed" => path' = path)
      BY <2>4 DEF Collector, BeginDrain, LookupPath, LookupFails
    <3>2. CASE path # "failed"
      BY <2>1, <3>1, <3>2 DEF TypeOK
    <3>3. CASE path = "failed"
      BY <2>2, <3>1, <3>3
    <3> QED BY <3>2, <3>3
  <2>5. ASSUME NEW t \in Tasks, Task(t) PROVE CallInv'
    <3>1. ASSUME NEW kind \in Kinds, NEW f \in Files, NEW direction \in Directions,
                 Enter(t, kind, f, direction)
          PROVE  CallInv'
      BY <3>1, EnterKeeps
    <3>2. CASE PermitUnseen(t) \/ PermitKnown(t) \/ PublishPath(t) \/ PathFails(t)
      BY <3>2, ProceedKeeps DEF PermitUnseen, PermitKnown, PublishPath, PathFails, Steps
    <3>3. CASE InsertSentinel(t)
      BY <3>3, ProceedKeeps DEF InsertSentinel, Steps
    <3>4. ASSUME NEW transferred \in BOOLEAN, Return(t, transferred) PROVE CallInv'
      BY <3>4, ReturnKeeps
    <3> QED BY <2>5, <3>1, <3>2, <3>3, <3>4 DEF Task
  <2>6. CASE UNCHANGED vars
    <3>1. UNCHANGED <<attached, path, calls, pending>>
      BY <2>6 DEF vars
    <3> QED BY <2>1, <2>2, <3>1 DEF TypeOK
  <2> QED BY <2>3, <2>4, <2>5, <2>6 DEF Next
<1> QED BY <1>1, <1>2, CallsTypeCorrect, PTL DEF Spec

(* However calls nest and whenever programs are attached, a return records *)
(* its own call, and records it if its probes ran, the map had room and no *)
(* call of its kind was made inside it.                                    *)
THEOREM ReturnsCountOwn == Spec => []CountsOwnCall
BY CallInvariant, CallsTypeCorrect, CallInvMeans, PTL

-----------------------------------------------------------------------------
(* Paths                                                                   *)

(* A path in the table is one by which the process of its key knows the    *)
(* file.                                                                   *)
TableIsOwn ==
  \A key \in DOMAIN paths :
    paths[key] = Unresolved \/ paths[key] \in PathsOf[key.file][key.tgid]

LEMMA TableInvariant == Spec => []TableIsOwn
<1>1. Init => TableIsOwn
  BY DEF Init, TableIsOwn, Empty
<1>2. TypeOK /\ TableIsOwn /\ [Next]_vars => TableIsOwn'
  <2> SUFFICES ASSUME TypeOK, TableIsOwn, [Next]_vars PROVE TableIsOwn'
    OBVIOUS
  <2>1. ASSUME UNCHANGED paths PROVE TableIsOwn'
    BY <2>1 DEF TableIsOwn
  <2>2. CASE Loading \/ Collector \/ UNCHANGED vars
    BY <2>1, <2>2 DEF Loading, Attach, AttachFails, AttachPath, Collector, BeginDrain,
                      LookupPath, LookupFails, vars
  <2>3. ASSUME NEW t \in Tasks, Task(t) PROVE TableIsOwn'
    <3>1. CASE InsertSentinel(t)
      <4>1. PICK victims \in SUBSET DOMAIN paths :
              paths' = With(Without(paths, victims), PathKey(t, Innermost(t).file), Unresolved)
        BY <3>1 DEF InsertSentinel
      <4> QED BY <4>1 DEF TableIsOwn, With, Without
    <3>2. CASE PublishPath(t)
      <4>1. PICK name \in PathsOf[Innermost(t).file][ProcessOf[t]] :
              paths' = Publish(PathKey(t, Innermost(t).file), name)
        BY <3>2 DEF PublishPath
      <4>2. /\ PathKey(t, Innermost(t).file).file = Innermost(t).file
            /\ PathKey(t, Innermost(t).file).tgid = ProcessOf[t]
        BY DEF PathKey
      <4> QED BY <4>1, <4>2 DEF TableIsOwn, Publish, With
    <3>3. CASE PermitUnseen(t) \/ PermitKnown(t) \/ PathFails(t)
      BY <2>1, <3>3 DEF PermitUnseen, PermitKnown, PathFails
    <3>4. ASSUME NEW kind \in Kinds, NEW f \in Files, NEW direction \in Directions,
                 Enter(t, kind, f, direction)
          PROVE  TableIsOwn'
      BY <2>1, <3>4 DEF Enter
    <3>5. ASSUME NEW transferred \in BOOLEAN, Return(t, transferred) PROVE TableIsOwn'
      BY <2>1, <3>5 DEF Return
    <3> QED BY <2>3, <3>1, <3>2, <3>3, <3>4, <3>5 DEF Task
  <2> QED BY <2>2, <2>3 DEF Next
<1> QED BY <1>1, <1>2, CallsTypeCorrect, PTL DEF Spec

(* A row is shown with a path of the process that made its calls.          *)
THEOREM PathsAreOwn == Spec => []PathIsOwn
<1>1. TableIsOwn => PathIsOwn
  BY DEF TableIsOwn, PathIsOwn, PathOf, LookupKey
<1> QED BY <1>1, TableInvariant, PTL

(* A key that is used is lost, being resolved, or has its path: that of a  *)
(* call with its permission, of a row, and of any entry of the table.      *)
Named(key) ==
  \/ key \in lost
  \/ Resolving(key)
  \/ key \in DOMAIN paths /\ paths[key] # Unresolved

CallsNamed ==
  \A t \in Tasks : \A i \in 1..Len(calls[t]) :
    Admitted(t, calls[t][i].file) /\ calls[t][i].step = "permitted" =>
      Named(PathKey(t, calls[t][i].file))

RowKey(row) == [file |-> row.file, tgid |-> row.executor]
RowsNamed == \A row \in agg \cup drained : Named(RowKey(row))

EntriesNamed == \A key \in DOMAIN paths : Named(key)

(* What is being resolved has its entry, unless it was evicted.            *)
ResolvedHere ==
  \A t \in Tasks : \A i \in 1..Len(calls[t]) :
    calls[t][i].step = "resolving" =>
      PathKey(t, calls[t][i].file) \in DOMAIN paths \cup lost

NamedInv ==
  path \in {"loading", "active"} =>
    CallsNamed /\ RowsNamed /\ EntriesNamed /\ ResolvedHere

(* Until a task's calls are other ones, what it resolves stays resolving.  *)
LEMMA ResolvingKept ==
  ASSUME NEW key, Resolving(key),
         \A u \in Tasks : \A i \in 1..Len(calls[u]) :
           calls[u][i].step = "resolving" /\ PathKey(u, calls[u][i].file) = key =>
             /\ i \in 1..Len(calls'[u])
             /\ calls'[u][i].step = "resolving"
             /\ calls'[u][i].file = calls[u][i].file
  PROVE  Resolving(key)'
<1>1. PICK u \in Tasks : \E i \in 1..Len(calls[u]) :
        calls[u][i].step = "resolving" /\ PathKey(u, calls[u][i].file) = key
  BY DEF Resolving
<1>2. PICK i \in 1..Len(calls[u]) :
        calls[u][i].step = "resolving" /\ PathKey(u, calls[u][i].file) = key
  BY <1>1
<1>3. i \in 1..Len(calls'[u]) /\ calls'[u][i].step = "resolving"
      /\ PathKey(u, calls'[u][i].file) = key
  BY <1>2
<1> QED BY <1>3 DEF Resolving, PathKey

(* A step that leaves the table alone and the calls what they were.        *)
LEMMA NamedKept ==
  ASSUME NamedInv, UNCHANGED <<calls, paths, lost>>,
         agg' \cup drained' \subseteq agg \cup drained,
         path' \in {"loading", "active"} => path \in {"loading", "active"}
  PROVE  NamedInv'
<1> SUFFICES ASSUME path' \in {"loading", "active"} PROVE NamedInv'
  BY DEF NamedInv
<1>1. CallsNamed /\ RowsNamed /\ EntriesNamed /\ ResolvedHere
  BY DEF NamedInv
<1>2. \A key : Named(key)' <=> Named(key)
  BY DEF Named, Resolving, PathKey
<1>3. CallsNamed' /\ ResolvedHere'
  BY <1>1, <1>2 DEF CallsNamed, ResolvedHere, PathKey, Admitted
<1>4. RowsNamed'
  BY <1>1, <1>2 DEF RowsNamed, RowKey
<1>5. EntriesNamed'
  BY <1>1, <1>2 DEF EntriesNamed
<1> QED BY <1>3, <1>4, <1>5 DEF NamedInv

(* A step of the innermost call that leaves the other keys named, its own  *)
(* too if it got its permission, and its own entry in the table.           *)
LEMMA NamedAfterStep ==
  ASSUME TypeOK, NamedInv, path \in {"loading", "active"},
         NEW t \in Tasks, calls[t] # <<>>, NEW step \in Steps, Proceed(t, step),
         UNCHANGED <<path, agg, drained>>,
         \A key : Named(key) => Named(key)',
         \A key \in DOMAIN paths' : key \in DOMAIN paths \/ Named(key)',
         DOMAIN paths \cup lost \subseteq DOMAIN paths' \cup lost',
         \A key : key = PathKey(t, Innermost(t).file) =>
           /\ step = "permitted" /\ Admitted(t, Innermost(t).file) => Named(key)'
           /\ step = "resolving" => key \in DOMAIN paths' \cup lost'
  PROVE  NamedInv'
<1>1. CallsNamed /\ RowsNamed /\ EntriesNamed /\ ResolvedHere
  BY DEF NamedInv
<1> DEFINE n == Len(calls[t])
<1>2. /\ n \in Nat /\ n > 0
      /\ \A u \in Tasks \ {t} : calls'[u] = calls[u]
      /\ Len(calls'[t]) = n
      /\ \A i \in 1..n : calls'[t][i] = IF i = n THEN [calls[t][i] EXCEPT !.step = step]
                                        ELSE calls[t][i]
  BY Proceeds
<1>3. Innermost(t) = calls[t][n] /\ calls[t][n] \in Call
  BY <1>2, CallTypes DEF Innermost
<1>4. calls'[t][n].file = calls[t][n].file /\ calls'[t][n].step = step
  <2>1. calls'[t][n] = [calls[t][n] EXCEPT !.step = step]
    BY <1>2
  <2> QED BY <1>3, <2>1 DEF Call
<1>5. \A u \in Tasks : \A i \in 1..Len(calls'[u]) :
        i \in 1..Len(calls[u]) /\ ((u = t /\ i = n) \/ calls'[u][i] = calls[u][i])
  BY <1>2
<1>6. CallsNamed'
  <2> SUFFICES ASSUME NEW u \in Tasks, NEW i \in 1..Len(calls'[u]),
                      Admitted(u, calls'[u][i].file), calls'[u][i].step = "permitted"
               PROVE  Named(PathKey(u, calls[u][i].file))'
    BY DEF CallsNamed, Admitted
  <2>1. CASE u = t /\ i = n
    <3>1. \A key : key = PathKey(t, calls[t][n].file) => Named(key)'
      BY <1>3, <1>4, <2>1 DEF Admitted
    <3>2. PathKey(u, calls'[u][i].file) = PathKey(t, calls[t][n].file)
      BY <1>4, <2>1
    <3>3. \A key : key = PathKey(u, calls'[u][i].file) => Named(key)'
      BY <3>1, <3>2
    <3> QED BY <3>3 DEF PathKey
  <2>2. CASE ~(u = t /\ i = n)
    <3>1. i \in 1..Len(calls[u]) /\ calls'[u][i] = calls[u][i]
      BY <1>5, <2>2
    <3>2. Named(PathKey(u, calls[u][i].file))
      BY <1>1, <3>1 DEF CallsNamed
    <3> QED BY <3>1, <3>2 DEF PathKey
  <2> QED BY <2>1, <2>2
<1>7. RowsNamed'
  BY <1>1 DEF RowsNamed, RowKey
<1>8. EntriesNamed'
  BY <1>1 DEF EntriesNamed
<1>9. ResolvedHere'
  <2> SUFFICES ASSUME NEW u \in Tasks, NEW i \in 1..Len(calls'[u]),
                      calls'[u][i].step = "resolving"
               PROVE  PathKey(u, calls'[u][i].file) \in DOMAIN paths' \cup lost'
    BY DEF ResolvedHere, PathKey
  <2>1. CASE u = t /\ i = n
    <3>1. PathKey(u, calls'[u][i].file) = PathKey(t, Innermost(t).file)
      BY <1>3, <1>4, <2>1
    <3> QED BY <1>4, <2>1, <3>1
  <2>2. CASE ~(u = t /\ i = n)
    <3>1. i \in 1..Len(calls[u]) /\ calls'[u][i] = calls[u][i]
      BY <1>5, <2>2
    <3>2. PathKey(u, calls[u][i].file) \in DOMAIN paths \cup lost
      BY <1>1, <3>1 DEF ResolvedHere
    <3> QED BY <3>1, <3>2
  <2> QED BY <2>1, <2>2
<1> QED BY <1>6, <1>7, <1>8, <1>9 DEF NamedInv

(* While the innermost call of t takes a path step, what is being resolved *)
(* elsewhere stays so; what t resolves itself does while it goes on.       *)
LEMMA ResolvingElsewhere ==
  ASSUME TypeOK, NEW t \in Tasks, calls[t] # <<>>, NEW step \in Steps, Proceed(t, step),
         NEW key, Resolving(key),
         Innermost(t).step # "resolving" \/ key # PathKey(t, Innermost(t).file)
  PROVE  Resolving(key)'
<1> DEFINE n == Len(calls[t])
<1>1. /\ n \in Nat /\ n > 0
      /\ \A u \in Tasks \ {t} : calls'[u] = calls[u]
      /\ Len(calls'[t]) = n
      /\ \A i \in 1..n : calls'[t][i] = IF i = n THEN [calls[t][i] EXCEPT !.step = step]
                                        ELSE calls[t][i]
  BY Proceeds
<1>2. ASSUME NEW u \in Tasks, NEW i \in 1..Len(calls[u]),
             calls[u][i].step = "resolving", PathKey(u, calls[u][i].file) = key
      PROVE  /\ i \in 1..Len(calls'[u])
             /\ calls'[u][i].step = "resolving"
             /\ calls'[u][i].file = calls[u][i].file
  <2>1. ~(u = t /\ i = n)
    BY <1>2 DEF Innermost
  <2>2. calls'[u][i] = calls[u][i] /\ Len(calls'[u]) = Len(calls[u])
    BY <1>1, <2>1
  <2> QED BY <1>2, <2>2
<1> QED BY <1>2, ResolvingKept

(* Inserting the empty path: its key is being resolved, a victim is lost.  *)
LEMMA InsertNamed ==
  ASSUME TypeOK, NamedInv, NEW t \in Tasks, InsertSentinel(t)
  PROVE  NamedInv'
<1> DEFINE own == PathKey(t, Innermost(t).file)  n == Len(calls[t])
<1>1. /\ calls[t] # <<>> /\ Innermost(t).step = "entered"
      /\ own \notin DOMAIN paths /\ Proceed(t, "resolving")
      /\ UNCHANGED <<path, agg, drained>> /\ PathProgramRuns
  BY DEF InsertSentinel
<1>2. PICK victims \in SUBSET DOMAIN paths :
        /\ paths' = With(Without(paths, victims), own, Unresolved)
        /\ lost' = (lost \cup victims) \ {own}
  BY DEF InsertSentinel
<1>3. CASE path # "active"
  <2>1. path = "unread"
    BY <1>1, <1>3 DEF PathProgramRuns
  <2> QED BY <1>1, <2>1 DEF NamedInv
<1>4. CASE path = "active"
  <2>0. "resolving" \in Steps
    BY DEF Steps
  <2>1. /\ n \in Nat /\ n > 0 /\ n \in 1..Len(calls'[t])
        /\ calls'[t][n] = [calls[t][n] EXCEPT !.step = "resolving"]
        /\ Innermost(t) = calls[t][n] /\ calls[t][n] \in Call
    <3>1. n \in Nat /\ n > 0 /\ Len(calls'[t]) = n
          /\ \A i \in 1..n : calls'[t][i] = IF i = n
                                            THEN [calls[t][i] EXCEPT !.step = "resolving"]
                                            ELSE calls[t][i]
      BY <1>1, <2>0, Proceeds
    <3>2. Innermost(t) = calls[t][n] /\ calls[t][n] \in Call
      BY <3>1, CallTypes DEF Innermost
    <3> QED BY <3>1, <3>2
  <2>2. calls'[t][n].step = "resolving" /\ calls'[t][n].file = Innermost(t).file
    BY <2>1 DEF Call
  <2>3. \A key : key = own => Resolving(key)'
    <3>1. PathKey(t, calls'[t][n].file) = own
      BY <2>2
    <3> QED BY <2>1, <2>2, <3>1 DEF Resolving, PathKey
  <2>4. \A key : Resolving(key) => Resolving(key)'
    <3> SUFFICES ASSUME NEW key, Resolving(key) PROVE Resolving(key)'
      OBVIOUS
    <3>1. Innermost(t).step # "resolving"
      BY <1>1
    <3> QED BY <1>1, <2>0, <3>1, ResolvingElsewhere
  <2>5. \A key : Named(key) => Named(key)'
    <3> SUFFICES ASSUME NEW key, Named(key) PROVE Named(key)'
      OBVIOUS
    <3> HIDE DEF own
    <3>1. CASE key = own
      BY <2>3, <3>1 DEF Named
    <3>2. CASE key # own /\ Resolving(key)
      BY <2>4, <3>2 DEF Named
    <3>3. CASE key # own /\ key \in lost
      BY <1>2, <3>3 DEF Named
    <3>4. CASE key # own /\ key \in DOMAIN paths /\ paths[key] # Unresolved
      BY <1>2, <3>4 DEF Named, With, Without
    <3> QED BY <3>1, <3>2, <3>3, <3>4 DEF Named
  <2>6. \A key \in DOMAIN paths' : key \in DOMAIN paths \/ Named(key)'
    <3> HIDE DEF own
    <3>1. \A key \in DOMAIN paths' : key \in DOMAIN paths \/ key = own
      BY <1>2 DEF With, Without
    <3> QED BY <2>3, <3>1 DEF Named
  <2>7. DOMAIN paths \cup lost \subseteq DOMAIN paths' \cup lost'
    <3> HIDE DEF own
    <3> QED BY <1>2 DEF With, Without
  <2>8. \A key : key = own => key \in DOMAIN paths'
    <3> HIDE DEF own
    <3> QED BY <1>2 DEF With
  <2> QED BY <1>1, <1>4, <2>0, <2>5, <2>6, <2>7, <2>8, NamedAfterStep
<1> QED BY <1>3, <1>4

(* Publishing a path: the key has it, unless it was evicted.               *)
LEMMA PublishNamed ==
  ASSUME TypeOK, NamedInv, NEW t \in Tasks, PublishPath(t)
  PROVE  NamedInv'
<1> DEFINE own == PathKey(t, Innermost(t).file)  n == Len(calls[t])
<1>1. /\ calls[t] # <<>> /\ Innermost(t).step = "resolving" /\ Proceed(t, "permitted")
      /\ UNCHANGED <<path, agg, drained, lost>>
  BY DEF PublishPath
<1>2. PICK name \in PathsOf[Innermost(t).file][ProcessOf[t]] : paths' = Publish(own, name)
  BY DEF PublishPath
<1>3. name # Unresolved
  <2>1. Innermost(t).file \in Files /\ ProcessOf[t] \in Processes
    BY <1>1, InnermostCall, TasksAssumption DEF Call
  <2> QED BY <2>1, FilesAssumption
<1> SUFFICES ASSUME path \in {"loading", "active"} PROVE NamedInv'
  BY <1>1 DEF NamedInv
<1>4. "permitted" \in Steps
  BY DEF Steps
<1>5. own \in DOMAIN paths \cup lost
  <2>1. n \in Nat /\ n > 0 /\ Innermost(t) = calls[t][n]
    BY <1>1, InnermostCall DEF Innermost
  <2>2. ResolvedHere
    BY DEF NamedInv
  <2> QED BY <1>1, <2>1, <2>2 DEF ResolvedHere
<1> HIDE DEF own
<1>6. \A key : key = own => Named(key)'
  <2>1. CASE own \in DOMAIN paths
    <3>1. own \in DOMAIN paths' /\ paths'[own] = name
      BY <1>2, <2>1 DEF Publish, With
    <3>2. \A key : key = own => key \in DOMAIN paths' /\ paths'[key] # Unresolved
      BY <1>3, <3>1
    <3> QED BY <3>2 DEF Named
  <2>2. CASE own \in lost
    <3>1. \A key : key = own => key \in lost'
      BY <1>1, <2>2
    <3> QED BY <3>1 DEF Named
  <2> QED BY <1>5, <2>1, <2>2
<1>7. \A key : key # own /\ Resolving(key) => Resolving(key)'
  BY <1>1, <1>4, ResolvingElsewhere DEF own
<1>8. DOMAIN paths' = DOMAIN paths
      /\ \A key \in DOMAIN paths : key # own => paths'[key] = paths[key]
  BY <1>2 DEF Publish, With
<1>9. \A key : Named(key) => Named(key)'
  <2> SUFFICES ASSUME NEW key, Named(key) PROVE Named(key)'
    OBVIOUS
  <2>1. CASE key = own
    BY <1>6, <2>1
  <2>2. CASE key # own /\ Resolving(key)
    BY <1>7, <2>2 DEF Named
  <2>3. CASE key \in lost
    BY <1>1, <2>3 DEF Named
  <2>4. CASE key # own /\ key \in DOMAIN paths /\ paths[key] # Unresolved
    BY <1>8, <2>4 DEF Named
  <2> QED BY <2>1, <2>2, <2>3, <2>4 DEF Named
<1>10. \A key : key = PathKey(t, Innermost(t).file) => Named(key)'
  BY <1>6 DEF own
<1> QED BY <1>1, <1>4, <1>8, <1>9, <1>10, NamedAfterStep

(* A permission that resolves nothing, or fails to.                        *)
LEMMA PermitNamed ==
  ASSUME TypeOK, NamedInv, NEW t \in Tasks,
         PermitUnseen(t) \/ PermitKnown(t) \/ PathFails(t)
  PROVE  NamedInv'
<1> DEFINE own == PathKey(t, Innermost(t).file)
<1>1. /\ calls[t] # <<>> /\ Proceed(t, "permitted")
      /\ UNCHANGED <<path, paths, agg, drained>> /\ lost \subseteq lost'
      /\ Innermost(t).step = "resolving" => own \in lost'
  BY DEF PermitUnseen, PermitKnown, PathFails
<1> SUFFICES ASSUME path \in {"loading", "active"} PROVE NamedInv'
  BY <1>1 DEF NamedInv
<1>2. "permitted" \in Steps
  BY DEF Steps
<1>3. \A key : Resolving(key) /\ (Innermost(t).step # "resolving" \/ key # own) =>
                 Resolving(key)'
  BY <1>1, <1>2, ResolvingElsewhere
<1>4. \A key : Named(key) => Named(key)'
  <2> SUFFICES ASSUME NEW key, Named(key) PROVE Named(key)'
    OBVIOUS
  <2>1. CASE key \in lost
    BY <1>1, <2>1 DEF Named
  <2>2. CASE key \in DOMAIN paths /\ paths[key] # Unresolved
    BY <1>1, <2>2 DEF Named
  <2>3. CASE Resolving(key) /\ Innermost(t).step = "resolving" /\ key = own
    <3>1. key \in lost'
      BY <1>1, <2>3
    <3> QED BY <3>1 DEF Named
  <2>4. CASE Resolving(key) /\ (Innermost(t).step # "resolving" \/ key # own)
    BY <1>3, <2>4 DEF Named
  <2> QED BY <2>1, <2>2, <2>3, <2>4 DEF Named
<1>5. \A key : key = own /\ Admitted(t, Innermost(t).file) => Named(key)'
  <2>1. CASE PermitUnseen(t)
    <3>1. Admitted(t, Innermost(t).file) => own \in lost'
      BY <2>1 DEF PermitUnseen, PathProgramRuns
    <3>2. \A key : key = own /\ Admitted(t, Innermost(t).file) => key \in lost'
      BY <3>1
    <3> QED BY <3>2 DEF Named
  <2>2. CASE PermitKnown(t)
    <3>1. own \in DOMAIN paths
      BY <2>2 DEF PermitKnown
    <3>2. Named(own)
      BY <3>1 DEF NamedInv, EntriesNamed
    <3> HIDE DEF own
    <3>3. \A key : key = own => Named(key)
      BY <3>2
    <3> QED BY <1>4, <3>3
  <2>3. CASE PathFails(t)
    <3>1. own \in lost'
      BY <2>3 DEF PathFails
    <3>2. \A key : key = own => key \in lost'
      BY <3>1
    <3> QED BY <3>2 DEF Named
  <2> QED BY <2>1, <2>2, <2>3
<1> QED BY <1>1, <1>2, <1>4, <1>5, NamedAfterStep

(* A return counts the call it returns from, whose key is named.           *)
LEMMA ReturnNamed ==
  ASSUME TypeOK, CountsOwnCall, NamedInv, NEW t \in Tasks, NEW transferred \in BOOLEAN,
         Return(t, transferred)
  PROVE  NamedInv'
<1> DEFINE n == Len(calls[t])  call == Innermost(t)
<1>1. /\ calls[t] # <<>> /\ call.step = "permitted"
      /\ agg' = IF Recorded(call, t, transferred) = None THEN agg
                ELSE agg \cup {Row(t, Recorded(call, t, transferred).file)}
      /\ UNCHANGED <<path, paths, drained, lost>>
  BY DEF Return
<1> SUFFICES ASSUME path \in {"loading", "active"} PROVE NamedInv'
  BY <1>1 DEF NamedInv
<1>2. CallsNamed /\ RowsNamed /\ EntriesNamed /\ ResolvedHere
  BY DEF NamedInv
<1>3. /\ n \in Nat /\ n > 0
      /\ \A u \in Tasks \ {t} : calls'[u] = calls[u]
      /\ Len(calls'[t]) = n - 1
      /\ \A i \in 1..(n - 1) : calls'[t][i] = calls[t][i]
  BY Popped
<1>4. \A u \in Tasks : \A i \in 1..Len(calls'[u]) :
        i \in 1..Len(calls[u]) /\ calls'[u][i] = calls[u][i]
  BY <1>3
<1>5. call = calls[t][n] /\ n \in 1..Len(calls[t])
  BY <1>3 DEF Innermost
<1>6. \A key : Resolving(key) => Resolving(key)'
  <2> SUFFICES ASSUME NEW key, Resolving(key) PROVE Resolving(key)'
    OBVIOUS
  <2>1. ASSUME NEW u \in Tasks, NEW i \in 1..Len(calls[u]),
               calls[u][i].step = "resolving", PathKey(u, calls[u][i].file) = key
        PROVE  /\ i \in 1..Len(calls'[u])
               /\ calls'[u][i].step = "resolving"
               /\ calls'[u][i].file = calls[u][i].file
    <3>1. ~(u = t /\ i = n)
      BY <1>1, <1>5, <2>1
    <3> QED BY <1>3, <2>1, <3>1
  <2> QED BY <2>1, ResolvingKept
<1>7. \A key : Named(key) => Named(key)'
  BY <1>1, <1>6 DEF Named
<1>8. CallsNamed'
  <2> SUFFICES ASSUME NEW u \in Tasks, NEW i \in 1..Len(calls'[u]),
                      Admitted(u, calls'[u][i].file), calls'[u][i].step = "permitted"
               PROVE  Named(PathKey(u, calls[u][i].file))'
    BY DEF CallsNamed, Admitted
  <2>1. i \in 1..Len(calls[u]) /\ calls'[u][i] = calls[u][i]
    BY <1>4
  <2>2. Named(PathKey(u, calls[u][i].file))
    BY <1>2, <2>1 DEF CallsNamed
  <2> QED BY <1>7, <2>1, <2>2 DEF PathKey
<1>9. RowsNamed'
  <2>1. CASE Recorded(call, t, transferred) = None
    BY <1>1, <1>2, <1>7, <2>1 DEF RowsNamed, RowKey
  <2>2. CASE Recorded(call, t, transferred) # None
    <3>1. transferred = TRUE
      BY <2>2 DEF Recorded
    <3>2. /\ Admitted(t, call.file)
          /\ Recorded(call, t, transferred) =
               [file |-> call.file, direction |-> call.direction]
      BY <1>1, <2>2, <3>1 DEF CountsOwnCall
    <3>3. agg' = agg \cup {Row(t, call.file)}
      BY <1>1, <2>2, <3>2
    <3>4. Named(PathKey(t, call.file))
      BY <1>1, <1>2, <1>5, <3>2 DEF CallsNamed
    <3>5. RowKey(Row(t, call.file)) = PathKey(t, call.file)
      BY DEF RowKey, Row, PathKey
    <3>6. \A row \in agg' \cup drained' : Named(RowKey(row))
      BY <1>1, <1>2, <3>3, <3>4, <3>5 DEF RowsNamed
    <3> QED BY <1>7, <3>6 DEF RowsNamed, RowKey
  <2> QED BY <2>1, <2>2
<1>10. EntriesNamed'
  BY <1>1, <1>2, <1>7 DEF EntriesNamed
<1>11. ResolvedHere'
  BY <1>1, <1>2, <1>4 DEF ResolvedHere, PathKey
<1> QED BY <1>8, <1>9, <1>10, <1>11 DEF NamedInv

(* A call that begins changes no step of the calls around it.              *)
LEMMA EnterNamed ==
  ASSUME TypeOK, NamedInv, NEW t \in Tasks, NEW kind \in Kinds, NEW f \in Files,
         NEW direction \in Directions, Enter(t, kind, f, direction)
  PROVE  NamedInv'
<1> DEFINE n == Len(calls[t])
<1>1. UNCHANGED <<path, paths, agg, drained, lost>>
  BY DEF Enter
<1> SUFFICES ASSUME path \in {"loading", "active"} PROVE NamedInv'
  BY <1>1 DEF NamedInv
<1>2. CallsNamed /\ RowsNamed /\ EntriesNamed /\ ResolvedHere
  BY DEF NamedInv
<1>3. /\ n \in Nat
      /\ \A u \in Tasks \ {t} : calls'[u] = calls[u]
      /\ Len(calls'[t]) = n + 1
      /\ calls'[t][n + 1].step = "entered"
      /\ \A i \in 1..n : /\ calls'[t][i].step = calls[t][i].step
                         /\ calls'[t][i].file = calls[t][i].file
  <2>1. /\ n \in Nat
        /\ \A u \in Tasks \ {t} : calls'[u] = calls[u]
        /\ Len(calls'[t]) = n + 1
        /\ calls'[t][n + 1] = NewCall(kind, f, direction, t)
        /\ \A i \in 1..n : calls'[t][i] = IF IsAttached(kind, direction, "entry")
                                          THEN Replaced(calls[t][i], kind)
                                          ELSE calls[t][i]
    BY Pushed
  <2>2. \A c \in Call : Replaced(c, kind).step = c.step /\ Replaced(c, kind).file = c.file
    BY DEF Replaced, Call
  <2>3. \A i \in 1..n : calls[t][i] \in Call
    BY CallTypes
  <2>4. NewCall(kind, f, direction, t).step = "entered"
    BY DEF NewCall
  <2> QED BY <2>1, <2>2, <2>3, <2>4
<1>4. \A u \in Tasks : \A i \in 1..Len(calls[u]) :
        /\ i \in 1..Len(calls'[u])
        /\ calls'[u][i].step = calls[u][i].step /\ calls'[u][i].file = calls[u][i].file
  BY <1>3
<1>5. \A u \in Tasks : \A i \in 1..Len(calls'[u]) :
        calls'[u][i].step # "entered" => i \in 1..Len(calls[u])
  BY <1>3
<1>6. \A key : Resolving(key) => Resolving(key)'
  BY <1>4, ResolvingKept
<1>7. \A key : Named(key) => Named(key)'
  BY <1>1, <1>6 DEF Named
<1>8. CallsNamed'
  <2> SUFFICES ASSUME NEW u \in Tasks, NEW i \in 1..Len(calls'[u]),
                      Admitted(u, calls'[u][i].file), calls'[u][i].step = "permitted"
               PROVE  Named(PathKey(u, calls[u][i].file))'
    BY DEF CallsNamed, Admitted
  <2>1. /\ i \in 1..Len(calls[u])
        /\ calls'[u][i].step = calls[u][i].step /\ calls'[u][i].file = calls[u][i].file
    BY <1>4, <1>5
  <2>2. Named(PathKey(u, calls[u][i].file))
    BY <1>2, <2>1 DEF CallsNamed
  <2> QED BY <1>7, <2>1, <2>2 DEF PathKey
<1>9. RowsNamed' /\ EntriesNamed'
  BY <1>1, <1>2, <1>7 DEF RowsNamed, RowKey, EntriesNamed
<1>10. ResolvedHere'
  BY <1>1, <1>2, <1>4, <1>5 DEF ResolvedHere, PathKey
<1> QED BY <1>8, <1>9, <1>10 DEF NamedInv

(* The path of a counted row is in the table before a drain can ask for    *)
(* it, unless it was lost or is being resolved.                            *)
THEOREM NamedBeforeDrained == Spec => []NamedWhenCounted
<1>1. Init => NamedInv
  BY DEF Init, NamedInv, CallsNamed, RowsNamed, EntriesNamed, ResolvedHere, Empty
<1>2. TypeOK /\ CountsOwnCall /\ NamedInv /\ [Next]_vars => NamedInv'
  <2> SUFFICES ASSUME TypeOK, CountsOwnCall, NamedInv, [Next]_vars PROVE NamedInv'
    OBVIOUS
  <2>1. CASE Loading \/ Collector \/ UNCHANGED vars
    BY <2>1, NamedKept DEF Loading, Attach, AttachFails, AttachPath, Collector, BeginDrain,
                           LookupPath, LookupFails, vars
  <2>2. ASSUME NEW t \in Tasks, Task(t) PROVE NamedInv'
    <3>1. ASSUME NEW kind \in Kinds, NEW f \in Files, NEW direction \in Directions,
                 Enter(t, kind, f, direction)
          PROVE  NamedInv'
      BY <3>1, EnterNamed
    <3>2. ASSUME NEW transferred \in BOOLEAN, Return(t, transferred) PROVE NamedInv'
      BY <3>2, ReturnNamed
    <3> QED BY <2>2, <3>1, <3>2, InsertNamed, PublishNamed, PermitNamed DEF Task
  <2> QED BY <2>1, <2>2 DEF Next
<1>3. NamedInv => NamedWhenCounted
  BY DEF NamedInv, RowsNamed, RowKey, Named, NamedWhenCounted
<1> QED BY <1>1, <1>2, <1>3, CallsTypeCorrect, ReturnsCountOwn, PTL DEF Spec
=============================================================================
