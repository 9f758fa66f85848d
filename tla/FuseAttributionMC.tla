-------------------------- MODULE FuseAttributionMC --------------------------
(***************************************************************************)
(* Small instances of FuseAttribution: two tasks of different processes,   *)
(* of which t1 has the same pid in its requests and on the host and t2     *)
(* does not; or both have the same pid in two namespaces.                  *)
(***************************************************************************)
EXTENDS FuseAttribution, TLC

CONSTANTS t1, t2, p1, p2, h1, h2, i2

TwoTasks == {t1, t2}
TwoProcesses == {p1, p2}
TwoProcessOf == t1 :> p1 @@ t2 :> p2
OwnHeaderPid == t1 :> h1 @@ t2 :> h2
SameHeaderPid == t1 :> h1 @@ t2 :> h1
OwnHostPid == t1 :> h1 @@ t2 :> i2

(* With the writer program attached, which has no part in what requests    *)
(* are charged to, the entries of VFS_AGG are not followed.                *)
OriginsWithoutWriters == "writer" \in hooks => origins = Empty

Symmetry == Permutations(Workers)
=============================================================================
