----------------------------- MODULE VfsCallsMC -----------------------------
(***************************************************************************)
(* A process and a FUSE daemon that works for it, which know each file by  *)
(* a path of their own.  Calls of the process on the upper file call on    *)
(* the lower one, which the daemon uses itself.                            *)
(***************************************************************************)
EXTENDS VfsCalls, TLC

CONSTANTS app, daemon, p, d, upper, lower, a, b

TwoTasks == {app, daemon}
TwoProcesses == {p, d}
TaskProcess == app :> p @@ daemon :> d
ForRequester == app :> p @@ daemon :> p
TwoFiles == {upper, lower}
OpenedBy == app :> {upper} @@ daemon :> {lower}
Nested == upper :> {lower} @@ lower :> {}
TwoNames == {a, b}
NamedByProcess == [f \in TwoFiles |-> p :> {a} @@ d :> {b}]
=============================================================================
