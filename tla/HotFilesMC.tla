----------------------------- MODULE HotFilesMC -----------------------------
(***************************************************************************)
(* Two files.  One is used by two processes of a shell, of which one was   *)
(* in a container and gone before its path could be seen, the other by a   *)
(* process of its own.  Of a process's descriptors the first is looked at. *)
(***************************************************************************)
EXTENDS HotFiles

Key(file, tgid, parent, container, path) ==
    [file |-> file, tgid |-> tgid, thread |-> tgid, parent |-> parent,
     container |-> container, path |-> path]
SmallKeys == {Key("log", "worker", "shell", TRUE, FALSE), Key("log", "writer", None, FALSE, FALSE),
              Key("db", "worker", "shell", TRUE, TRUE)}

Tgids == {k.tgid : k \in SmallKeys}
SmallProcs ==
    [parent : UNION {[T -> {None, "shell", "init"}] : T \in SUBSET Tgids},
     open : [Tgids -> {<<>>, <<"log">>, <<"other", "log">>}], labelled : {{}, {"shell"}, Tgids}]
=============================================================================
