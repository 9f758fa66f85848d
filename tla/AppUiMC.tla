------------------------------- MODULE AppUiMC -------------------------------
(* Small instances of AppUi for the model checker: a file system on the     *)
(* second disk, which grows onto the first one while another is mounted.    *)
EXTENDS AppUi

Single == [v \in {2} |-> {2}]
Grown == [v \in {1, 2} |-> IF v = 1 THEN {1} ELSE {1, 2}]

TwoLayouts == {Single, Grown}

NoFile == {Torn}
=============================================================================
