----------------------------- MODULE IoSamplerMC -----------------------------
(* A small instance of IoSampler for the model checker: rows that come and  *)
(* go, change their source, and share a disk through its partition.         *)
EXTENDS IoSampler

CONSTANTS d1, p1, v1, v2

On(disks) == [members |-> disks, counters |-> disks]
OnPart(d, p) == [members |-> {d}, counters |-> {p}]

OneLayouts ==
    {[v \in {} |-> On({})],
     [v \in {v1} |-> OnPart(d1, p1)],
     [v \in {v1} |-> On({d1})],
     [v \in {v1, v2} |-> IF v = v1 THEN OnPart(d1, p1) ELSE On({d1})]}
NearWrap == {[ops |-> 1, busy |-> 2]}
=============================================================================
