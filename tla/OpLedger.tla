------------------------------ MODULE OpLedger ------------------------------
(***************************************************************************)
(* What the VFS accounting path promises about every completed call,       *)
(* whatever the interleaving: it is counted at most once, and once in a    *)
(* published sample it stays there; a refused call is disclosed as a drop  *)
(* and never counted; a counted call is only lost when the collector fails *)
(* for good.  A call may also be lost while it is being recorded.          *)
(***************************************************************************)
CONSTANT Ops          (* completed VFS calls *)

VARIABLES
  fate,               (* what became of each call *)
  on                  (* the collector has not failed *)

Fates == {"open", "counted", "admitted", "reported",
          "refused", "seen", "disclosed", "lost"}

Type == fate \in [Ops -> Fates] /\ on \in BOOLEAN

Init == fate = [o \in Ops |-> "open"] /\ on = TRUE

(* The calls of S, all with fate from, get fate to. *)
Move(S, from, to) ==
  /\ \A o \in S : fate[o] = from
  /\ fate' = [o \in Ops |-> IF o \in S THEN to ELSE fate[o]]

Record(o) == Move({o}, "open", "counted") /\ UNCHANGED on
Refuse(o) == Move({o}, "open", "refused") /\ UNCHANGED on
Miss(o) == Move({o}, "open", "lost") /\ UNCHANGED on

(* A drain admits a set of counted calls, or fails and loses them. *)
Collect(S) == on /\ Move(S, "counted", "admitted") /\ UNCHANGED on
Fail(S) == on /\ Move(S, "counted", "lost") /\ on' = FALSE

(* The drop counter is read: every refusal so far is seen. *)
See == Move({o \in Ops : fate[o] = "refused"}, "refused", "seen") /\ UNCHANGED on

(* A sample reports everything admitted and every drop seen. *)
Publish ==
  /\ fate' = [o \in Ops |-> CASE fate[o] = "admitted" -> "reported"
                              [] fate[o] = "seen" -> "disclosed"
                              [] OTHER -> fate[o]]
  /\ UNCHANGED on

Next ==
  \/ \E o \in Ops : Record(o) \/ Refuse(o) \/ Miss(o)
  \/ \E S \in SUBSET Ops : Collect(S) \/ Fail(S)
  \/ See
  \/ Publish

Spec == Init /\ [][Next]_<<fate, on>>
=============================================================================
