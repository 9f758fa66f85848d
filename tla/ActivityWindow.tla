--------------------------- MODULE ActivityWindow ---------------------------
(***************************************************************************)
(* The ten-second window behind the hot-file list (collect/io.rs,          *)
(* VfsActivityWindow).  Every drain of the VFS table pushes a frame: how   *)
(* long it covers and what it counted.  The window keeps the frames of the *)
(* last ten seconds, cutting the oldest one when it straddles the edge, and *)
(* keeps a total per file and process, updated by adding each frame and    *)
(* subtracting what is cut, in f64.                                        *)
(*                                                                         *)
(* Time is in ticks of a drain.  A frame's counts are a rate per tick times *)
(* its ticks, so a scaled count is the rate times the ticks that remain;   *)
(* rate 0 is a key the frame does not have.  A total is its exact value and *)
(* how the f64 that holds it came about: a sum of integers is exact, and so *)
(* is a single scaled count, but a sum with scaled counts in it, or a count *)
(* subtracted in parts, may be off by a rounding error.  That matters where *)
(* the code compares a total with zero.                                    *)
(***************************************************************************)
EXTENDS Integers, Sequences, Tally

CONSTANTS
    Keys,         \* (file, process) identities, VfsActivityKey
    Window,       \* VFS_ACTIVITY_WINDOW, in ticks
    MaxDrainAge,  \* MAX_DRAIN_AGE_SECS, in ticks
    MaxElapsed,   \* bound: the longest gap between two drains
    MaxRate       \* bound: the highest rate of a key

ASSUME WindowAssumption ==
    /\ Window \in Nat \ {0}
    /\ MaxDrainAge \in 1..Window
    /\ MaxElapsed \in Nat \ {0}
    /\ MaxRate \in Nat

VARIABLES
    source,   \* whether the VFS probes are attached
    frames,   \* oldest first: [elapsed, rate]
    totals,   \* per key: [units, precision]
    elapsed,  \* the ticks the frames cover
    recent    \* for the properties: the rates of the last Window ticks

vars == <<source, frames, totals, elapsed, recent>>

Rates == [Keys -> 0..MaxRate]

Total == [units : Nat, precision : {"integer", "fraction", "rounded"}]

(* One type invariant: frames are never longer than a drain may age the    *)
(* window, and the window never covers more than its ten seconds.          *)
TypeOK ==
    /\ source \in BOOLEAN
    /\ frames \in Seq([elapsed : 1..MaxDrainAge, rate : Rates])
    /\ DOMAIN totals \subseteq Keys
    /\ \A k \in DOMAIN totals : totals[k] \in Total
    /\ elapsed \in 0..Window
    /\ recent \in Seq(Rates)

Empty == [k \in {} |-> CHOOSE total \in Total : TRUE]

Init ==
    /\ source = TRUE
    /\ frames = <<>>
    /\ totals = Empty
    /\ elapsed = 0
    /\ recent = <<>>

-----------------------------------------------------------------------------
(* subtract_vfs_counts: `rate` over `ticks` leaves the totals, as part of a *)
(* frame's counts or the whole of them.  A total is removed when its counts *)
(* compare equal to 0.0: when nothing is left and no rounding error either. *)
Subtract(sums, rate, ticks, part, left) ==
    LET hit == {k \in DOMAIN sums : rate[k] > 0}
        less == [k \in hit |->
                    [units     |-> sums[k].units - rate[k] * ticks,
                     precision |-> IF part THEN "rounded" ELSE sums[k].precision]]
        empty == {k \in hit : /\ less[k].units = 0
                              /\ less[k].precision = "rounded" => k \notin left}
    IN  [k \in DOMAIN sums \ empty |-> IF k \in hit THEN less[k] ELSE sums[k]]

(* A frame that straddles the edge is dropped like any other.              *)
CutDrops(w, left) ==
    LET front == Head(w.frames)
    IN  IF w.elapsed <= Window THEN w
        ELSE [frames  |-> Tail(w.frames),
              totals  |-> Subtract(w.totals, front.rate, front.elapsed, FALSE, left),
              elapsed |-> w.elapsed - front.elapsed]

(* One turn of trim_to's loop: the oldest frame is dropped, or cut to what *)
(* still fits.                                                             *)
Cut(w, left) ==
    LET front == Head(w.frames)
        overflow == w.elapsed - Window
    IN  IF overflow <= 0 THEN w
        ELSE IF front.elapsed <= overflow
        THEN [frames  |-> Tail(w.frames),
              totals  |-> Subtract(w.totals, front.rate, front.elapsed, FALSE, left),
              elapsed |-> w.elapsed - front.elapsed]
        ELSE [frames  |-> <<[front EXCEPT !.elapsed = @ - overflow]>>
                              \o Tail(w.frames),
              totals  |-> Subtract(w.totals, front.rate, overflow, TRUE, left),
              elapsed |-> Window]

TrimTo(w, left) ==
    LET turn[n \in 0..Len(w.frames)] ==
            IF n = 0 THEN w ELSE Cut(turn[n - 1], left)
    IN  turn[Len(w.frames)]

(* What a drain ages the window by: a stall counts for its last second.    *)
Retained(age) == IF age < MaxDrainAge THEN age ELSE MaxDrainAge

(* What adding to a total does to its precision.                          *)
Sum(precision, stalled) ==
    IF precision = "integer" /\ ~stalled THEN "integer" ELSE "rounded"

(* push: the new counts, scaled to the rate they were observed at.         *)
Pushed(rate, age) ==
    LET stalled == age > MaxDrainAge
        units == [k \in Keys |-> rate[k] * Retained(age)]
        added(k) ==
            IF k \in DOMAIN totals
            THEN [units     |-> totals[k].units + units[k],
                  precision |-> Sum(totals[k].precision, stalled)]
            ELSE [units     |-> units[k],
                  precision |-> IF stalled THEN "fraction" ELSE "integer"]
        new == {k \in Keys : rate[k] > 0}
    IN  [frames  |-> Append(frames, [elapsed |-> Retained(age), rate |-> rate]),
         totals  |-> [k \in DOMAIN totals \cup new |->
                        IF k \in new THEN added(k) ELSE totals[k]],
         elapsed |-> elapsed + Retained(age)]

LastTicks(s) == IF Len(s) <= Window THEN s
                ELSE SubSeq(s, Len(s) - Window + 1, Len(s))

(* poll_vfs_events: a drain `age` ticks after the last one.  `left` are the *)
(* keys whose rounded totals keep an error when all is subtracted.         *)
Drain ==
    /\ source
    /\ \E rate \in Rates, age \in 1..MaxElapsed, left \in SUBSET Keys :
          LET w == TrimTo(Pushed(rate, age), left)
          IN  /\ frames' = w.frames
              /\ totals' = w.totals
              /\ elapsed' = w.elapsed
              /\ recent' = LastTicks(recent \o [i \in 1..Retained(age) |-> rate])
    /\ UNCHANGED source

(* A drain fails and the capability is off for good: the window is cleared. *)
SourceLost ==
    /\ source
    /\ source' = FALSE
    /\ frames' = <<>>
    /\ totals' = Empty
    /\ elapsed' = 0
    /\ recent' = <<>>

Next == Drain \/ SourceLost

Spec == Init /\ [][Next]_vars

-----------------------------------------------------------------------------
UnitsIn(sums, k) == IF k \in DOMAIN sums THEN sums[k].units ELSE 0

(* What the last ticks counted for a key, tick by tick.                    *)
Recent(k) == Tally([i \in DOMAIN recent |-> recent[i][k]])

(* Whatever the drains' lengths, and however often a frame straddled the   *)
(* edge and was cut, the totals the ranking divides by `elapsed` are what  *)
(* the last Window ticks counted, no more and no less, for every key: the  *)
(* add-and-subtract bookkeeping of push, trim_to and subtract_vfs_counts   *)
(* agrees with a window that looked at each tick.                          *)
WindowIsRecent ==
    /\ elapsed = Len(recent)
    /\ \A k \in Keys : UnitsIn(totals, k) = Recent(k)

(* io.rs says the queue "retains only frames intersecting the last ten     *)
(* seconds and therefore has a fixed time/memory bound": a key no retained *)
(* frame has is not in the totals.  Not so: after a frame is cut, or a      *)
(* stall's scaled counts are added to others, what is left of a total is a *)
(* rounding error and not 0.0, and the key stays until it is active again. *)
IdleKeysForgotten ==
    DOMAIN totals \subseteq
        {k \in Keys : \E i \in DOMAIN frames : frames[i].rate[k] > 0}
=============================================================================
