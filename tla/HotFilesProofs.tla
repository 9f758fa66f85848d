--------------------------- MODULE HotFilesProofs ---------------------------
(***************************************************************************)
(* Proofs about the ten-second window and the hot files of a sample, for   *)
(* any keys, rates, lengths of the window and drains, and whatever /proc   *)
(* holds.  What is proved by induction is proved by a least counterexample.*)
(***************************************************************************)
EXTENDS HotFiles, FiniteSetTheorems, WellFoundedInduction, TLAPS

(* A set of naturals has a least element.                                  *)
LEMMA LeastNatural ==
    ASSUME NEW T, T \subseteq Nat, T # {}
    PROVE  \E n \in T : \A m \in T : n <= m
<1> DEFINE R == {ss \in Nat \X Nat : ss[1] < ss[2]}
<1>1. IsWellFoundedOn(R, Nat) BY NatLessThanWellFounded DEF OpToRel
<1>2. \E x \in T : \A y \in T : ~ (<<y, x>> \in R)
    <2> HIDE DEF R
    <2> QED BY <1>1, WFMin
<1>3. \A x, y \in Nat : ~ (<<y, x>> \in R) => x <= y OBVIOUS
<1> HIDE DEF R
<1> QED BY <1>2, <1>3

-----------------------------------------------------------------------------
(* A finite family of naturals has finitely many units.                    *)
LEMMA UnitsFinite ==
    ASSUME NEW f, IsFiniteSet(DOMAIN f), \A x \in DOMAIN f : f[x] \in Nat
    PROVE  IsFiniteSet(Units(f)) /\ Tally(f) \in Nat
<1> DEFINE block == [x \in DOMAIN f |-> {x} \X (1..f[x])]
           blocks == {block[x] : x \in DOMAIN f}
<1>1. block \in Surjection(DOMAIN f, blocks)
    BY DEF Surjection
<1>2. IsFiniteSet(blocks)
    BY <1>1, FS_Surjection
<1>3. ASSUME NEW x \in DOMAIN f PROVE IsFiniteSet(block[x])
    <2>1. IsFiniteSet({x}) BY FS_Singleton
    <2>2. IsFiniteSet(1..f[x])
        <3>1. f[x] \in Int /\ 1 \in Int OBVIOUS
        <3> QED BY <3>1, FS_Interval
    <2>3. IsFiniteSet({x} \X (1..f[x])) BY <2>1, <2>2, FS_Product
    <2> QED BY <2>3
<1>4. Units(f) = UNION blocks
    BY DEF Units
<1> HIDE DEF block, blocks
<1>5. \A b \in blocks : IsFiniteSet(b)
    BY <1>3 DEF blocks
<1>6. IsFiniteSet(Units(f))
    BY <1>2, <1>4, <1>5, FS_UNION
<1> QED BY <1>6, FS_CardinalityType DEF Tally

(* The sum over two families that share no index is that over both.        *)
LEMMA TallySplit ==
    ASSUME NEW f, IsFiniteSet(DOMAIN f), \A x \in DOMAIN f : f[x] \in Nat,
           NEW g, NEW h, DOMAIN f = DOMAIN g \cup DOMAIN h, DOMAIN g \cap DOMAIN h = {},
           \A x \in DOMAIN g : g[x] = f[x], \A x \in DOMAIN h : h[x] = f[x]
    PROVE  Tally(f) = Tally(g) + Tally(h)
<1>1. Units(f) = Units(g) \cup Units(h)
    <2>1. Units(f) \subseteq Units(g) \cup Units(h) BY DEF Units
    <2>2. Units(g) \subseteq Units(f) BY DEF Units
    <2>3. Units(h) \subseteq Units(f) BY DEF Units
    <2> QED BY <2>1, <2>2, <2>3
<1>2. Units(g) \cap Units(h) = {}
    BY DEF Units
<1>3. IsFiniteSet(Units(f)) BY UnitsFinite
<1>4. IsFiniteSet(Units(g)) /\ IsFiniteSet(Units(h))
    BY <1>1, <1>3, FS_Subset
<1>5. Cardinality(Units(f)) = Cardinality(Units(g)) + Cardinality(Units(h)) - Cardinality({})
    BY <1>1, <1>2, <1>4, FS_Union
<1>6. Cardinality(Units(g)) \in Nat /\ Cardinality(Units(h)) \in Nat /\ Cardinality({}) = 0
    BY <1>4, FS_CardinalityType, FS_EmptySet
<1> QED BY <1>5, <1>6 DEF Tally

(* The sum of one value, so many times.                                    *)
LEMMA TallyConstant ==
    ASSUME NEW a \in Int, NEW n \in Nat, NEW value \in Nat,
           NEW f, DOMAIN f = (a + 1)..(a + n), \A x \in DOMAIN f : f[x] = value
    PROVE  Tally(f) = value * n
<1>1. Units(f) = ((a + 1)..(a + n)) \X (1..value)
    BY DEF Units
<1>2. /\ IsFiniteSet((a + 1)..(a + n)) /\ IsFiniteSet(1..value)
      /\ Cardinality((a + 1)..(a + n)) = n /\ Cardinality(1..value) = value
    <2>1. a + 1 \in Int /\ a + n \in Int /\ value \in Int /\ 1 \in Int OBVIOUS
    <2>2. /\ IsFiniteSet((a + 1)..(a + n))
          /\ Cardinality((a + 1)..(a + n)) = IF a + 1 > a + n THEN 0 ELSE a + n - (a + 1) + 1
        BY <2>1, FS_Interval
    <2>3. IsFiniteSet(1..value) /\ Cardinality(1..value) = IF 1 > value THEN 0 ELSE value - 1 + 1
        BY <2>1, FS_Interval
    <2> QED BY <2>2, <2>3
<1>3. Cardinality(((a + 1)..(a + n)) \X (1..value)) = n * value
    <2>1. Cardinality(((a + 1)..(a + n)) \X (1..value))
          = Cardinality((a + 1)..(a + n)) * Cardinality(1..value)
        BY <1>2, FS_Product
    <2> QED BY <1>2, <2>1
<1>4. n * value = value * n OBVIOUS
<1> QED BY <1>1, <1>3, <1>4 DEF Tally

(* A sum does not depend on where its family starts.                       *)
LEMMA TallyShift ==
    ASSUME NEW d \in Int, NEW n \in Nat,
           NEW f \in [1..n -> Nat], NEW g \in [(d + 1)..(d + n) -> Nat],
           \A i \in 1..n : g[d + i] = f[i]
    PROVE  Tally(g) = Tally(f)
<1> DEFINE move == [u \in Units(f) |-> <<d + u[1], u[2]>>]
<1>1. \A u : u \in Units(f) <=> \E i \in 1..n, m \in Nat : u = <<i, m>> /\ m \in 1..f[i]
    BY DEF Units
<1>2. \A u : u \in Units(g) <=> \E i \in 1..n, m \in Nat : u = <<d + i, m>> /\ m \in 1..f[i]
    <2>1. \A j \in (d + 1)..(d + n) : j - d \in 1..n /\ j = d + (j - d) OBVIOUS
    <2>2. ASSUME NEW u \in Units(g)
          PROVE  \E i \in 1..n, m \in Nat : u = <<d + i, m>> /\ m \in 1..f[i]
        <3>0. PICK j \in DOMAIN g : \E m \in 1..g[j] : u = <<j, m>> BY DEF Units
        <3>1. PICK m \in 1..g[j] : u = <<j, m>> BY <3>0
        <3>2. j - d \in 1..n /\ j = d + (j - d) BY <2>1
        <3>3. g[j] = f[j - d] BY <3>2
        <3>4. m \in Nat /\ m \in 1..f[j - d] /\ u = <<d + (j - d), m>> BY <3>1, <3>2, <3>3
        <3> QED BY <3>2, <3>4
    <2>3. ASSUME NEW i \in 1..n, NEW m \in 1..f[i]
          PROVE  <<d + i, m>> \in Units(g)
        <3>1. d + i \in DOMAIN g /\ g[d + i] = f[i] OBVIOUS
        <3> QED BY <3>1 DEF Units
    <2> QED BY <2>2, <2>3
<1>3. move \in Bijection(Units(f), Units(g))
    <2>1. ASSUME NEW u \in Units(f) PROVE move[u] \in Units(g)
        BY <1>1, <1>2
    <2>2. ASSUME NEW u \in Units(f), NEW t \in Units(f), move[u] = move[t]
          PROVE  u = t
        <3>1. PICK i \in 1..n, m \in Nat : u = <<i, m>> BY <1>1
        <3>2. PICK j \in 1..n, l \in Nat : t = <<j, l>> BY <1>1
        <3>3. move[u] = <<d + i, m>> /\ move[t] = <<d + j, l>> BY <3>1, <3>2
        <3>4. d + i = d + j /\ m = l BY <2>2, <3>3
        <3> QED BY <3>1, <3>2, <3>4
    <2>3. ASSUME NEW t \in Units(g) PROVE \E u \in Units(f) : move[u] = t
        <3>1. PICK i \in 1..n, m \in Nat : t = <<d + i, m>> /\ m \in 1..f[i] BY <1>2
        <3>2. <<i, m>> \in Units(f) /\ move[<<i, m>>] = t BY <1>1, <3>1
        <3> QED BY <3>2
    <2> HIDE DEF move
    <2>4. move \in [Units(f) -> Units(g)] BY <2>1 DEF move
    <2> QED BY <2>2, <2>3, <2>4 DEF Bijection, Injection, Surjection, IsInjective
<1>4. IsFiniteSet(Units(f))
    <2>1. IsFiniteSet(1..n)
        <3>1. 1 \in Int /\ n \in Int OBVIOUS
        <3> QED BY <3>1, FS_Interval
    <2> QED BY <2>1, UnitsFinite
<1>5. ExistsBijection(Units(f), Units(g)) BY <1>3 DEF ExistsBijection
<1> QED BY <1>4, <1>5, FS_Bijection DEF Tally

-----------------------------------------------------------------------------
(* The turns of trim_to's loop, one after the other.                       *)
IsTurns(turn, w, left, m) ==
    turn = [n \in 0..m |-> IF n = 0 THEN w ELSE Cut(turn[n - 1], left)]

(* There are as many turns as one takes.                                   *)
LEMMA TurnsExist ==
    ASSUME NEW w, NEW left, NEW m \in Nat
    PROVE  \E turn : IsTurns(turn, w, left, m)
<1> DEFINE Bad == {k \in Nat : ~ \E turn : IsTurns(turn, w, left, k)}
<1> SUFFICES ASSUME Bad # {} PROVE FALSE
    OBVIOUS
<1>1. PICK k \in Bad : \A l \in Bad : k <= l BY LeastNatural
<1>2. k # 0
    <2> DEFINE none == [n \in 0..0 |-> w]
    <2>1. none = [n \in 0..0 |-> IF n = 0 THEN w ELSE Cut(none[n - 1], left)] OBVIOUS
    <2>2. IsTurns(none, w, left, 0) BY <2>1 DEF IsTurns
    <2> QED BY <2>2
<1>3. k - 1 \in Nat /\ k - 1 \notin Bad BY <1>1, <1>2
<1>4. PICK turn : IsTurns(turn, w, left, k - 1) BY <1>3
<1> DEFINE more == [n \in 0..k |-> IF n = k THEN Cut(turn[k - 1], left) ELSE turn[n]]
<1>5. \A n \in 0..k : more[n] = IF n = 0 THEN w ELSE Cut(more[n - 1], left)
    BY <1>1, <1>2, <1>3, <1>4 DEF IsTurns
<1>6. IsTurns(more, w, left, k)
    BY <1>5 DEF IsTurns
<1> QED BY <1>1, <1>6

(* trim_to returns the last of them.                                       *)
LEMMA TrimIsTurns ==
    ASSUME NEW w, NEW left, Len(w.frames) \in Nat
    PROVE  \E turn : /\ IsTurns(turn, w, left, Len(w.frames))
                     /\ TrimTo(w, left) = turn[Len(w.frames)]
<1> DEFINE turn == CHOOSE g : g = [n \in 0..Len(w.frames) |->
                                     IF n = 0 THEN w ELSE Cut(g[n - 1], left)]
<1>1. IsTurns(turn, w, left, Len(w.frames))
    BY TurnsExist DEF IsTurns
<1>2. TrimTo(w, left) = turn[Len(w.frames)]
    BY DEF TrimTo
<1> HIDE DEF turn
<1> QED BY <1>1, <1>2
-----------------------------------------------------------------------------
Frame == [elapsed : 1..MaxDrainAge, rate : Rates]

(* The frames cover the ticks of s after the first `from' ones, each with  *)
(* the rate of its ticks; ends[j] is where the j-th frame ends.            *)
Covers(fs, s, from) ==
    \E ends \in [0..Len(fs) -> 0..Len(s)] :
        /\ ends[0] = from /\ ends[Len(fs)] = Len(s)
        /\ \A j \in 1..Len(fs) :
              /\ ends[j] = ends[j - 1] + fs[j].elapsed
              /\ \A i \in (ends[j - 1] + 1)..ends[j] : s[i] = fs[j].rate

(* What s counts for a key after its first `from' ticks.                   *)
Counted(s, k, from) == Tally([i \in (from + 1)..Len(s) |-> s[i][k]])

Sums(sums) == DOMAIN sums \subseteq Keys /\ \A k \in DOMAIN sums : sums[k] \in Total

(* A window over the last ticks of s, of which it has the frames and sums. *)
Keeps(w, s) ==
    /\ w.frames \in Seq(Frame) /\ Sums(w.totals)
    /\ w.elapsed \in 0..Len(s)
    /\ Covers(w.frames, s, Len(s) - w.elapsed)
    /\ \A k \in Keys : UnitsIn(w.totals, k) = Counted(s, k, Len(s) - w.elapsed)

WindowInv ==
    /\ source \in BOOLEAN
    /\ recent \in Seq(Rates) /\ elapsed = Len(recent) /\ Len(recent) <= Window
    /\ Keeps([frames |-> frames, totals |-> totals, elapsed |-> elapsed], recent)

(* Seen from its place on, a run of one rate comes before the rest.        *)
LEMMA CountedSplit ==
    ASSUME NEW s \in Seq(Rates), NEW k \in Keys, NEW a \in Nat, NEW n \in Nat, a + n <= Len(s),
           NEW value \in Nat, \A i \in (a + 1)..(a + n) : s[i][k] = value
    PROVE  /\ Counted(s, k, a) = value * n + Counted(s, k, a + n)
           /\ Counted(s, k, a + n) \in Nat
<1> DEFINE f == [i \in (a + 1)..Len(s) |-> s[i][k]]
           g == [i \in (a + 1)..(a + n) |-> s[i][k]]
           h == [i \in (a + n + 1)..Len(s) |-> s[i][k]]
<1>1. MaxRate \in Nat BY WindowAssumption
<1>2. \A i \in 1..Len(s) : s[i][k] \in Nat
    BY <1>1 DEF Rates
<1>3. Len(s) \in Nat OBVIOUS
<1>4. /\ DOMAIN f = (a + 1)..Len(s) /\ DOMAIN g = (a + 1)..(a + n)
      /\ DOMAIN h = (a + n + 1)..Len(s)
      /\ \A i \in DOMAIN f : f[i] = s[i][k] /\ f[i] \in Nat
      /\ \A i \in DOMAIN g : g[i] = s[i][k]
      /\ \A i \in DOMAIN h : h[i] = s[i][k]
    BY <1>2, <1>3
<1>5. Counted(s, k, a) = Tally(f) /\ Counted(s, k, a + n) = Tally(h)
    BY DEF Counted
<1> HIDE DEF f, g, h
<1>6. /\ DOMAIN f = DOMAIN g \cup DOMAIN h /\ DOMAIN g \cap DOMAIN h = {}
      /\ \A i \in DOMAIN g : g[i] = f[i]
      /\ \A i \in DOMAIN h : h[i] = f[i] /\ h[i] \in Nat
    BY <1>3, <1>4
<1>7. IsFiniteSet(DOMAIN f) /\ IsFiniteSet(DOMAIN h)
    <2>1. a + 1 \in Int /\ a + n + 1 \in Int /\ Len(s) \in Int BY <1>3
    <2>2. IsFiniteSet((a + 1)..Len(s)) BY <2>1, FS_Interval
    <2>3. IsFiniteSet((a + n + 1)..Len(s)) BY <2>1, FS_Interval
    <2> QED BY <1>4, <2>2, <2>3
<1>8. Tally(f) = Tally(g) + Tally(h)
    <2>1. \A i \in DOMAIN f : f[i] \in Nat BY <1>4
    <2>2. \A i \in DOMAIN h : h[i] = f[i] BY <1>6
    <2>3. DOMAIN f = DOMAIN g \cup DOMAIN h /\ DOMAIN g \cap DOMAIN h = {} BY <1>6
    <2>4. \A i \in DOMAIN g : g[i] = f[i] BY <1>6
    <2>5. IsFiniteSet(DOMAIN f) BY <1>7
    <2> QED BY <2>1, <2>2, <2>3, <2>4, <2>5, TallySplit
<1>9. Tally(g) = value * n
    <2>1. \A i \in DOMAIN g : g[i] = value BY <1>4
    <2>2. a \in Int /\ DOMAIN g = (a + 1)..(a + n) BY <1>4
    <2> QED BY <2>1, <2>2, TallyConstant
<1>10. Tally(h) \in Nat BY <1>6, <1>7, UnitsFinite
<1> QED BY <1>5, <1>8, <1>9, <1>10

(* What a window subtracts is gone from its sums, though a key whose counts*)
(* were rounded may stay with nothing.                                     *)
LEMMA Subtracted ==
    ASSUME NEW sums, Sums(sums), NEW rate \in Rates, NEW ticks \in Nat \ {0},
           NEW part, NEW left, NEW rest \in [Keys -> Nat],
           \A k \in Keys : UnitsIn(sums, k) = rate[k] * ticks + rest[k]
    PROVE  /\ Sums(Subtract(sums, rate, ticks, part, left))
           /\ \A k \in Keys : UnitsIn(Subtract(sums, rate, ticks, part, left), k) = rest[k]
<1> DEFINE hit == {k \in DOMAIN sums : rate[k] > 0}
           less == [k \in hit |->
                        [units     |-> sums[k].units - rate[k] * ticks,
                         precision |-> IF part THEN "rounded" ELSE sums[k].precision]]
           empty == {k \in hit : /\ less[k].units = 0
                                 /\ less[k].precision = "rounded" => k \notin left}
           after == [k \in DOMAIN sums \ empty |-> IF k \in hit THEN less[k] ELSE sums[k]]
<1>1. Subtract(sums, rate, ticks, part, left) = after
    BY DEF Subtract
<1>2. \A k \in Keys : rate[k] \in Nat
    BY WindowAssumption DEF Rates
<1>3. hit \subseteq DOMAIN sums /\ empty \subseteq hit /\ DOMAIN sums \subseteq Keys
    BY DEF Sums
<1>4. \A k \in DOMAIN sums : sums[k].units \in Nat /\ sums[k].precision \in {"integer", "fraction", "rounded"}
                             /\ sums[k] = [units |-> sums[k].units, precision |-> sums[k].precision]
    BY DEF Sums, Total
<1>5. \A k \in hit : less[k].units = rest[k]
    <2> SUFFICES ASSUME NEW k \in hit PROVE less[k].units = rest[k]
        OBVIOUS
    <2>1. k \in Keys /\ k \in DOMAIN sums BY <1>3
    <2>2. UnitsIn(sums, k) = sums[k].units BY <2>1 DEF UnitsIn
    <2>3. sums[k].units = rate[k] * ticks + rest[k] BY <2>1, <2>2
    <2>4. rate[k] * ticks \in Nat BY <1>2, <2>1
    <2>5. less[k].units = sums[k].units - rate[k] * ticks OBVIOUS
    <2>6. rest[k] \in Nat BY <2>1
    <2> HIDE DEF less
    <2> QED BY <2>3, <2>4, <2>5, <2>6
<1>6. \A k \in hit : less[k] \in Total
    <2> SUFFICES ASSUME NEW k \in hit PROVE less[k] \in Total
        OBVIOUS
    <2>1. less[k] = [units |-> less[k].units, precision |-> less[k].precision] OBVIOUS
    <2>2. less[k].precision \in {"integer", "fraction", "rounded"} BY <1>3, <1>4
    <2>3. less[k].units \in Nat BY <1>3, <1>5
    <2> HIDE DEF less
    <2> QED BY <2>1, <2>2, <2>3 DEF Total
<1>7. \A k \in Keys \ hit : UnitsIn(sums, k) = rest[k]
    <2> SUFFICES ASSUME NEW k \in Keys \ hit PROVE UnitsIn(sums, k) = rest[k]
        OBVIOUS
    <2>1. UnitsIn(sums, k) = rate[k] * ticks + rest[k] /\ rest[k] \in Nat /\ rate[k] \in Nat BY <1>2
    <2>2. CASE rate[k] = 0
        <3>1. 0 * ticks = 0 OBVIOUS
        <3> QED BY <2>1, <2>2, <3>1
    <2>3. CASE rate[k] > 0
        <3>1. k \notin DOMAIN sums BY <2>3
        <3>2. UnitsIn(sums, k) = 0 BY <3>1 DEF UnitsIn
        <3>3. \A m, n \in Nat \ {0} : m * n > 0 OBVIOUS
        <3>4. rate[k] * ticks \in Nat /\ rate[k] * ticks > 0 BY <2>1, <2>3, <3>3
        <3> QED BY <2>1, <3>2, <3>4
    <2> QED BY <2>1, <2>2, <2>3
<1>8. \A k \in empty : less[k].units = 0 OBVIOUS
<1>9. /\ DOMAIN after = DOMAIN sums \ empty
      /\ \A k \in DOMAIN after : after[k] = IF k \in hit THEN less[k] ELSE sums[k]
    OBVIOUS
<1> HIDE DEF hit, less, empty, after
<1>10. Sums(after)
    BY <1>3, <1>6, <1>9 DEF Sums
<1>11. \A k \in Keys : UnitsIn(after, k) = rest[k]
    <2> SUFFICES ASSUME NEW k \in Keys PROVE UnitsIn(after, k) = rest[k]
        OBVIOUS
    <2>1. CASE k \in empty
        BY <1>3, <1>5, <1>8, <1>9, <2>1 DEF UnitsIn
    <2>2. CASE k \in hit \ empty
        BY <1>3, <1>5, <1>9, <2>2 DEF UnitsIn
    <2>3. CASE k \notin hit
        <3>1. UnitsIn(after, k) = UnitsIn(sums, k) BY <1>3, <1>9, <2>3 DEF UnitsIn
        <3> QED BY <1>7, <2>3, <3>1
    <2> QED BY <2>1, <2>2, <2>3
<1> QED BY <1>1, <1>10, <1>11


(* The first frame is of the first ticks, and what is left of it or after  *)
(* it covers the others.                                                   *)
LEMMA CoversHead ==
    ASSUME NEW s \in Seq(Rates), NEW fs \in Seq(Frame), fs # <<>>, NEW from \in 0..Len(s),
           Covers(fs, s, from)
    PROVE  LET front == Head(fs)
           IN  /\ front \in Frame /\ from + front.elapsed <= Len(s)
               /\ \A i \in (from + 1)..(from + front.elapsed) : s[i] = front.rate
               /\ Covers(Tail(fs), s, from + front.elapsed)
               /\ \A n \in 1..(front.elapsed - 1) :
                     Covers(<<[front EXCEPT !.elapsed = @ - n]>> \o Tail(fs), s, from + n)
<1> DEFINE front == Head(fs)
<1>1. /\ Len(fs) \in Nat \ {0} /\ Len(s) \in Nat /\ from \in Nat
      /\ front = fs[1] /\ front \in Frame
      /\ \A j \in 1..Len(fs) : fs[j] \in Frame
    OBVIOUS
<1>2. \A frame \in Frame : frame.elapsed \in Nat \ {0} /\ frame.elapsed \in 1..MaxDrainAge /\ frame.rate \in Rates
    BY WindowAssumption DEF Frame
<1>3. PICK ends \in [0..Len(fs) -> 0..Len(s)] :
        /\ ends[0] = from /\ ends[Len(fs)] = Len(s)
        /\ \A j \in 1..Len(fs) :
              /\ ends[j] = ends[j - 1] + fs[j].elapsed
              /\ \A i \in (ends[j - 1] + 1)..ends[j] : s[i] = fs[j].rate
    BY DEF Covers
<1>4. ends[1] = from + front.elapsed /\ ends[1] \in 0..Len(s)
      /\ \A i \in (from + 1)..ends[1] : s[i] = front.rate
    <2>1. 1 \in 1..Len(fs) /\ 1 - 1 = 0 /\ 1 \in 0..Len(fs) BY <1>1
    <2> QED BY <1>1, <1>3, <2>1
<1>5. /\ Tail(fs) \in Seq(Frame) /\ Len(Tail(fs)) = Len(fs) - 1
      /\ \A j \in 1..(Len(fs) - 1) : Tail(fs)[j] = fs[j + 1]
    OBVIOUS
<1>6. Covers(Tail(fs), s, from + front.elapsed)
    <2> DEFINE later == [j \in 0..(Len(fs) - 1) |-> ends[j + 1]]
    <2>1. later \in [0..Len(Tail(fs)) -> 0..Len(s)] BY <1>1, <1>3, <1>5
    <2>2. later[0] = from + front.elapsed BY <1>1, <1>4
    <2>3. later[Len(Tail(fs))] = Len(s) BY <1>1, <1>3, <1>5
    <2>4. ASSUME NEW j \in 1..Len(Tail(fs))
          PROVE  /\ later[j] = later[j - 1] + Tail(fs)[j].elapsed
                 /\ \A i \in (later[j - 1] + 1)..later[j] : s[i] = Tail(fs)[j].rate
        <3>1. j + 1 \in 1..Len(fs) /\ j \in 0..(Len(fs) - 1) /\ j - 1 \in 0..(Len(fs) - 1)
            BY <1>1, <1>5
        <3>2. later[j] = ends[j + 1] /\ later[j - 1] = ends[j] /\ Tail(fs)[j] = fs[j + 1]
            BY <1>5, <3>1
        <3>3. (j + 1) - 1 = j OBVIOUS
        <3> HIDE DEF later
        <3> QED BY <1>3, <3>1, <3>2, <3>3
    <2> HIDE DEF later
    <2> QED BY <2>1, <2>2, <2>3, <2>4 DEF Covers
<1>7. ASSUME NEW n \in 1..(front.elapsed - 1)
      PROVE  Covers(<<[front EXCEPT !.elapsed = @ - n]>> \o Tail(fs), s, from + n)
    <2> DEFINE short == [front EXCEPT !.elapsed = @ - n]
               cut == <<short>> \o Tail(fs)
               later == [j \in 0..Len(fs) |-> IF j = 0 THEN from + n ELSE ends[j]]
    <2>1. short.elapsed = front.elapsed - n /\ short.rate = front.rate
        BY <1>1 DEF Frame
    <2>2. /\ Len(cut) = Len(fs) /\ cut[1] = short
          /\ \A j \in 2..Len(fs) : cut[j] = fs[j]
        <3> HIDE DEF short
        <3>1. <<short>> \in Seq({short}) /\ Len(<<short>>) = 1 /\ <<short>>[1] = short OBVIOUS
        <3>2. Len(cut) = 1 + Len(Tail(fs)) BY <1>5, <3>1
        <3>3. cut[1] = short BY <1>5, <3>1
        <3>4. \A j \in 2..Len(fs) : cut[j] = Tail(fs)[j - 1] BY <1>1, <1>5, <3>1
        <3>5. \A j \in 2..Len(fs) : j - 1 \in 1..(Len(fs) - 1) /\ (j - 1) + 1 = j BY <1>1
        <3> QED BY <1>1, <1>5, <3>2, <3>3, <3>4, <3>5
    <2> HIDE DEF short, cut
    <2>3. front.elapsed \in Nat /\ n \in Nat /\ from + n <= ends[1] BY <1>1, <1>2, <1>4
    <2>4. from + n \in 0..Len(s) BY <1>1, <1>4, <2>3
    <2>5. later \in [0..Len(cut) -> 0..Len(s)] BY <1>1, <1>3, <2>2, <2>4
    <2>6. later[0] = from + n /\ later[Len(cut)] = Len(s) BY <1>1, <1>3, <2>2
    <2>7. ASSUME NEW j \in 1..Len(cut)
          PROVE  /\ later[j] = later[j - 1] + cut[j].elapsed
                 /\ \A i \in (later[j - 1] + 1)..later[j] : s[i] = cut[j].rate
        <3>1. j \in 1..Len(fs) BY <2>2
        <3>2. CASE j = 1
            <4>1. later[1] = ends[1] /\ later[1 - 1] = from + n BY <1>1
            <4>2. cut[1].elapsed = front.elapsed - n /\ cut[1].rate = front.rate BY <2>1, <2>2
            <4>3. ends[1] = (from + n) + (front.elapsed - n) BY <1>1, <1>4, <2>3
            <4>4. \A i \in (from + n + 1)..ends[1] : i \in (from + 1)..ends[1]
                BY <1>1, <1>4, <2>3
            <4> HIDE DEF later
            <4> QED BY <1>4, <3>2, <4>1, <4>2, <4>3, <4>4
        <3>3. CASE j # 1
            <4>1. j \in 2..Len(fs) /\ j - 1 \in 0..Len(fs) /\ j - 1 # 0 BY <3>1, <3>3
            <4>2. later[j] = ends[j] /\ later[j - 1] = ends[j - 1] /\ cut[j] = fs[j]
                BY <2>2, <3>1, <4>1
            <4> HIDE DEF later
            <4> QED BY <1>3, <3>1, <4>2
        <3> QED BY <3>2, <3>3
    <2> HIDE DEF later
    <2>8. Covers(cut, s, from + n) BY <2>5, <2>6, <2>7 DEF Covers
    <2> QED BY <2>8 DEF cut, short
<1> QED BY <1>1, <1>4, <1>6, <1>7


(* A turn of trim_to drops the oldest frame or cuts it to the window.      *)
LEMMA CutKeeps ==
    ASSUME NEW s \in Seq(Rates), NEW w, Keeps(w, s), NEW left
    PROVE  /\ Keeps(Cut(w, left), s)
           /\ w.elapsed <= Window => Cut(w, left) = w
           /\ w.elapsed > Window =>
                 /\ Cut(w, left).elapsed >= Window
                 /\ \/ Cut(w, left).elapsed = Window
                    \/ Len(Cut(w, left).frames) = Len(w.frames) - 1
<1> DEFINE front == Head(w.frames)
           overflow == w.elapsed - Window
           from == Len(s) - w.elapsed
<1>1. /\ Window \in Nat \ {0} /\ Len(s) \in Nat /\ w.elapsed \in 0..Len(s)
      /\ w.frames \in Seq(Frame) /\ Sums(w.totals) /\ Covers(w.frames, s, from)
      /\ \A k \in Keys : UnitsIn(w.totals, k) = Counted(s, k, from)
    BY WindowAssumption DEF Keeps
<1>2. CASE w.elapsed <= Window
    <2>1. w.elapsed - Window <= 0 BY <1>1, <1>2
    <2>2. Cut(w, left) = w BY <2>1 DEF Cut
    <2> QED BY <1>1, <1>2, <2>2
<1>3. CASE w.elapsed > Window
    <2>1. from \in 0..Len(s) /\ overflow \in Nat \ {0} BY <1>1, <1>3
    <2>2. w.frames # <<>>
        <3> SUFFICES ASSUME w.frames = <<>> PROVE FALSE
            OBVIOUS
        <3>1. Len(w.frames) = 0 OBVIOUS
        <3>2. from = Len(s) BY <1>1, <3>1 DEF Covers
        <3> QED BY <1>1, <1>3, <3>2
    <2>3. /\ front \in Frame /\ from + front.elapsed <= Len(s)
          /\ \A i \in (from + 1)..(from + front.elapsed) : s[i] = front.rate
          /\ Covers(Tail(w.frames), s, from + front.elapsed)
          /\ \A n \in 1..(front.elapsed - 1) :
                Covers(<<[front EXCEPT !.elapsed = @ - n]>> \o Tail(w.frames), s, from + n)
        BY <1>1, <2>1, <2>2, CoversHead
    <2>4. /\ front.elapsed \in Nat \ {0} /\ front.elapsed \in 1..MaxDrainAge /\ front.rate \in Rates
          /\ front = [elapsed |-> front.elapsed, rate |-> front.rate]
        BY <2>3, WindowAssumption DEF Frame
    <2>5. ASSUME NEW n \in 1..front.elapsed, NEW part
          PROVE  LET sums == Subtract(w.totals, front.rate, n, part, left)
                 IN  /\ Sums(sums)
                     /\ \A k \in Keys : UnitsIn(sums, k) = Counted(s, k, from + n)
        <3> DEFINE rest == [k \in Keys |-> Counted(s, k, from + n)]
        <3>1. n \in Nat \ {0} /\ from \in Nat /\ from + n <= Len(s)
            <4>1. Len(s) \in Nat /\ from \in 0..Len(s) BY <1>1, <2>1
            <4>2. front.elapsed \in Nat /\ from + front.elapsed <= Len(s) BY <2>3, <2>4
            <4> HIDE DEF front, from
            <4>3. n \in Nat \ {0} /\ n <= front.elapsed BY <4>2
            <4> QED BY <4>1, <4>2, <4>3
        <3>2. \A k \in Keys : front.rate[k] \in Nat BY <2>4, WindowAssumption DEF Rates
        <3>3. ASSUME NEW k \in Keys
              PROVE  /\ UnitsIn(w.totals, k) = front.rate[k] * n + Counted(s, k, from + n)
                     /\ Counted(s, k, from + n) \in Nat
            <4>1. \A i \in (from + 1)..(from + n) : s[i][k] = front.rate[k]
                BY <2>1, <2>3, <2>4, <3>1
            <4>2. /\ Counted(s, k, from) = front.rate[k] * n + Counted(s, k, from + n)
                  /\ Counted(s, k, from + n) \in Nat
                <5> HIDE DEF from, front
                <5> QED BY <3>1, <3>2, <4>1, CountedSplit
            <4> QED BY <1>1, <4>2
        <3>4. /\ rest \in [Keys -> Nat]
              /\ \A k \in Keys : UnitsIn(w.totals, k) = front.rate[k] * n + rest[k]
            BY <3>3
        <3>5. \A k \in Keys : rest[k] = Counted(s, k, from + n) OBVIOUS
        <3> HIDE DEF rest, front, from
        <3>6. /\ Sums(Subtract(w.totals, front.rate, n, part, left))
              /\ \A k \in Keys : UnitsIn(Subtract(w.totals, front.rate, n, part, left), k) = rest[k]
            BY <1>1, <2>4, <3>1, <3>4, Subtracted
        <3> QED BY <3>5, <3>6
    <2>6. CASE front.elapsed <= overflow
        <3> DEFINE sums == Subtract(w.totals, front.rate, front.elapsed, FALSE, left)
        <3>1. Cut(w, left) = [frames |-> Tail(w.frames), totals |-> sums,
                              elapsed |-> w.elapsed - front.elapsed]
            BY <1>1, <1>3, <2>1, <2>6 DEF Cut
        <3>2. Sums(sums) /\ \A k \in Keys : UnitsIn(sums, k) = Counted(s, k, from + front.elapsed)
            <4>1. front.elapsed \in 1..front.elapsed BY <2>4
            <4> HIDE DEF front
            <4> QED BY <2>5, <4>1
        <3>3. Len(s) - (w.elapsed - front.elapsed) = from + front.elapsed BY <1>1, <2>4
        <3>4. Tail(w.frames) \in Seq(Frame) /\ Len(Tail(w.frames)) = Len(w.frames) - 1
            BY <1>1, <2>2
        <3>5. w.elapsed - front.elapsed \in 0..Len(s) /\ w.elapsed - front.elapsed >= Window
            <4>1. w.elapsed \in Nat /\ Window \in Nat /\ front.elapsed \in Nat /\ w.elapsed <= Len(s) /\ Len(s) \in Nat
                BY <1>1, <2>4
            <4>2. front.elapsed <= w.elapsed - Window BY <2>6
            <4> HIDE DEF front, overflow
            <4> QED BY <4>1, <4>2
        <3> HIDE DEF sums, front, from, overflow
        <3>6. Keeps(Cut(w, left), s)
            BY <2>3, <3>1, <3>2, <3>3, <3>4, <3>5 DEF Keeps
        <3> QED BY <1>1, <1>3, <3>1, <3>4, <3>5, <3>6
    <2>7. CASE front.elapsed > overflow
        <3> DEFINE sums == Subtract(w.totals, front.rate, overflow, TRUE, left)
                   short == [front EXCEPT !.elapsed = @ - overflow]
                   cut == <<short>> \o Tail(w.frames)
        <3>1. Cut(w, left) = [frames |-> cut, totals |-> sums, elapsed |-> Window]
            BY <1>1, <1>3, <2>1, <2>4, <2>7 DEF Cut
        <3>2. overflow \in 1..(front.elapsed - 1) /\ overflow \in 1..front.elapsed
            BY <2>1, <2>4, <2>7
        <3>3. Sums(sums) /\ \A k \in Keys : UnitsIn(sums, k) = Counted(s, k, from + overflow)
            BY <2>5, <3>2
        <3>4. Covers(cut, s, from + overflow) BY <2>3, <3>2
        <3>5. Len(s) - Window = from + overflow BY <1>1
        <3>6. short \in Frame
            <4>1. short = [elapsed |-> front.elapsed - overflow, rate |-> front.rate]
                BY <2>4
            <4>2. front.elapsed - overflow \in 1..MaxDrainAge
                BY <2>1, <2>4, <2>7, WindowAssumption
            <4> HIDE DEF short
            <4> QED BY <2>4, <4>1, <4>2 DEF Frame
        <3>7. cut \in Seq(Frame)
            <4> HIDE DEF short, front
            <4> QED BY <1>1, <2>2, <3>6
        <3>8. Window \in 0..Len(s) BY <1>1, <1>3
        <3> HIDE DEF sums, short, cut, front, from, overflow
        <3>9. Keeps(Cut(w, left), s)
            BY <3>1, <3>3, <3>4, <3>5, <3>7, <3>8 DEF Keeps
        <3> QED BY <1>1, <1>3, <3>1, <3>9
    <2> QED BY <2>1, <2>4, <2>6, <2>7
<1> QED BY <1>1, <1>2, <1>3

(* After all turns the window covers its ten seconds, or all there is.     *)
LEMMA TrimKeeps ==
    ASSUME NEW s \in Seq(Rates), NEW w, Keeps(w, s), NEW left
    PROVE  /\ Keeps(TrimTo(w, left), s)
           /\ TrimTo(w, left).elapsed = IF w.elapsed <= Window THEN w.elapsed ELSE Window
<1> DEFINE L == Len(w.frames)
<1>1. /\ Window \in Nat \ {0} /\ Len(s) \in Nat /\ w.elapsed \in 0..Len(s) /\ L \in Nat
    BY WindowAssumption DEF Keeps
<1>2. PICK turn : IsTurns(turn, w, left, L) /\ TrimTo(w, left) = turn[L]
    BY <1>1, TrimIsTurns
<1>3. turn[0] = w /\ \A n \in 1..L : turn[n] = Cut(turn[n - 1], left)
    <2>1. turn = [n \in 0..L |-> IF n = 0 THEN w ELSE Cut(turn[n - 1], left)]
        BY <1>2 DEF IsTurns
    <2>2. \A n \in 0..L : turn[n] = IF n = 0 THEN w ELSE Cut(turn[n - 1], left)
        <3> HIDE DEF L
        <3> QED BY <2>1, Zenon
    <2>3. 0 \in 0..L /\ \A n \in 1..L : n \in 0..L /\ n # 0
        <3> HIDE DEF L
        <3> QED BY <1>1
    <2> HIDE DEF L
    <2> QED BY <2>2, <2>3
<1> DEFINE Good(n) ==
              /\ Keeps(turn[n], s)
              /\ w.elapsed <= Window => turn[n].elapsed = w.elapsed
              /\ w.elapsed > Window =>
                    /\ turn[n].elapsed >= Window
                    /\ turn[n].elapsed = Window \/ Len(turn[n].frames) = L - n
           Bad == {n \in 0..L : ~Good(n)}
<1> HIDE DEF L
<1>4. Bad = {}
    <2> SUFFICES ASSUME Bad # {} PROVE FALSE
        OBVIOUS
    <2>1. PICK n \in Bad : \A m \in Bad : n <= m
        <3>1. Bad \subseteq Nat BY <1>1
        <3> HIDE DEF Bad
        <3> QED BY <3>1, LeastNatural
    <2>2. n # 0
        <3>1. Good(0) BY <1>1, <1>3 DEF L
        <3> QED BY <2>1, <3>1
    <2>3. n \in 1..L /\ n - 1 \in 0..L /\ n - 1 < n /\ n \in Nat BY <1>1, <2>1, <2>2
    <2>4. Good(n - 1)
        <3>1. ~ (n <= n - 1) BY <2>3
        <3>2. n - 1 \notin Bad
            <4> HIDE DEF Bad
            <4> QED BY <2>1, <3>1
        <3> HIDE DEF Good
        <3> QED BY <2>3, <3>2
    <2>5. Keeps(turn[n - 1], s) BY <2>4
    <2>6. /\ Keeps(Cut(turn[n - 1], left), s)
          /\ turn[n - 1].elapsed <= Window => Cut(turn[n - 1], left) = turn[n - 1]
          /\ turn[n - 1].elapsed > Window =>
                /\ Cut(turn[n - 1], left).elapsed >= Window
                /\ \/ Cut(turn[n - 1], left).elapsed = Window
                   \/ Len(Cut(turn[n - 1], left).frames) = Len(turn[n - 1].frames) - 1
        BY <2>5, CutKeeps
    <2>7. turn[n] = Cut(turn[n - 1], left) BY <1>3, <2>3
    <2>8. turn[n - 1].elapsed \in Int /\ turn[n].elapsed \in Int
        BY <2>5, <2>6, <2>7 DEF Keeps
    <2>9. Good(n)
        <3>1. Keeps(turn[n], s) BY <2>6, <2>7
        <3>2. w.elapsed <= Window => turn[n].elapsed = w.elapsed
            BY <2>4, <2>6, <2>7
        <3>3. ASSUME w.elapsed > Window
              PROVE  /\ turn[n].elapsed >= Window
                     /\ turn[n].elapsed = Window \/ Len(turn[n].frames) = L - n
            <4>1. /\ turn[n - 1].elapsed >= Window
                  /\ turn[n - 1].elapsed = Window \/ Len(turn[n - 1].frames) = L - (n - 1)
                BY <2>4, <3>3
            <4>2. CASE turn[n - 1].elapsed = Window
                BY <1>1, <2>6, <2>7, <4>2
            <4>3. CASE turn[n - 1].elapsed > Window
                <5>1. Len(turn[n - 1].frames) = L - (n - 1) BY <1>1, <4>1, <4>3
                <5>2. L - (n - 1) - 1 = L - n BY <1>1, <2>3
                <5> QED BY <2>6, <2>7, <4>3, <5>1, <5>2
            <4> QED BY <1>1, <2>8, <4>1, <4>2, <4>3
        <3> QED BY <3>1, <3>2, <3>3
    <2> QED BY <2>1, <2>9
<1>5. Good(L)
    <2>1. L \in 0..L BY <1>1
    <2> QED BY <1>4, <2>1
<1>6. w.elapsed > Window => turn[L].elapsed = Window
    <2> SUFFICES ASSUME w.elapsed > Window, Len(turn[L].frames) = 0 PROVE FALSE
        BY <1>1, <1>5
    <2>1. Covers(turn[L].frames, s, Len(s) - turn[L].elapsed) BY <1>5 DEF Keeps
    <2>2. Len(s) - turn[L].elapsed = Len(s) BY <2>1 DEF Covers
    <2>3. turn[L].elapsed \in 0..Len(s) BY <1>5 DEF Keeps
    <2> QED BY <1>1, <1>5, <2>2, <2>3
<1> QED BY <1>1, <1>2, <1>5, <1>6

(* The ticks before a frame's end are not those before the window.         *)
LEMMA CoversRest ==
    ASSUME NEW s \in Seq(Rates), NEW w, Keeps(w, s), NEW r \in Seq(Rates), Len(r) = w.elapsed,
           \A i \in 1..Len(r) : r[i] = s[(Len(s) - w.elapsed) + i]
    PROVE  Keeps(w, r)
<1> DEFINE d == Len(s) - w.elapsed
           fs == w.frames
<1>1. /\ Len(s) \in Nat /\ w.elapsed \in 0..Len(s) /\ fs \in Seq(Frame) /\ Len(fs) \in Nat
      /\ Sums(w.totals) /\ Covers(fs, s, d)
      /\ \A k \in Keys : UnitsIn(w.totals, k) = Counted(s, k, d)
    BY DEF Keeps
<1>2. d \in 0..Len(s) /\ Len(s) = d + Len(r) /\ Len(r) \in Nat BY <1>1
<1>3. PICK ends \in [0..Len(fs) -> 0..Len(s)] :
        /\ ends[0] = d /\ ends[Len(fs)] = Len(s)
        /\ \A j \in 1..Len(fs) :
              /\ ends[j] = ends[j - 1] + fs[j].elapsed
              /\ \A i \in (ends[j - 1] + 1)..ends[j] : s[i] = fs[j].rate
    BY <1>1 DEF Covers
<1>4. \A i \in 1..Len(r) : r[i] = s[d + i] OBVIOUS
<1> HIDE DEF d, fs
<1>5. \A j \in 1..Len(fs) : fs[j].elapsed \in Nat
    <2>1. \A j \in 1..Len(fs) : fs[j] \in Frame BY <1>1
    <2>2. \A frame \in Frame : frame.elapsed \in Nat BY WindowAssumption DEF Frame
    <2> QED BY <2>1, <2>2
<1>6. \A j \in 0..Len(fs) : ends[j] >= d
    <2> DEFINE Bad == {j \in 0..Len(fs) : ~ (ends[j] >= d)}
    <2> SUFFICES ASSUME Bad # {} PROVE FALSE
        OBVIOUS
    <2>1. PICK j \in Bad : \A l \in Bad : j <= l
        <3>1. Bad \subseteq Nat BY <1>1
        <3> HIDE DEF Bad
        <3> QED BY <3>1, LeastNatural
    <2>2. j # 0 BY <1>2, <1>3, <2>1
    <2>3. j \in 1..Len(fs) /\ j - 1 \in 0..Len(fs) /\ ~ (j <= j - 1) BY <1>1, <2>1, <2>2
    <2>4. j - 1 \notin Bad
        <3> HIDE DEF Bad
        <3> QED BY <2>1, <2>3
    <2>5. ends[j - 1] >= d BY <2>3, <2>4
    <2>7. ends[j - 1] \in Int /\ ends[j] \in Int
        <3>1. j \in 0..Len(fs) BY <2>1
        <3>2. 0..Len(s) \subseteq Int BY <1>1
        <3> HIDE DEF Bad
        <3>3. ends[j - 1] \in 0..Len(s) BY <2>3
        <3>4. ends[j] \in 0..Len(s) BY <3>1
        <3> QED BY <3>2, <3>3, <3>4
    <2>6. ends[j] = ends[j - 1] + fs[j].elapsed BY <1>3, <2>3
    <2> QED BY <1>2, <1>5, <2>1, <2>3, <2>5, <2>6, <2>7
<1>7. Covers(fs, r, 0)
    <2> DEFINE later == [j \in 0..Len(fs) |-> ends[j] - d]
    <2>1. later \in [0..Len(fs) -> 0..Len(r)] BY <1>2, <1>3, <1>6
    <2>2. later[0] = 0 /\ later[Len(fs)] = Len(r) BY <1>1, <1>2, <1>3
    <2>3. ASSUME NEW j \in 1..Len(fs)
          PROVE  /\ later[j] = later[j - 1] + fs[j].elapsed
                 /\ \A i \in (later[j - 1] + 1)..later[j] : r[i] = fs[j].rate
        <3>1. j \in 0..Len(fs) /\ j - 1 \in 0..Len(fs) BY <1>1
        <3>2. later[j] = ends[j] - d /\ later[j - 1] = ends[j - 1] - d BY <3>1
        <3>3. ends[j] \in 0..Len(s) /\ ends[j - 1] \in 0..Len(s) /\ ends[j - 1] >= d /\ ends[j] >= d
            BY <1>3, <1>6, <3>1
        <3>4. ends[j] = ends[j - 1] + fs[j].elapsed BY <1>3
        <3> HIDE DEF later
        <3>5. later[j] = later[j - 1] + fs[j].elapsed BY <1>2, <1>5, <3>2, <3>3, <3>4
        <3>6. ASSUME NEW i \in (later[j - 1] + 1)..later[j] PROVE r[i] = fs[j].rate
            <4>1. i \in 1..Len(r) /\ d + i \in (ends[j - 1] + 1)..ends[j]
                BY <1>2, <3>2, <3>3
            <4>2. r[i] = s[d + i] BY <1>4, <4>1
            <4>3. s[d + i] = fs[j].rate BY <1>3, <4>1
            <4> QED BY <4>2, <4>3
        <3> QED BY <3>5, <3>6
    <2> HIDE DEF later
    <2> QED BY <2>1, <2>2, <2>3 DEF Covers
<1>8. ASSUME NEW k \in Keys PROVE UnitsIn(w.totals, k) = Counted(r, k, 0)
    <2> DEFINE f == [i \in (0 + 1)..Len(r) |-> r[i][k]]
               g == [i \in (d + 1)..Len(s) |-> s[i][k]]
    <2>1. Counted(r, k, 0) = Tally(f) /\ Counted(s, k, d) = Tally(g) BY DEF Counted
    <2>2. DOMAIN f = 1..Len(r) /\ DOMAIN g = (d + 1)..(d + Len(r)) BY <1>2
    <2>3. \A i \in 1..Len(r) : f[i] = r[i][k] /\ f[i] \in Nat
        <3>1. \A i \in 1..Len(r) : r[i][k] \in Nat BY WindowAssumption DEF Rates
        <3> QED BY <2>2, <3>1
    <2>4. \A i \in 1..Len(r) : g[d + i] = s[d + i][k]
        <3>1. \A i \in 1..Len(r) : d + i \in (d + 1)..Len(s) BY <1>2
        <3> QED BY <3>1
    <2> HIDE DEF f, g
    <2>5. \A i \in 1..Len(r) : g[d + i] = f[i] BY <1>4, <2>3, <2>4
    <2>6. d \in Int /\ Len(r) \in Nat /\ \A i \in 1..Len(r) : f[i] \in Nat BY <1>2, <2>3
    <2>7. Tally(g) = Tally(f)
        <3>1. d \in Int /\ Len(r) \in Nat BY <2>6
        <3>2. f \in [1..Len(r) -> Nat]
            <4>1. f = [i \in 1..Len(r) |-> f[i]] BY <2>2 DEF f
            <4> QED BY <2>6, <4>1
        <3>3. g \in [(d + 1)..(d + Len(r)) -> Nat]
            <4>1. g = [i \in (d + 1)..(d + Len(r)) |-> g[i]] BY <1>2 DEF g
            <4>2. \A i \in (d + 1)..(d + Len(r)) : i - d \in 1..Len(r) /\ i = d + (i - d)
                BY <1>2
            <4>3. \A i \in (d + 1)..(d + Len(r)) : g[i] = f[i - d] BY <2>5, <4>2
            <4>4. \A i \in (d + 1)..(d + Len(r)) : g[i] \in Nat BY <2>6, <4>2, <4>3
            <4> QED BY <4>1, <4>4
        <3> QED BY <2>5, <3>1, <3>2, <3>3, TallyShift
    <2> QED BY <1>1, <2>1, <2>7
<1>9. Len(r) - w.elapsed = 0 /\ w.elapsed \in 0..Len(r) BY <1>2
<1> QED BY <1>1, <1>7, <1>8, <1>9 DEF Keeps, fs


(* The ticks that a drain looks back on.                                   *)
Lengthened(rate, age) == recent \o [i \in 1..Retained(age) |-> rate]

(* A drain adds its ticks at the end.                                      *)
LEMMA PushedKeeps ==
    ASSUME WindowInv, NEW rate \in Rates, NEW age \in 1..MaxElapsed,
           NEW s, s = Lengthened(rate, age)
    PROVE  /\ s \in Seq(Rates) /\ Keeps(Pushed(rate, age), s)
           /\ Pushed(rate, age).elapsed = Len(s)
<1> DEFINE n == Retained(age)
           w == Pushed(rate, age)
           old == Len(recent)
           m == Len(frames)
           new == {k \in Keys : rate[k] > 0}
           sums == w.totals
           frame == [elapsed |-> n, rate |-> rate]
<1>1. /\ recent \in Seq(Rates) /\ old \in Nat /\ elapsed = old /\ m \in Nat
      /\ frames \in Seq(Frame) /\ Sums(totals)
      /\ Covers(frames, recent, 0)
      /\ \A k \in Keys : UnitsIn(totals, k) = Counted(recent, k, 0)
    BY DEF WindowInv, Keeps
<1>0. Len(recent) = old /\ Len(frames) = m OBVIOUS
<1> HIDE DEF old, m
<1>2. n \in Nat \ {0} /\ n \in 1..MaxDrainAge
    BY WindowAssumption DEF Retained
<1>3. /\ s \in Seq(Rates) /\ Len(s) = old + n
      /\ \A i \in 1..old : s[i] = recent[i]
      /\ \A i \in (old + 1)..(old + n) : s[i] = rate
    <2> DEFINE run == [i \in 1..n |-> rate]
    <2>1. run \in Seq(Rates) /\ Len(run) = n /\ \A i \in 1..n : run[i] = rate
        <3> HIDE DEF n
        <3> QED BY <1>2
    <2> HIDE DEF run, n
    <2>2. s = recent \o run BY DEF run, n, Lengthened
    <2>3. s \in Seq(Rates) /\ Len(s) = old + n
        <3>1. recent \in Seq(Rates) /\ Len(recent) = old BY <1>0, <1>1
        <3>2. run \in Seq(Rates) /\ Len(run) = n BY <2>1
        <3>3. recent \o run \in Seq(Rates) BY <3>1, <3>2
        <3>4. Len(recent \o run) = Len(recent) + Len(run) BY <3>1, <3>2
        <3> QED BY <2>2, <3>1, <3>2, <3>3, <3>4
    <2>4. \A i \in 1..old : s[i] = recent[i] BY <1>0, <1>1, <1>2, <2>1, <2>2
    <2>5. \A i \in (old + 1)..(old + n) : s[i] = run[i - old] /\ i - old \in 1..n
        BY <1>0, <1>1, <1>2, <2>1, <2>2
    <2> QED BY <2>1, <2>3, <2>4, <2>5
<1>4. /\ w.frames = Append(frames, frame) /\ w.elapsed = elapsed + n
      /\ DOMAIN sums = DOMAIN totals \cup new
      /\ \A k \in DOMAIN sums \ new : sums[k] = totals[k]
      /\ \A k \in new \cap DOMAIN totals :
            sums[k] = [units |-> totals[k].units + rate[k] * n,
                       precision |-> Sum(totals[k].precision, age > MaxDrainAge)]
      /\ \A k \in new \ DOMAIN totals :
            sums[k] = [units |-> rate[k] * n,
                       precision |-> IF age > MaxDrainAge THEN "fraction" ELSE "integer"]
    BY DEF Pushed
<1>5. \A k \in Keys : rate[k] \in Nat /\ rate[k] * n \in Nat
    <2>1. \A k \in Keys : rate[k] \in Nat BY WindowAssumption DEF Rates
    <2>2. \A a, b \in Nat : a * b \in Nat OBVIOUS
    <2> HIDE DEF n
    <2> QED BY <1>2, <2>1, <2>2
<1>6. /\ DOMAIN totals \subseteq Keys
      /\ \A k \in DOMAIN totals : totals[k] \in Total /\ totals[k].units \in Nat
    BY <1>1 DEF Sums, Total
<1> HIDE DEF n, w, sums, frame
<1>7. Sums(sums)
    <2>1. \A p, q : Sum(p, q) \in {"integer", "rounded"} BY DEF Sum
    <2>2. ASSUME NEW k \in DOMAIN sums PROVE sums[k] \in Total
        <3>1. CASE k \in DOMAIN sums \ new BY <1>4, <1>6, <3>1
        <3>2. CASE k \in new \cap DOMAIN totals
            <4>1. k \in Keys /\ totals[k].units + rate[k] * n \in Nat BY <1>5, <1>6, <3>2
            <4> QED BY <1>4, <2>1, <3>2, <4>1 DEF Total
        <3>3. CASE k \in new \ DOMAIN totals
            <4>1. k \in Keys /\ rate[k] * n \in Nat BY <1>5, <3>3
            <4>2. CASE age > MaxDrainAge
                <5>1. sums[k] = [units |-> rate[k] * n, precision |-> "fraction"]
                    BY <1>4, <3>3, <4>2
                <5> QED BY <4>1, <5>1 DEF Total
            <4>3. CASE ~ (age > MaxDrainAge)
                <5>1. sums[k] = [units |-> rate[k] * n, precision |-> "integer"]
                    BY <1>4, <3>3, <4>3
                <5> QED BY <4>1, <5>1 DEF Total
            <4> QED BY <4>2, <4>3
        <3> QED BY <1>4, <3>1, <3>2, <3>3
    <2> QED BY <1>4, <1>6, <2>2 DEF Sums
<1>8. \A k \in Keys : UnitsIn(sums, k) = UnitsIn(totals, k) + rate[k] * n
    <2> SUFFICES ASSUME NEW k \in Keys
                 PROVE  UnitsIn(sums, k) = UnitsIn(totals, k) + rate[k] * n
        OBVIOUS
    <2>1. UnitsIn(totals, k) \in Nat BY <1>6 DEF UnitsIn
    <2>2. CASE k \notin new
        <3>1. rate[k] = 0 BY <1>5, <2>2
        <3>2. 0 * n = 0 BY <1>2
        <3>3. UnitsIn(sums, k) = UnitsIn(totals, k) BY <1>4, <2>2 DEF UnitsIn
        <3> QED BY <2>1, <3>1, <3>2, <3>3
    <2>3. CASE k \in new \cap DOMAIN totals
        BY <1>4, <2>3 DEF UnitsIn
    <2>4. CASE k \in new \ DOMAIN totals
        <3>1. UnitsIn(sums, k) = rate[k] * n /\ UnitsIn(totals, k) = 0
            <4> HIDE DEF new
            <4>1. k \in DOMAIN sums /\ k \notin DOMAIN totals BY <1>4, <2>4
            <4>2. sums[k].units = rate[k] * n BY <1>4, <2>4
            <4> QED BY <4>1, <4>2 DEF UnitsIn
        <3> QED BY <1>5, <3>1
    <2> QED BY <2>2, <2>3, <2>4
<1>9. \A k \in Keys : Counted(s, k, 0) = Counted(recent, k, 0) + rate[k] * n
    <2> SUFFICES ASSUME NEW k \in Keys
                 PROVE  Counted(s, k, 0) = Counted(recent, k, 0) + rate[k] * n
        OBVIOUS
    <2> DEFINE f == [i \in (0 + 1)..Len(s) |-> s[i][k]]
               g == [i \in (0 + 1)..Len(recent) |-> recent[i][k]]
               h == [i \in (old + 1)..(old + n) |-> s[i][k]]
    <2>1. Counted(s, k, 0) = Tally(f) /\ Counted(recent, k, 0) = Tally(g) BY DEF Counted
    <2>2. \A i \in 1..Len(s) : s[i][k] \in Nat
        <3>1. \A i \in 1..Len(s) : s[i] \in Rates BY <1>3
        <3>2. \A x \in Rates : x[k] \in Nat BY WindowAssumption DEF Rates
        <3> QED BY <3>1, <3>2
    <2>3. DOMAIN f = 1..(old + n) /\ DOMAIN g = 1..old /\ DOMAIN h = (old + 1)..(old + n)
        BY <1>0, <1>3
    <2>4. \A x \in DOMAIN f : f[x] \in Nat /\ f[x] = s[x][k] BY <1>3, <2>2
    <2>5. \A x \in DOMAIN g : g[x] = recent[x][k] OBVIOUS
    <2>6. \A x \in DOMAIN h : h[x] = s[x][k] OBVIOUS
    <2> HIDE DEF f, g, h
    <2>7. IsFiniteSet(DOMAIN f)
        <3>1. 1 \in Int /\ old + n \in Int BY <1>1, <1>2
        <3>2. IsFiniteSet(1..(old + n)) BY <3>1, FS_Interval
        <3> QED BY <2>3, <3>2
    <2>8. Tally(f) = Tally(g) + Tally(h)
        <3>1. \A x \in DOMAIN f : f[x] \in Nat BY <2>4
        <3>2. DOMAIN f = DOMAIN g \cup DOMAIN h BY <1>1, <1>2, <2>3
        <3>3. DOMAIN g \cap DOMAIN h = {} BY <1>1, <1>2, <2>3
        <3>4. \A x \in DOMAIN g : g[x] = f[x]
            BY <1>1, <1>2, <1>3, <2>3, <2>4, <2>5
        <3>5. \A x \in DOMAIN h : h[x] = f[x] BY <3>2, <2>4, <2>6
        <3> QED BY <2>7, <3>1, <3>2, <3>3, <3>4, <3>5, TallySplit
    <2>9. Tally(h) = rate[k] * n
        <3>1. \A x \in DOMAIN h : h[x] = rate[k] BY <1>3, <2>3, <2>6
        <3>2. old \in Int /\ n \in Nat /\ rate[k] \in Nat BY <1>1, <1>2, <1>5
        <3>3. DOMAIN h = (old + 1)..(old + n) BY <2>3
        <3> QED BY <3>1, <3>2, <3>3, TallyConstant
    <2> QED BY <2>1, <2>8, <2>9
<1>10. Append(frames, frame) \in Seq(Frame) /\ Len(Append(frames, frame)) = m + 1
       /\ Append(frames, frame)[m + 1] = frame
       /\ \A j \in 1..m : Append(frames, frame)[j] = frames[j]
    <2>1. frame \in Frame BY <1>2 DEF Frame, frame
    <2>2. frames \in Seq(Frame) /\ Len(frames) = m /\ m \in Nat BY <1>0, <1>1
    <2> HIDE DEF Frame, frame
    <2>3. Append(frames, frame) \in Seq(Frame) BY <2>1, <2>2
    <2>4. Len(Append(frames, frame)) = m + 1 BY <2>1, <2>2
    <2>5. Append(frames, frame)[m + 1] = frame BY <2>1, <2>2
    <2>6. \A j \in 1..m : Append(frames, frame)[j] = frames[j] BY <2>1, <2>2
    <2> QED BY <2>3, <2>4, <2>5, <2>6
<1>11. Covers(Append(frames, frame), s, 0)
    <2> DEFINE fs == Append(frames, frame)
    <2> HIDE DEF fs
    <2>1. PICK ends \in [0..m -> 0..old] :
            /\ ends[0] = 0 /\ ends[m] = old
            /\ \A j \in 1..m :
                  /\ ends[j] = ends[j - 1] + frames[j].elapsed
                  /\ \A i \in (ends[j - 1] + 1)..ends[j] : recent[i] = frames[j].rate
        BY <1>0, <1>1 DEF Covers
    <2> DEFINE later == [j \in 0..(m + 1) |-> IF j = m + 1 THEN old + n ELSE ends[j]]
    <2>2. Len(fs) = m + 1 /\ fs[m + 1] = frame /\ \A j \in 1..m : fs[j] = frames[j]
        BY <1>10 DEF fs
    <2>3. later \in [0..Len(fs) -> 0..Len(s)]
        <3>1. \A j \in 0..(m + 1) : j = m + 1 \/ j \in 0..m BY <1>1
        <3>2. \A j \in 0..m : ends[j] \in 0..old OBVIOUS
        <3>3. \A i \in 0..old : i \in 0..(old + n) BY <1>1, <1>2
        <3>4. old + n \in 0..(old + n) BY <1>1, <1>2
        <3>5. \A j \in 0..(m + 1) : later[j] \in 0..(old + n) BY <3>1, <3>2, <3>3, <3>4
        <3>6. DOMAIN later = 0..(m + 1) /\ later = [j \in 0..(m + 1) |-> later[j]] OBVIOUS
        <3> HIDE DEF later
        <3>7. later \in [0..(m + 1) -> 0..(old + n)] BY <3>5, <3>6
        <3> QED BY <1>3, <2>2, <3>7
    <2>4. later[0] = 0 /\ later[Len(fs)] = Len(s)
        <3>1. later[0] = ends[0] /\ later[m + 1] = old + n BY <1>1
        <3> HIDE DEF later
        <3> QED BY <1>3, <2>1, <2>2, <3>1
    <2>5. ASSUME NEW j \in 1..Len(fs)
          PROVE  /\ later[j] = later[j - 1] + fs[j].elapsed
                 /\ \A i \in (later[j - 1] + 1)..later[j] : s[i] = fs[j].rate
        <3>1. CASE j = m + 1
            <4>1. later[m + 1] = old + n /\ later[m] = old BY <1>1, <2>1
            <4>2. (m + 1) - 1 = m BY <1>1
            <4>3. frame.elapsed = n /\ frame.rate = rate BY DEF frame
            <4> HIDE DEF later
            <4> QED BY <1>3, <2>2, <3>1, <4>1, <4>2, <4>3
        <3>2. CASE j # m + 1
            <4>1. j \in 1..m /\ j \in 0..m /\ j - 1 \in 0..m BY <1>1, <2>2, <3>2
            <4>2. later[j] = ends[j] /\ later[j - 1] = ends[j - 1] BY <1>1, <4>1
            <4>3. ends[j] \in 0..old /\ ends[j - 1] \in 0..old BY <2>1, <4>1
            <4> HIDE DEF later
            <4>4. \A i \in (ends[j - 1] + 1)..ends[j] : i \in 1..old BY <1>1, <4>3
            <4> QED BY <1>3, <2>1, <2>2, <4>1, <4>2, <4>4
        <3> QED BY <3>1, <3>2
    <2> HIDE DEF later
    <2>6. Covers(fs, s, 0) BY <2>3, <2>4, <2>5 DEF Covers
    <2> QED BY <2>6 DEF fs
<1>12. w.elapsed = Len(s) /\ Len(s) - w.elapsed = 0 /\ w.elapsed \in 0..Len(s)
    BY <1>1, <1>2, <1>3, <1>4
<1>13. \A k \in Keys : UnitsIn(sums, k) = Counted(s, k, 0)
    BY <1>1, <1>8, <1>9
<1>14. Keeps(w, s)
    BY <1>4, <1>7, <1>10, <1>11, <1>12, <1>13 DEF Keeps, sums
<1> QED BY <1>3, <1>12, <1>14 DEF w


(* A drain looks back on what it counted and, as far as the window goes, on*)
(* what was counted before.                                                *)
LEMMA DrainKeeps ==
    ASSUME WindowInv, Drain
    PROVE  /\ recent' \in Seq(Rates) /\ elapsed' = Len(recent') /\ Len(recent') <= Window
           /\ Keeps([frames |-> frames', totals |-> totals', elapsed |-> elapsed'], recent')
<1>1. PICK rate \in Rates, age \in 1..MaxElapsed, left \in SUBSET Keys :
        LET w == TrimTo(Pushed(rate, age), left)
        IN  /\ frames' = w.frames
            /\ totals' = w.totals
            /\ elapsed' = w.elapsed
            /\ recent' = LastTicks(recent \o [i \in 1..Retained(age) |-> rate])
    BY DEF Drain
<1> DEFINE s == Lengthened(rate, age)
           w == TrimTo(Pushed(rate, age), left)
           r == recent'
<1>2. s \in Seq(Rates) /\ Keeps(Pushed(rate, age), s) /\ Pushed(rate, age).elapsed = Len(s)
    <2>1. s = Lengthened(rate, age) OBVIOUS
    <2> HIDE DEF s
    <2> QED BY <2>1, PushedKeeps
<1>3. /\ r = LastTicks(s) /\ frames' = w.frames /\ totals' = w.totals /\ elapsed' = w.elapsed
    BY <1>1 DEF Lengthened
<1> HIDE DEF s, w, r
<1>4. Keeps(w, s) /\ w.elapsed = IF Len(s) <= Window THEN Len(s) ELSE Window
    <2>1. s \in Seq(Rates) /\ Keeps(Pushed(rate, age), s) BY <1>2
    <2>2. /\ Keeps(TrimTo(Pushed(rate, age), left), s)
          /\ TrimTo(Pushed(rate, age), left).elapsed
             = IF Pushed(rate, age).elapsed <= Window THEN Pushed(rate, age).elapsed ELSE Window
        BY <2>1, TrimKeeps
    <2> QED BY <1>2, <2>2 DEF w
<1>5. Window \in Nat /\ Len(s) \in Nat BY <1>2, WindowAssumption
<1>6. /\ r \in Seq(Rates) /\ Len(r) = w.elapsed
      /\ \A i \in 1..Len(r) : r[i] = s[(Len(s) - w.elapsed) + i]
    <2>1. CASE Len(s) <= Window
        <3>1. r = s /\ w.elapsed = Len(s) BY <1>3, <1>4, <2>1 DEF LastTicks
        <3>2. \A i \in 1..Len(r) : (Len(s) - w.elapsed) + i = i BY <1>5, <3>1
        <3> QED BY <1>2, <3>1, <3>2
    <2>2. CASE Len(s) > Window
        <3>1. r = SubSeq(s, Len(s) - Window + 1, Len(s)) /\ w.elapsed = Window
            BY <1>3, <1>4, <1>5, <2>2 DEF LastTicks
        <3>2. Len(s) - Window + 1 \in 1..Len(s) /\ Len(s) \in 1..Len(s) BY <1>5, <2>2, WindowAssumption
        <3>3. r \in Seq(Rates) BY <1>2, <1>5, <2>2, <3>1, <3>2
        <3>4. Len(r) = Len(s) - (Len(s) - Window + 1) + 1 BY <1>2, <1>5, <2>2, <3>1, <3>2
        <3>5. Len(r) = Window BY <1>5, <3>4
        <3>6. \A i \in 1..Window : r[i] = s[(Len(s) - Window + 1) + i - 1]
            BY <1>2, <1>5, <2>2, <3>1, <3>2
        <3>7. \A i \in 1..Window : (Len(s) - Window + 1) + i - 1 = (Len(s) - Window) + i BY <1>5
        <3> QED BY <3>1, <3>3, <3>5, <3>6, <3>7
    <2> QED BY <1>5, <2>1, <2>2
<1>7. Keeps(w, r) BY <1>2, <1>4, <1>6, CoversRest
<1>8. Keeps([frames |-> frames', totals |-> totals', elapsed |-> elapsed'], r)
    BY <1>3, <1>7 DEF Keeps
<1>9. Len(r) <= Window BY <1>4, <1>5, <1>6
<1> QED BY <1>3, <1>6, <1>8, <1>9 DEF r

(* An empty window has nothing.                                            *)
LEMMA EmptyKeeps ==
    Keeps([frames |-> <<>>, totals |-> Empty, elapsed |-> 0], <<>>)
<1>1. \A k \in Keys : Counted(<<>>, k, 0) = 0
    <2> SUFFICES ASSUME NEW k \in Keys PROVE Counted(<<>>, k, 0) = 0
        OBVIOUS
    <2> DEFINE f == [i \in (0 + 1)..Len(<<>>) |-> <<>>[i][k]]
    <2>1. DOMAIN f = {} OBVIOUS
    <2>2. Units(f) = {} BY <2>1 DEF Units
    <2> QED BY <2>2, FS_EmptySet DEF Counted, Tally
<1>2. DOMAIN Empty = {} BY DEF Empty
<1>3. \A k : UnitsIn(Empty, k) = 0 BY <1>2 DEF UnitsIn
<1>4. Covers(<<>>, <<>>, 0)
    <2> DEFINE ends == [j \in 0..0 |-> 0]
    <2>1. ends \in [0..Len(<<>>) -> 0..Len(<<>>)] /\ ends[0] = 0 OBVIOUS
    <2>2. Len(<<>>) = 0 /\ 1..0 = {} OBVIOUS
    <2> HIDE DEF ends
    <2> QED BY <2>1, <2>2 DEF Covers
<1>5. Sums(Empty) BY <1>2 DEF Sums
<1> QED BY <1>1, <1>3, <1>4, <1>5 DEF Keeps

(* The inductive invariant.                                                *)
LEMMA WindowInductive == Spec => []WindowInv
<1>1. Init => WindowInv
    <2> SUFFICES ASSUME Init PROVE WindowInv
        OBVIOUS
    <2>1. recent \in Seq(Rates) /\ Len(recent) = 0 BY DEF Init
    <2>2. 0 <= Window BY WindowAssumption
    <2> QED BY <2>1, <2>2, EmptyKeeps DEF Init, WindowInv
<1>2. WindowInv /\ [Next]_vars => WindowInv'
    <2> SUFFICES ASSUME WindowInv, [Next]_vars PROVE WindowInv'
        OBVIOUS
    <2>1. SUFFICES /\ source' \in BOOLEAN
                   /\ recent' \in Seq(Rates) /\ elapsed' = Len(recent') /\ Len(recent') <= Window
                   /\ Keeps([frames |-> frames', totals |-> totals', elapsed |-> elapsed'], recent')
        BY DEF WindowInv
    <2>2. CASE Drain
        BY <2>2, DrainKeeps DEF Drain, WindowInv
    <2>3. CASE SourceLost
        <3>1. recent' = <<>> /\ <<>> \in Seq(Rates) /\ Len(<<>>) = 0 BY <2>3 DEF SourceLost
        <3>2. 0 <= Window BY WindowAssumption
        <3> QED BY <2>3, <3>1, <3>2, EmptyKeeps DEF SourceLost
    <2>4. CASE UNCHANGED vars
        BY <2>4 DEF vars, WindowInv
    <2> QED BY <2>2, <2>3, <2>4 DEF Next
<1> QED BY <1>1, <1>2, PTL DEF Spec

(* Frames are never longer than a drain may age the window, totals are     *)
(* natural numbers, and no more than ten seconds are covered.              *)
THEOREM WindowTyped == Spec => []TypeOK
<1>1. WindowInv => TypeOK
    <2> SUFFICES ASSUME WindowInv PROVE TypeOK
        OBVIOUS
    <2>1. elapsed \in 0..Window BY WindowAssumption DEF WindowInv
    <2>2. frames \in Seq([elapsed : 1..MaxDrainAge, rate : Rates])
        BY DEF WindowInv, Keeps, Frame
    <2> QED BY <2>1, <2>2 DEF WindowInv, Keeps, Sums, TypeOK
<1> QED BY <1>1, WindowInductive, PTL

(* The totals that the ranking divides by the elapsed time are what the    *)
(* last ticks counted, for every key, however long the drains took, however*)
(* often a frame was cut at the edge and whatever rounding leaves behind.  *)
THEOREM WindowExact == Spec => []WindowIsRecent
<1>1. WindowInv => WindowIsRecent
    <2> SUFFICES ASSUME WindowInv PROVE WindowIsRecent
        OBVIOUS
    <2>1. elapsed = Len(recent) /\ Len(recent) \in Nat /\ Len(recent) - elapsed = 0
        BY DEF WindowInv
    <2>2. \A k \in Keys : UnitsIn(totals, k) = Counted(recent, k, 0)
        BY <2>1 DEF WindowInv, Keeps
    <2>3. \A k \in Keys : Counted(recent, k, 0) = Recent(k)
        <3>1. DOMAIN recent = (0 + 1)..Len(recent) BY DEF WindowInv
        <3> QED BY <3>1 DEF Counted, Recent
    <2> QED BY <2>1, <2>2, <2>3 DEF WindowIsRecent
<1> QED BY <1>1, WindowInductive, PTL
-----------------------------------------------------------------------------
(* Of finitely many, one is not exceeded: one with the fewest above it.    *)
LEMMA GreatestExists ==
    ASSUME NEW D, IsFiniteSet(D), D # {}, NEW rate \in [D -> Nat]
    PROVE  \E x \in D : \A y \in D : rate[x] >= rate[y]
<1> DEFINE above == [y \in D |-> {z \in D : rate[z] > rate[y]}]
           sizes == {Cardinality(above[y]) : y \in D}
<1>1. \A y \in D : above[y] = {z \in D : rate[z] > rate[y]} /\ above[y] \in SUBSET D
    OBVIOUS
<1>2. \A y \in D : rate[y] \in Nat OBVIOUS
<1> HIDE DEF above
<1>3. \A y \in D : IsFiniteSet(above[y]) /\ Cardinality(above[y]) \in Nat
    BY <1>1, FS_Subset, FS_CardinalityType
<1>4. PICK n \in sizes : \A m \in sizes : n <= m
    <2>1. sizes \subseteq Nat /\ sizes # {} BY <1>3
    <2> HIDE DEF sizes
    <2> QED BY <2>1, LeastNatural
<1>5. PICK x \in D : n = Cardinality(above[x]) OBVIOUS
<1> SUFFICES ASSUME NEW y \in D, ~ (rate[x] >= rate[y]) PROVE FALSE
    OBVIOUS
<1>6. above[y] \in SUBSET above[x] /\ y \in above[x] /\ y \notin above[y]
    BY <1>1, <1>2
<1>7. Cardinality(above[y]) <= Cardinality(above[x])
      /\ (Cardinality(above[x]) = Cardinality(above[y]) => above[x] = above[y])
    <2>1. IsFiniteSet(above[x]) BY <1>3
    <2>2. above[y] \in SUBSET above[x] BY <1>6
    <2> QED BY <2>1, <2>2, FS_Subset
<1>8. n <= Cardinality(above[y]) BY <1>4
<1>9. Cardinality(above[x]) = Cardinality(above[y])
    BY <1>3, <1>5, <1>7, <1>8
<1> QED BY <1>6, <1>7, <1>9

(* Ranking: so many as the limit allows can be chosen that none of the     *)
(* others is above one of them.                                            *)
LEMMA TopExists ==
    ASSUME NEW items, IsFiniteSet(DOMAIN items), \A x \in DOMAIN items : items[x].rate \in Nat
    PROVE  \E top \in SUBSET DOMAIN items : IsTop(top, items)
<1> DEFINE D == DOMAIN items
           rate == [x \in D |-> items[x].rate]
           Above(top) == \A x \in top : \A y \in D \ top : rate[x] >= rate[y]
           Bad == {n \in 0..Limit : ~ \E top \in SUBSET D : Cardinality(top) = n /\ Above(top)}
<1>0. rate \in [D -> Nat] /\ \A x \in D : rate[x] = items[x].rate OBVIOUS
<1>1. Limit \in Nat /\ IsFiniteSet(D) /\ Cardinality(D) \in Nat
    BY LimitAssumption, FS_CardinalityType
<1>2. CASE Cardinality(D) <= Limit
    <2>1. IsTop(D, items) BY <1>2 DEF IsTop
    <2> QED BY <2>1
<1>3. CASE Cardinality(D) > Limit
    <2>1. Bad = {}
        <3> SUFFICES ASSUME Bad # {} PROVE FALSE
            OBVIOUS
        <3>1. PICK n \in Bad : \A m \in Bad : n <= m
            <4>1. Bad \subseteq Nat BY <1>1
            <4> HIDE DEF Bad
            <4> QED BY <4>1, LeastNatural
        <3>2. n \in 0..Limit /\ ~ \E top \in SUBSET D : Cardinality(top) = n /\ Above(top)
            OBVIOUS
        <3>3. n # 0
            <4>1. {} \in SUBSET D /\ Cardinality({}) = 0 /\ Above({}) BY FS_EmptySet
            <4> QED BY <3>2, <4>1
        <3>4. n - 1 \in 0..Limit /\ ~ (n <= n - 1) BY <1>1, <3>2, <3>3
        <3>5. n - 1 \notin Bad
            <4> HIDE DEF Bad
            <4> QED BY <3>1, <3>4
        <3>6. PICK top \in SUBSET D : Cardinality(top) = n - 1 /\ Above(top)
            BY <3>4, <3>5
        <3>7. IsFiniteSet(top) /\ IsFiniteSet(D \ top)
            BY <1>1, FS_Subset, FS_Difference
        <3>8. D \ top # {} BY <1>1, <1>3, <3>2, <3>4, <3>6
        <3> DEFINE below == [x \in D \ top |-> rate[x]]
        <3> HIDE DEF rate, D
        <3>9. below \in [D \ top -> Nat] BY <1>0
        <3>10. PICK x \in D \ top : \A y \in D \ top : below[x] >= below[y]
            <4> HIDE DEF below
            <4> QED BY <3>7, <3>8, <3>9, GreatestExists
        <3>11. Above(top \cup {x}) BY <3>6, <3>10
        <3>12. top \cup {x} \in SUBSET D /\ Cardinality(top \cup {x}) = n
            <4>1. Cardinality(top \cup {x}) = Cardinality(top) + 1
                BY <3>7, FS_AddElement
            <4> QED BY <1>1, <3>2, <3>6, <4>1
        <3> QED BY <3>2, <3>11, <3>12
    <2>2. Limit \in 0..Limit BY <1>1
    <2>3. PICK top \in SUBSET D : Cardinality(top) = Limit /\ Above(top)
        BY <2>1, <2>2
    <2>4. ~ (Cardinality(DOMAIN items) <= Limit) BY <1>1, <1>3
    <2>5. \A x \in top : \A y \in DOMAIN items \ top : items[x].rate >= items[y].rate
        BY <1>0, <2>3
    <2>6. IsTop(top, items) BY <2>3, <2>4, <2>5 DEF IsTop
    <2> QED BY <2>6
<1> QED BY <1>1, <1>2, <1>3

(* An index that counts for nothing does not change a sum.                 *)
LEMMA TallySame ==
    ASSUME NEW g, NEW h, DOMAIN h \subseteq DOMAIN g,
           \A x \in DOMAIN h : h[x] = g[x], \A x \in DOMAIN g \ DOMAIN h : g[x] = 0
    PROVE  Tally(g) = Tally(h)
<1>1. 1..0 = {} OBVIOUS
<1>2. Units(h) \subseteq Units(g) BY DEF Units
<1>3. ASSUME NEW u \in Units(g) PROVE u \in Units(h)
    <2>1. PICK x \in DOMAIN g : u \in {x} \X (1..g[x]) BY DEF Units
    <2>2. x \in DOMAIN h BY <1>1, <2>1
    <2>3. u \in {x} \X (1..h[x]) BY <2>1, <2>2
    <2> QED BY <2>2, <2>3 DEF Units
<1>4. Units(g) = Units(h) BY <1>2, <1>3
<1> QED BY <1>4 DEF Tally
(* What the entries of a file merge into.                                  *)
LEMMA Merged ==
    ASSUME TypeOK, WindowIsRecent
    PROVE  LET items == Merge(Activity)
           IN  /\ DOMAIN items = {k.file : k \in DOMAIN totals}
               /\ IsFiniteSet(DOMAIN items)
               /\ \A f \in DOMAIN items :
                     items[f].file = f /\ items[f].rate \in Nat /\ items[f].rate = RecentOf(f)
               /\ \A f \in Files \ DOMAIN items : RecentOf(f) = 0
<1> DEFINE items == Merge(Activity)
           Of(f) == {k \in Keys : k.file = f}
           Mine(f) == {k \in DOMAIN totals : k.file = f}
           all(f) == [k \in Of(f) |-> Recent(k)]
           some(f) == [k \in Mine(f) |-> totals[k].units]
<1>1. /\ DOMAIN totals \subseteq Keys
      /\ \A k \in DOMAIN totals : totals[k].units \in Nat
    BY DEF TypeOK, Total
<1>2. IsFiniteSet(DOMAIN totals) BY <1>1, KeysAssumption, FS_Subset
<1>3. /\ DOMAIN Activity = DOMAIN totals
      /\ \A k \in DOMAIN totals : Activity[k].file = k.file /\ Activity[k].rate = totals[k].units
    BY DEF Activity, Entry
<1>4. DOMAIN items = {k.file : k \in DOMAIN totals}
    BY <1>3 DEF Merge
<1>5. IsFiniteSet(DOMAIN items)
    <2> DEFINE named == [k \in DOMAIN totals |-> k.file]
    <2>1. named \in Surjection(DOMAIN totals, DOMAIN items)
        BY <1>4 DEF Surjection
    <2> QED BY <1>2, <2>1, FS_Surjection
<1>6. ASSUME NEW f \in DOMAIN items
      PROVE  items[f].file = f /\ items[f].rate = Tally(some(f))
    <2>1. {k \in DOMAIN Activity : Activity[k].file = f} = Mine(f) BY <1>3
    <2>2. [k \in Mine(f) |-> Activity[k].rate] = some(f) BY <1>3
    <2>3. /\ items[f].file = f
          /\ items[f].rate = Tally([k \in {m \in DOMAIN Activity : Activity[m].file = f} |-> Activity[k].rate])
        BY <1>3, <1>4 DEF Merge
    <2> QED BY <2>1, <2>2, <2>3
<1> HIDE DEF items
<1>7. ASSUME NEW f
      PROVE  /\ RecentOf(f) = Tally(some(f)) /\ Tally(some(f)) \in Nat
             /\ Mine(f) = {} => Tally(some(f)) = 0
    <2>1. RecentOf(f) = Tally(all(f)) BY DEF RecentOf
    <2>2. DOMAIN all(f) = Of(f) /\ DOMAIN some(f) = Mine(f) /\ Mine(f) \subseteq Of(f) BY <1>1
    <2>3. \A k \in Mine(f) : some(f)[k] = totals[k].units /\ some(f)[k] \in Nat BY <1>1
    <2>4. \A k \in Of(f) : all(f)[k] = UnitsIn(totals, k) BY DEF WindowIsRecent
    <2>5. \A k \in Mine(f) : all(f)[k] = some(f)[k] BY <1>1, <2>3, <2>4 DEF UnitsIn
    <2>6. \A k \in Of(f) \ Mine(f) : all(f)[k] = 0 BY <2>4 DEF UnitsIn
    <2>7. IsFiniteSet(Mine(f)) BY <1>2, FS_Subset
    <2> HIDE DEF all, some
    <2>8. Tally(all(f)) = Tally(some(f))
        <3>1. DOMAIN some(f) \subseteq DOMAIN all(f) BY <2>2
        <3>2. \A k \in DOMAIN some(f) : some(f)[k] = all(f)[k] BY <2>2, <2>5
        <3>3. \A k \in DOMAIN all(f) \ DOMAIN some(f) : all(f)[k] = 0 BY <2>2, <2>6
        <3> QED BY <3>1, <3>2, <3>3, TallySame
    <2>9. Tally(some(f)) \in Nat
        <3>1. IsFiniteSet(DOMAIN some(f)) BY <2>2, <2>7
        <3>2. \A k \in DOMAIN some(f) : some(f)[k] \in Nat BY <2>2, <2>3
        <3> QED BY <3>1, <3>2, UnitsFinite
    <2>10. ASSUME Mine(f) = {} PROVE Tally(some(f)) = 0
        <3>1. Units(some(f)) = {} BY <2>2, <2>10 DEF Units
        <3> QED BY <3>1, FS_EmptySet DEF Tally
    <2> QED BY <2>1, <2>8, <2>9, <2>10
<1>8. \A f \in Files \ DOMAIN items : Mine(f) = {} BY <1>4
<1> HIDE DEF some
<1>9. \A f \in DOMAIN items : items[f].file = f /\ items[f].rate \in Nat /\ items[f].rate = RecentOf(f)
    BY <1>6, <1>7
<1>10. \A f \in Files \ DOMAIN items : RecentOf(f) = 0
    BY <1>7, <1>8
<1> QED BY <1>4, <1>5, <1>9, <1>10 DEF items

(* What stays is the top of what there is.                                 *)
LEMMA RankedIsTop ==
    ASSUME TypeOK, WindowIsRecent
    PROVE  /\ IsTop(DOMAIN Ranked, Merge(Activity))
           /\ \A f \in DOMAIN Ranked : Ranked[f] = Merge(Activity)[f]
<1> DEFINE items == Merge(Activity)
           top == CHOOSE t \in SUBSET DOMAIN items : IsTop(t, items)
<1>1. IsFiniteSet(DOMAIN items) /\ \A f \in DOMAIN items : items[f].rate \in Nat
    BY Merged
<1>2. \E t \in SUBSET DOMAIN items : IsTop(t, items)
    <2> HIDE DEF items
    <2> QED BY <1>1, TopExists
<1>3. IsTop(top, items) BY <1>2
<1>4. Ranked = [f \in top |-> items[f]] BY DEF Ranked, Hottest
<1> HIDE DEF top, items
<1>5. DOMAIN Ranked = top /\ \A f \in top : Ranked[f] = items[f] BY <1>4
<1> QED BY <1>3, <1>5 DEF items

(* The hot files are the hottest of the last ten seconds: each is listed   *)
(* with all that its processes did, and no file that is left out did more  *)
(* than one that is listed.                                                *)
THEOREM HottestAreShown == Spec => []HottestOfWindow
<1>1. TypeOK /\ WindowIsRecent => HottestOfWindow
    <2> SUFFICES ASSUME TypeOK, WindowIsRecent PROVE HottestOfWindow
        OBVIOUS
    <2> DEFINE items == Merge(Activity)
    <2>1. /\ \A f \in DOMAIN items :
                items[f].file = f /\ items[f].rate \in Nat /\ items[f].rate = RecentOf(f)
          /\ \A f \in Files \ DOMAIN items : RecentOf(f) = 0
        BY Merged
    <2>2. IsTop(DOMAIN Ranked, items) /\ \A f \in DOMAIN Ranked : Ranked[f] = items[f]
        BY RankedIsTop
    <2> HIDE DEF items
    <2>3. \A f \in DOMAIN Ranked : f \in DOMAIN items BY <2>2 DEF IsTop
    <2>4. \A f \in DOMAIN Ranked : Ranked[f].file = f /\ Ranked[f].rate = RecentOf(f)
        BY <2>1, <2>2, <2>3
    <2>5. ASSUME NEW f \in DOMAIN items \ DOMAIN Ranked
          PROVE  Cardinality(DOMAIN Ranked) = Limit
                 /\ \A g \in DOMAIN Ranked : RecentOf(f) <= RecentOf(g)
        <3>1. DOMAIN Ranked # DOMAIN items OBVIOUS
        <3>2. Cardinality(DOMAIN Ranked) = Limit BY <2>2, <3>1 DEF IsTop
        <3>3. \A g \in DOMAIN Ranked : items[g].rate >= items[f].rate BY <2>2 DEF IsTop
        <3>4. \A g \in DOMAIN Ranked : RecentOf(f) <= RecentOf(g) BY <2>1, <2>3, <3>3
        <3> QED BY <3>2, <3>4
    <2> QED BY <2>1, <2>4, <2>5 DEF HottestOfWindow
<1> QED BY <1>1, WindowTyped, WindowExact, PTL
(* What an entry for a process of a file leaves in the merged entry.       *)
LEMMA MergedFrom ==
    ASSUME NEW f \in DOMAIN Merge(Activity)
    PROVE  LET item == Merge(Activity)[f]
           IN  /\ item = [file |-> item.file, rate |-> item.rate, processes |-> item.processes,
                          captured |-> item.captured, workloads |-> item.workloads,
                          path |-> item.path]
               /\ item.file = f /\ item.path \in {"ebpf", "fallback"}
               /\ \A k \in DOMAIN totals : k.file = f =>
                     /\ <<k.thread, k.tgid>> \in item.processes
                     /\ k.container => <<k.tgid, "container">> \in item.workloads
                     /\ k.path => item.path = "ebpf"
               /\ \A c \in item.captured : \E k \in DOMAIN totals :
                     k.file = f /\ c = <<k.tgid, k.parent>>
<1> DEFINE item == Merge(Activity)[f]
           mine == {k \in DOMAIN Activity : Activity[k].file = f}
<1>1. /\ DOMAIN Activity = DOMAIN totals
      /\ \A k \in DOMAIN totals :
            /\ Activity[k].file = k.file
            /\ Activity[k].processes = {<<k.thread, k.tgid>>}
            /\ Activity[k].captured = IF k.parent = None THEN {} ELSE {<<k.tgid, k.parent>>}
            /\ Activity[k].workloads = IF k.container THEN {<<k.tgid, "container">>} ELSE {}
            /\ Activity[k].path = IF k.path THEN "ebpf" ELSE "fallback"
    BY DEF Activity, Entry
<1>2. item = [file      |-> f,
              rate      |-> Tally([k \in mine |-> Activity[k].rate]),
              processes |-> UNION {Activity[k].processes : k \in mine},
              captured  |-> UNION {Activity[k].captured : k \in mine},
              workloads |-> UNION {Activity[k].workloads : k \in mine},
              path      |-> IF \E k \in mine : Activity[k].path = "ebpf" THEN "ebpf" ELSE "fallback"]
    BY DEF Merge
<1>3. mine = {k \in DOMAIN totals : k.file = f} BY <1>1
<1> HIDE DEF item, mine
<1>4. /\ item.file = f
      /\ item.processes = UNION {Activity[k].processes : k \in mine}
      /\ item.captured = UNION {Activity[k].captured : k \in mine}
      /\ item.workloads = UNION {Activity[k].workloads : k \in mine}
      /\ item.path = IF \E k \in mine : Activity[k].path = "ebpf" THEN "ebpf" ELSE "fallback"
    BY <1>2
<1>5. item = [file |-> item.file, rate |-> item.rate, processes |-> item.processes,
              captured |-> item.captured, workloads |-> item.workloads, path |-> item.path]
    BY <1>2
<1>6. item.path \in {"ebpf", "fallback"} BY <1>4
<1>7. ASSUME NEW k \in DOMAIN totals, k.file = f
      PROVE  /\ <<k.thread, k.tgid>> \in item.processes
             /\ k.container => <<k.tgid, "container">> \in item.workloads
             /\ k.path => item.path = "ebpf"
    <2>1. k \in mine BY <1>3, <1>7
    <2>2. <<k.thread, k.tgid>> \in item.processes
        <3>1. <<k.thread, k.tgid>> \in Activity[k].processes
            <4>1. Activity[k].processes = {<<k.thread, k.tgid>>} BY <1>1
            <4> QED BY <4>1, Zenon
        <3>2. item.processes = UNION {Activity[l].processes : l \in mine} BY <1>4
        <3> QED BY <2>1, <3>1, <3>2, Zenon
    <2>3. ASSUME k.container PROVE <<k.tgid, "container">> \in item.workloads
        <3>1. <<k.tgid, "container">> \in Activity[k].workloads
            <4>1. Activity[k].workloads = {<<k.tgid, "container">>} BY <1>1, <2>3
            <4> QED BY <4>1, Zenon
        <3>2. item.workloads = UNION {Activity[l].workloads : l \in mine} BY <1>4
        <3> QED BY <2>1, <3>1, <3>2, Zenon
    <2>4. ASSUME k.path PROVE item.path = "ebpf"
        BY <1>1, <1>4, <2>1, <2>4
    <2> QED BY <2>2, <2>3, <2>4
<1>8. ASSUME NEW c \in item.captured
      PROVE  \E k \in DOMAIN totals : k.file = f /\ c = <<k.tgid, k.parent>>
    <2>1. PICK k \in mine : c \in Activity[k].captured BY <1>4
    <2>2. k \in DOMAIN totals /\ k.file = f BY <1>3
    <2>3. c = <<k.tgid, k.parent>> BY <1>1, <2>1, <2>2
    <2> QED BY <2>2, <2>3
<1> QED BY <1>4, <1>5, <1>6, <1>7, <1>8 DEF item

(* However /proc has changed since: each process that was active on a hot  *)
(* file is displayed, by itself or a parent, with a label where a container*)
(* was seen at the call, and a path that is known, or among the descriptors*)
(* that are looked at, is shown.                                           *)
THEOREM ContributorsAreShown == Spec => []ContributorsShown
<1>1. TypeOK /\ WindowIsRecent => ContributorsShown
    <2> SUFFICES ASSUME TypeOK, WindowIsRecent,
                        NEW f \in DOMAIN Ranked, NEW proc \in Procs,
                        NEW k \in DOMAIN totals, k.file = f
                 PROVE  LET shown == HotFile(Ranked[f], proc)
                            mine == {l \in DOMAIN totals : l.file = f}
                            parents == {l.parent : l \in {m \in mine : m.tgid = k.tgid}}
                                       \cup (IF k.tgid \in DOMAIN proc.parent
                                             THEN {proc.parent[k.tgid]} ELSE {})
                        IN  /\ \E d \in DisplayProcesses(shown) :
                                  /\ d \in {k.tgid} \cup (parents \ {None})
                                  /\ <<k.tgid, d>> \in shown.rollups
                                  /\ k.container => \E w \in shown.workloads : w[1] = d
                            /\ k.path \/ k.file \in Scanned(proc, k.tgid) => shown.path # "fallback"
        BY DEF ContributorsShown
    <2> DEFINE item == Ranked[f]
               found == ResolvedPath(item, proc)
               folded == Collapsed(found, proc)
               shown == HotFile(item, proc)
               d == Displayed(found, k.tgid, proc)
               exact == DisplayProcesses(folded) \cap proc.labelled
               mine == {l \in DOMAIN totals : l.file = f}
               parents == {l.parent : l \in {m \in mine : m.tgid = k.tgid}}
                          \cup (IF k.tgid \in DOMAIN proc.parent
                                THEN {proc.parent[k.tgid]} ELSE {})
    <2>1. f \in DOMAIN Merge(Activity) /\ item = Merge(Activity)[f]
        BY RankedIsTop DEF IsTop
    <2>2. /\ item = [file |-> item.file, rate |-> item.rate, processes |-> item.processes,
                     captured |-> item.captured, workloads |-> item.workloads, path |-> item.path]
          /\ item.file = f /\ item.path \in {"ebpf", "fallback"}
          /\ <<k.thread, k.tgid>> \in item.processes
          /\ k.container => <<k.tgid, "container">> \in item.workloads
          /\ k.path => item.path = "ebpf"
          /\ \A c \in item.captured : \E l \in DOMAIN totals :
                l.file = f /\ c = <<l.tgid, l.parent>>
        BY <2>1, MergedFrom
    <2> HIDE DEF item
    <2>3. /\ found.processes = item.processes /\ found.captured = item.captured
          /\ found.workloads = item.workloads /\ found.file = item.file
          /\ found.path \in {item.path, "proc_fd"}
          /\ item.path = "fallback" /\ f \in Scanned(proc, k.tgid) => found.path = "proc_fd"
        <3>1. <<k.thread, k.tgid>>[2] = k.tgid OBVIOUS
        <3>2. CASE found = item
            <4>1. item.path = "fallback" => f \notin Scanned(proc, k.tgid)
                BY <2>2, <3>1, <3>2 DEF ResolvedPath
            <4> HIDE DEF found
            <4> QED BY <3>2, <4>1
        <3>3. CASE found = [item EXCEPT !.path = "proc_fd"]
            <4> HIDE DEF found
            <4> QED BY <2>2, <3>3
        <3> QED BY <3>2, <3>3 DEF ResolvedPath
    <2> HIDE DEF found
    <2>4. /\ folded.path = found.path
          /\ folded.rollups = {<<p[2], Displayed(found, p[2], proc)>> : p \in found.processes}
          /\ folded.workloads = {<<Displayed(found, w[1], proc), w[2]>> : w \in found.workloads}
          /\ folded = [file |-> folded.file, rate |-> folded.rate, path |-> folded.path,
                       rollups |-> folded.rollups, workloads |-> folded.workloads]
        BY DEF Collapsed
    <2> HIDE DEF folded
    <2>5. /\ shown.path = found.path /\ shown.rollups = folded.rollups
          /\ shown.workloads = {w \in folded.workloads : w[1] \notin exact}
                               \cup {<<p, "exact">> : p \in exact}
        <3>1. shown = [folded EXCEPT !.workloads = {w \in @ : w[1] \notin exact}
                                                     \cup {<<p, "exact">> : p \in exact}]
            BY DEF HotFile, Annotated, found, folded
        <3> HIDE DEF exact, shown
        <3> QED BY <2>4, <3>1
    <2> HIDE DEF shown
    <2>6. <<k.tgid, d>> \in folded.rollups
        <3>1. <<k.thread, k.tgid>> \in found.processes /\ <<k.thread, k.tgid>>[2] = k.tgid
            BY <2>2, <2>3
        <3> QED BY <2>4, <3>1
    <2>7. d \in DisplayProcesses(folded) /\ d \in DisplayProcesses(shown)
        <3>1. <<k.tgid, d>>[2] = d OBVIOUS
        <3> HIDE DEF d
        <3> QED BY <2>5, <2>6, <3>1 DEF DisplayProcesses
    <2>8. d \in {k.tgid} \cup (parents \ {None})
        <3> DEFINE parent == ParentOf(found, k.tgid, proc)
                   captured == {c[2] : c \in {e \in found.captured : e[1] = k.tgid}}
        <3>1. d = k.tgid \/ (parent # None /\ d = parent) BY DEF Displayed
        <3>2. ASSUME parent # None PROVE parent \in parents
            <4>1. CASE captured # {}
                <5>1. parent \in captured BY <4>1 DEF ParentOf
                <5>2. PICK c \in found.captured : c[1] = k.tgid /\ parent = c[2] BY <5>1
                <5>3. PICK l \in DOMAIN totals : l.file = f /\ c = <<l.tgid, l.parent>>
                    BY <2>2, <2>3
                <5>4. l.tgid = k.tgid /\ parent = l.parent BY <5>2, <5>3
                <5> HIDE DEF parent
                <5> QED BY <5>3, <5>4
            <4>2. CASE captured = {}
                <5>1. parent = IF k.tgid \in DOMAIN proc.parent THEN proc.parent[k.tgid] ELSE None
                    BY <4>2 DEF ParentOf
                <5> HIDE DEF parent
                <5> QED BY <3>2, <5>1
            <4> QED BY <4>1, <4>2
        <3> HIDE DEF parent, d, parents
        <3> QED BY <3>1, <3>2
    <2>9. ASSUME k.container PROVE \E w \in shown.workloads : w[1] = d
        <3>1. <<k.tgid, "container">> \in found.workloads
              /\ <<k.tgid, "container">>[1] = k.tgid /\ <<k.tgid, "container">>[2] = "container"
            BY <2>2, <2>3, <2>9
        <3>2. <<d, "container">> \in folded.workloads BY <2>4, <3>1
        <3> HIDE DEF d, exact
        <3>3. <<d, "container">>[1] = d /\ <<d, "exact">>[1] = d OBVIOUS
        <3>4. CASE d \in exact
            <4>1. <<d, "exact">> \in shown.workloads BY <2>5, <3>4
            <4> QED BY <3>3, <4>1
        <3>5. CASE d \notin exact
            <4>1. <<d, "container">> \in shown.workloads BY <2>5, <3>2, <3>3, <3>5
            <4> QED BY <3>3, <4>1
        <3> QED BY <3>4, <3>5
    <2>10. ASSUME k.path \/ k.file \in Scanned(proc, k.tgid) PROVE shown.path # "fallback"
        <3>1. CASE k.path BY <2>2, <2>3, <2>5, <3>1
        <3>2. CASE k.file \in Scanned(proc, k.tgid) BY <2>2, <2>3, <2>5, <3>2
        <3> QED BY <2>10, <3>1, <3>2
    <2> HIDE DEF d, parents
    <2>11. \E e \in DisplayProcesses(shown) :
              /\ e \in {k.tgid} \cup (parents \ {None})
              /\ <<k.tgid, e>> \in shown.rollups
              /\ k.container => \E w \in shown.workloads : w[1] = e
        BY <2>5, <2>6, <2>7, <2>8, <2>9
    <2> QED BY <2>10, <2>11 DEF item, shown, parents
<1> QED BY <1>1, WindowTyped, WindowExact, PTL
=============================================================================
