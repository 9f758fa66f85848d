----------------------------- MODULE AppUiProofs -----------------------------
(***************************************************************************)
(* Proofs about the terminal application: for any disks, file systems,     *)
(* changes of the host, keys and terminal heights.  Those about the layout *)
(* of the screen come first: they hold of any numbers of lines and rows.   *)
(***************************************************************************)
EXTENDS AppUi, FiniteSetTheorems, TLAPS

(* Saturating arithmetic stays in the naturals.                            *)
LEMMA Arithmetic ==
    ASSUME NEW a \in Nat, NEW b \in Nat
    PROVE  /\ Least(a, b) \in Nat /\ Least(a, b) <= a /\ Least(a, b) <= b
           /\ Greatest(a, b) \in Nat /\ Greatest(a, b) >= a /\ Greatest(a, b) >= b
           /\ Less(a, b) \in Nat /\ Less(a, b) <= a
    BY DEF Least, Greatest, Less

(* The window has the selected row wherever it has a row, and no row beyond*)
(* the last one.                                                           *)
LEMMA WindowHasSelected ==
    ASSUME NEW height \in Nat, NEW rows \in Nat \ {0}, NEW chosen \in 0..(rows - 1)
    PROVE  LET window == BandWindow(height, rows, chosen)
           IN  /\ window.start \in Nat /\ window.count \in Nat
               /\ window.count = Least(height, rows)
               /\ height > 0 => window.start <= chosen /\ chosen < window.start + window.count
                                /\ window.start + window.count <= rows
    BY DEF BandWindow, Least, Less

(* The rows that are drawn are those of the window.                        *)
LEMMA DrawnIsWindow ==
    ASSUME NEW start \in Nat, NEW count \in Nat
    PROVE  Drawn([start |-> start, count |-> count]) = {i \in Nat : start <= i /\ i < start + count}
<1> DEFINE window == [start |-> start, count |-> count]
           range == {i \in Nat : start <= i /\ i < start + count}
<1>1. ASSUME NEW i \in Drawn(window) PROVE i \in range
    BY <1>1 DEF Drawn
<1>2. ASSUME NEW i \in range PROVE i \in Drawn(window)
  <2>1. i - start \in {n \in 0..count : n < count} BY <1>2
  <2>2. i = start + (i - start) BY <1>2
  <2> QED BY <2>1, <2>2 DEF Drawn
<1> QED BY <1>1, <1>2

(* The overview and the detail share the height between them.              *)
LEMMA HeightsAddUp ==
    ASSUME NEW height \in Nat, NEW rows \in Nat
    PROVE  LET areas == MasterDetail(height, rows)
           IN  /\ areas.overview \in Nat /\ areas.detail \in Nat
               /\ areas.overview + areas.detail = height
               /\ height >= 4 => areas.overview >= 4
    BY DEF MasterDetail, Least, Greatest, Less, TABBED_DETAIL_MIN_HEIGHT,
           MAX_DETAIL_CONTEXT_ROWS, DIRECTION_DETAIL_HEIGHT

(* A terminal of any height shows the row that is selected.                *)
THEOREM EveryOverviewFits ==
    ASSUME NEW terminal \in Nat, NEW exception \in BOOLEAN,
           NEW rows \in Nat \ {0}, NEW chosen \in 0..(rows - 1)
    PROVE  OverviewFits(terminal, exception, rows, chosen)
<1> DEFINE body == Body(terminal, exception)
           areas == MasterDetail(body, rows)
           inside == Less(Less(areas.overview, 2), 1)
           window == Overview(body, rows, chosen)
<1>1. body \in Nat /\ body <= terminal
    BY DEF Body, Least, Greatest, Less
<1>2. /\ areas.overview \in Nat /\ areas.detail \in Nat
      /\ areas.overview + areas.detail = body
      /\ body >= 4 => areas.overview >= 4
    BY <1>1, HeightsAddUp
<1>3. inside \in Nat /\ (inside > 0 => inside + 3 = areas.overview)
      /\ (areas.overview >= 4 => inside > 0)
    BY <1>2 DEF Less
<1>4. window = BandWindow(inside, rows, chosen) BY DEF Overview
<1> HIDE DEF body, areas, inside
<1>5. /\ window.start \in Nat /\ window.count \in Nat
      /\ window.count = Least(inside, rows)
      /\ inside > 0 => window.start <= chosen /\ chosen < window.start + window.count
                       /\ window.start + window.count <= rows
    BY <1>3, <1>4, WindowHasSelected
<1>6. window = [start |-> window.start, count |-> window.count]
    BY <1>4 DEF BandWindow
<1> HIDE DEF window
<1>7. window.count > 0 => inside > 0 /\ window.count <= inside
    BY <1>3, <1>5 DEF Least
<1>8. Drawn(window) = {i \in Nat : window.start <= i /\ i < window.start + window.count}
    BY <1>5, <1>6, DrawnIsWindow
<1>9. window.start + window.count <= rows \/ window.count = 0
    BY <1>3, <1>5, <1>7
<1>10. window.count > 0 => window.count + 3 <= areas.overview
    BY <1>2, <1>3, <1>5, <1>7
<1>11. body >= 4 => window.count > 0 /\ chosen \in Drawn(window)
    BY <1>2, <1>3, <1>5, <1>8 DEF Least
<1>12. RangeTitle(window, rows - 1) = Drawn(window) \ {0}
  <2> DEFINE s == window.start
             c == window.count
             first == Least(Greatest(s, 1), rows - 1)
             last == Least(Less(s + c, 1), rows - 1)
  <2>1. RangeTitle(window, rows - 1) = IF c = 0 \/ last = 0 \/ first > last THEN {} ELSE first..last
      BY DEF RangeTitle
  <2>2. s \in Nat /\ c \in Nat BY <1>5
  <2> HIDE DEF s, c
  <2>3. CASE c = 0
      BY <2>1, <2>2, <2>3, <1>8 DEF s, c
  <2>4. CASE c > 0
    <3>1. s + c <= rows BY <1>5, <1>9, <2>4 DEF s, c
    <3>2. last = s + c - 1 /\ last \in Nat
        BY <3>1, <2>2, <2>4 DEF Least, Less
    <3>3. first \in Nat /\ first = IF s = 0 THEN (IF rows = 1 THEN 0 ELSE 1) ELSE s
        BY <3>1, <2>2, <2>4 DEF Least, Greatest
    <3> HIDE DEF first, last
    <3>4. Drawn(window) = s..last
        BY <1>8, <3>2, <2>2, <2>4 DEF s, c
    <3>5. CASE s = 0 /\ last = 0
        BY <2>1, <2>4, <3>3, <3>4, <3>5
    <3>6. CASE s = 0 /\ last > 0
      <4>1. first = 1 /\ ~(first > last) BY <3>1, <3>2, <3>3, <3>6, <2>2, <2>4
      <4>2. 1..last = (0..last) \ {0} BY <3>2
      <4> QED BY <2>1, <2>4, <3>2, <3>4, <3>6, <4>1, <4>2, <2>2
    <3>7. CASE s > 0
      <4>1. first = s /\ ~(first > last) /\ last # 0
          BY <3>2, <3>3, <3>7, <2>2, <2>4
      <4>2. RangeTitle(window, rows - 1) = s..last BY <2>1, <2>2, <2>4, <4>1
      <4>3. s..last = (s..last) \ {0} BY <3>2, <3>7, <2>2
      <4> QED BY <3>4, <4>2, <4>3
    <3> QED BY <3>2, <3>5, <3>6, <3>7, <2>2
  <2> QED BY <2>2, <2>3, <2>4
<1> QED
    BY <1>1, <1>2, <1>9, <1>10, <1>11, <1>12 DEF OverviewFits, body, areas, window

(* What a detail has above and below its charts leaves them whole.         *)
LEMMA PartsFill ==
    ASSUME NEW height \in Nat, NEW isVolume \in BOOLEAN, NEW lines \in Nat, NEW members \in Nat
    PROVE  LET parts == DetailParts(height, isVolume, lines, members)
           IN  /\ parts.inner \in Nat /\ parts.context \in Nat
               /\ parts.table \in Nat /\ parts.charts \in Nat
               /\ parts.context + parts.charts + parts.table = parts.inner
               /\ height >= TABBED_DETAIL_MIN_HEIGHT => parts.charts >= DIRECTION_DETAIL_HEIGHT
<1> DEFINE inner == Less(Less(height, 1), 2)
           wanted == IF isVolume THEN Least(TableRows(members), 8) ELSE 0
           room == Less(inner, DIRECTION_DETAIL_HEIGHT)
           context == IF isVolume THEN Least(lines, Less(room, wanted))
                      ELSE Least(Least(lines, MAX_DETAIL_CONTEXT_ROWS), room)
           table == Least(Less(Less(inner, context), DIRECTION_DETAIL_HEIGHT), wanted)
           charts == Less(Less(inner, context), table)
<1>1. DetailParts(height, isVolume, lines, members)
        = [inner |-> inner, context |-> context, table |-> table, charts |-> charts]
    BY DEF DetailParts
<1>2. /\ inner \in Nat
      /\ height >= TABBED_DETAIL_MIN_HEIGHT => inner >= 15
    BY DEF Less, TABBED_DETAIL_MIN_HEIGHT, MAX_DETAIL_CONTEXT_ROWS, DIRECTION_DETAIL_HEIGHT
<1>3. wanted \in Nat
    BY DEF Least, TableRows
<1> HIDE DEF inner, wanted
<1>4. room \in Nat /\ room <= inner /\ (inner >= 13 => room = inner - 13)
    BY <1>2 DEF Less, DIRECTION_DETAIL_HEIGHT
<1> HIDE DEF room
<1>5. context \in Nat /\ context <= room
    BY <1>3, <1>4 DEF Least, Less, MAX_DETAIL_CONTEXT_ROWS
<1> HIDE DEF context
<1>6. /\ table \in Nat
      /\ table <= Less(Less(inner, context), DIRECTION_DETAIL_HEIGHT)
    BY <1>2, <1>3, <1>4, <1>5 DEF Least, Less, DIRECTION_DETAIL_HEIGHT
<1>7. /\ table <= inner - context
      /\ inner >= 13 => inner - context - table >= 13
    BY <1>2, <1>4, <1>5, <1>6 DEF Less, DIRECTION_DETAIL_HEIGHT
<1> HIDE DEF table
<1>8. charts = inner - context - table /\ charts \in Nat
    BY <1>2, <1>4, <1>5, <1>6, <1>7 DEF Less
<1> HIDE DEF charts
<1> QED
    BY <1>1, <1>2, <1>4, <1>5, <1>6, <1>7, <1>8 DEF DIRECTION_DETAIL_HEIGHT

(* A detail of any height has room for what is put in it.                  *)
THEOREM EveryDetailFits ==
    ASSUME NEW height \in Nat, NEW isVolume \in BOOLEAN, NEW lines \in Nat, NEW members \in Nat
    PROVE  DetailFits(height, isVolume, lines, members)
<1> DEFINE parts == DetailParts(height, isVolume, lines, members)
           chart == ChartParts(parts.charts)
           table == MemberTable(parts.table, members)
<1>1. /\ parts.charts \in Nat /\ parts.table \in Nat
      /\ parts.context + parts.charts + parts.table = parts.inner
      /\ height >= TABBED_DETAIL_MIN_HEIGHT => parts.charts >= DIRECTION_DETAIL_HEIGHT
    BY PartsFill
<1> HIDE DEF parts
<1>2. parts.charts >= DIRECTION_DETAIL_HEIGHT => chart.bands = 7 /\ chart.metrics = 5
    BY <1>1 DEF ChartParts, Least, Less, DIRECTION_DETAIL_HEIGHT
<1> DEFINE visible == Less(parts.table, 1)
           extra == Less(members, visible)
           listed == Least(members, Less(visible, IF extra > 0 THEN 1 ELSE 0))
           more == extra > 0 /\ visible > 0
<1>3. table = [data |-> listed, more |-> more]
    BY DEF MemberTable
<1> HIDE DEF table, listed, more
<1>4. table.data = listed /\ table.more = more
    BY <1>3
<1> USE DEF listed, more
<1>5. parts.table > 0 => 1 + listed + (IF extra > 0 /\ visible > 0 THEN 1 ELSE 0) <= parts.table
    BY <1>1 DEF Least, Less
<1>6. parts.table > 1 => (listed < members <=> extra > 0 /\ visible > 0)
  <2>1. parts.table > 1 => visible > 0 /\ visible \in Nat BY <1>1 DEF Less
  <2>2. ASSUME parts.table > 1, extra > 0 PROVE listed < members
      BY <2>1, <2>2 DEF Least, Less
  <2>3. ASSUME parts.table > 1, ~(extra > 0) PROVE ~(listed < members)
      BY <2>1, <2>3 DEF Least, Less
  <2> HIDE DEF listed, extra, visible
  <2> QED BY <2>1, <2>2, <2>3
<1> HIDE DEF listed, extra, visible, more
<1>7. parts.table > 0 => 1 + table.data + (IF table.more THEN 1 ELSE 0) <= parts.table
    BY <1>4, <1>5, Zenon DEF more
<1>8. parts.table > 1 => (table.data < members <=> table.more)
    BY <1>4, <1>6, Zenon DEF more
<1> QED
    BY <1>1, <1>2, <1>7, <1>8, Zenon DEF DetailFits, parts, chart, table

-----------------------------------------------------------------------------
(* The place of an element is at most the number of elements there may be. *)
LEMMA PlaceInRange ==
    ASSUME NEW S, IsFiniteSet(S), NEW list \in SUBSET S, NEW x
    PROVE  Place(list, x) \in 0..Cardinality(S)
<1> DEFINE upTo == {y \in list : y <= x}
<1>1. upTo \subseteq S OBVIOUS
<1>2. IsFiniteSet(upTo) /\ Cardinality(upTo) <= Cardinality(S)
    BY <1>1, FS_Subset
<1>3. Cardinality(upTo) \in Nat /\ Cardinality(S) \in Nat
    BY <1>2, FS_CardinalityType
<1> QED BY <1>2, <1>3 DEF Place

(* Different elements of a list have different places.                     *)
LEMMA PlaceInjective ==
    ASSUME NEW list \in SUBSET Nat, IsFiniteSet(list), NEW x \in list, NEW y \in list,
           Place(list, x) = Place(list, y)
    PROVE  x = y
<1> DEFINE upTo(z) == {w \in list : w <= z}
<1>1. ASSUME NEW a \in list, NEW b \in list, a < b
      PROVE  Cardinality(upTo(a)) # Cardinality(upTo(b))
  <2>1. upTo(b) \subseteq list OBVIOUS
  <2>2. IsFiniteSet(upTo(b)) BY <2>1, FS_Subset
  <2>3. a \in Nat /\ b \in Nat /\ (\A w \in list : w \in Nat) OBVIOUS
  <2>4. upTo(a) \subseteq upTo(b)
    <3> SUFFICES ASSUME NEW w \in list, w <= a PROVE w <= b OBVIOUS
    <3>1. w \in Nat OBVIOUS
    <3> QED BY <1>1, <2>3, <3>1
  <2>5. b \in upTo(b) /\ b \notin upTo(a) BY <1>1, <2>3
  <2> HIDE DEF upTo
  <2>6. upTo(a) \in SUBSET upTo(b) BY <2>4
  <2>7. Cardinality(upTo(b)) = Cardinality(upTo(a)) => upTo(b) = upTo(a)
      BY <2>2, <2>6, FS_Subset, Zenon
  <2> QED BY <2>5, <2>7
<1>2. Cardinality(upTo(x)) = Cardinality(upTo(y)) BY DEF Place
<1> HIDE DEF upTo
<1> QED BY <1>1, <1>2

(* The element at the place of an element is that element.                 *)
LEMMA AtPlace ==
    ASSUME NEW list \in SUBSET Nat, IsFiniteSet(list), NEW x \in list
    PROVE  At(list, Place(list, x)) = {x}
<1>1. ASSUME NEW y \in list, Place(list, y) = Place(list, x) PROVE y = x
    BY <1>1, PlaceInjective
<1> QED BY <1>1 DEF At

(* An index that follows a listed element ends up on it.                   *)
LEMMA FollowKeeps ==
    ASSUME NEW list \in SUBSET Nat, IsFiniteSet(list), NEW x \in list, NEW i
    PROVE  At(list, Follow(list, {x}, i)) = {x}
<1>1. (CHOOSE y \in {x} : TRUE) = x OBVIOUS
<1>2. Follow(list, {x}, i) = Place(list, x) BY <1>1 DEF Follow
<1> QED BY <1>2, AtPlace

(* There is at most one element at an index.                               *)
LEMMA AtIsOne ==
    ASSUME NEW list \in SUBSET Nat, IsFiniteSet(list), NEW i, NEW x \in At(list, i)
    PROVE  At(list, i) = {x} /\ x \in list /\ i = Place(list, x)
<1>1. x \in list /\ i = Place(list, x) BY DEF At
<1> QED BY <1>1, AtPlace

(* An index that follows anything stays in range.                          *)
LEMMA FollowInRange ==
    ASSUME NEW S, IsFiniteSet(S), NEW list \in SUBSET S, NEW was, NEW i \in 0..Cardinality(S)
    PROVE  Follow(list, was, i) \in 0..Cardinality(S)
    BY PlaceInRange DEF Follow

(* The numbers of rows.                                                    *)
LEMMA Counts ==
    ASSUME NEW devices \in SUBSET Disks, NEW rows \in PartialFunctions
    PROVE  /\ IsFiniteSet(devices) /\ Cardinality(devices) \in 0..Cardinality(Disks)
           /\ IsFiniteSet(DOMAIN rows) /\ Cardinality(DOMAIN rows) \in 0..Cardinality(Volumes)
           /\ DOMAIN rows \subseteq Volumes
           /\ DeviceCount(devices) \in 0..(Cardinality(Disks) + 1)
           /\ VolumeCount(rows) \in 1..(Cardinality(Volumes) + 1)
           /\ Cardinality(Disks) \in Nat /\ Cardinality(Volumes) \in Nat
           /\ VolumeCount(rows) = Cardinality(DOMAIN rows) + 1
<1>1. IsFiniteSet(Disks) /\ IsFiniteSet(Volumes) BY UiAssumption
<1>2. PICK S \in SUBSET Volumes : rows \in [S -> SUBSET Disks] BY DEF PartialFunctions
<1>3. DOMAIN rows \subseteq Volumes BY <1>2
<1>4. IsFiniteSet(devices) /\ Cardinality(devices) <= Cardinality(Disks)
    BY <1>1, FS_Subset
<1>5. IsFiniteSet(DOMAIN rows) /\ Cardinality(DOMAIN rows) <= Cardinality(Volumes)
    BY <1>1, <1>3, FS_Subset
<1>6. /\ Cardinality(devices) \in Nat /\ Cardinality(Disks) \in Nat
      /\ Cardinality(DOMAIN rows) \in Nat /\ Cardinality(Volumes) \in Nat
    BY <1>1, <1>4, <1>5, FS_CardinalityType
<1>7. DeviceCount(devices) \in 0..(Cardinality(Disks) + 1)
    BY <1>4, <1>6 DEF DeviceCount
<1>8. VolumeCount(rows) = Cardinality(DOMAIN rows) + 1
    BY DEF VolumeCount
<1> QED BY <1>3, <1>4, <1>5, <1>6, <1>7, <1>8

(* What is visible are disks that have ticks.                              *)
LEMMA VisibleIsTicking ==
    ASSUME NEW all, NEW ticks, NEW snapshot
    PROVE  VisibleOf(all, ticks, snapshot) \subseteq ticks
    BY DEF VisibleOf

(* What is known of a file system is on disks.                             *)
LEMMA OnDisks ==
    ASSUME NEW layout \in PartialFunctions, NEW v
    PROVE  On(layout, v) \subseteq Disks
<1>1. PICK S \in SUBSET Volumes : layout \in [S -> SUBSET Disks] BY DEF PartialFunctions
<1> QED BY <1>1 DEF On

(* A layout has the shape of what is collected of it.                      *)
LEMMA LayoutIsPartial ==
    ASSUME NEW layout \in Layouts
    PROVE  layout \in PartialFunctions /\ DOMAIN layout \in SUBSET Volumes
<1>1. layout \in PartialFunctions BY UiAssumption
<1>2. PICK S \in SUBSET Volumes : layout \in [S -> SUBSET Disks] BY <1>1 DEF PartialFunctions
<1> QED BY <1>1, <1>2

(* Every file system is on disks, by its rows and by what /sys says.       *)
LEMMA MembersAreDisks ==
    ASSUME host.layout \in Layouts, NEW volumes \in PartialFunctions, NEW v
    PROVE  Members(volumes, v) \subseteq Disks
    BY OnDisks, LayoutIsPartial DEF Members

(* So the rows have the shape of a layout.                                 *)
LEMMA RowsArePartial ==
    ASSUME host.layout \in Layouts, NEW volumes \in PartialFunctions,
           NEW filesystems \in SUBSET Volumes
    PROVE  RowsOf(filesystems, volumes) \in PartialFunctions
<1>1. RowsOf(filesystems, volumes) \in [filesystems -> SUBSET Disks]
    BY MembersAreDisks DEF RowsOf
<1> QED BY <1>1 DEF PartialFunctions

-----------------------------------------------------------------------------
(* An index that is cut to a number of rows is that of a row.              *)
LEMMA ClampedInRange ==
    ASSUME NEW n \in Nat, NEW i \in 0..n, NEW count \in 0..(n + 1)
    PROVE  Clamped(i, count) \in 0..n
    BY DEF Clamped, Least, Less

Selections == [devices : 0..Cardinality(Disks), volumes : 0..Cardinality(Volumes)]

(* A key moves a selection to a row there may be.                          *)
LEMMA KeyKeepsRange ==
    ASSUME TypeOK, NEW key, Handle(key)
    PROVE  /\ live' \in {"live", "paused"} /\ view' \in {"volumes", "devices"}
           /\ {overlay', showAll'} \subseteq BOOLEAN
           /\ selected' \in Selections
<1> DEFINE D == Cardinality(Disks)
           V == Cardinality(Volumes)
<1>1. Visible \in SUBSET Disks /\ app.rows \in PartialFunctions
    BY VisibleIsTicking DEF TypeOK, Visible, Snapshots
<1>2. /\ IsFiniteSet(Disks) /\ IsFiniteSet(Volumes) /\ D \in Nat /\ V \in Nat
      /\ DOMAIN app.rows \in SUBSET Volumes
      /\ DeviceCount(Visible) \in 0..(D + 1) /\ VolumeCount(app.rows) \in 1..(V + 1)
    BY <1>1, Counts, UiAssumption
<1>3. /\ live \in {"live", "paused"} /\ view \in {"volumes", "devices"}
      /\ overlay \in BOOLEAN /\ showAll \in BOOLEAN /\ selected \in Selections
    BY DEF TypeOK, Selections
<1>4. CASE key = "settings" /\ overlay' = ~overlay /\ UNCHANGED <<live, view, showAll, selected>>
    BY <1>3, <1>4
<1>5. CASE UNCHANGED controls
    BY <1>3, <1>5 DEF controls
<1>6. CASE Toggle
  <2>1. selected' \in Selections BY <1>2, <1>3, <1>6 DEF Toggle, Selections
  <2> QED BY <1>3, <1>6, <2>1 DEF Toggle
<1>7. CASE /\ live' = IF live = "live" THEN "paused" ELSE "live"
           /\ UNCHANGED <<overlay, view, showAll, selected>>
    BY <1>3, <1>7
<1>8. CASE key \in {"volumes", "devices", "other"} /\ SwitchTo(Target(key))
  <2>1. UNCHANGED live /\ UNCHANGED overlay /\ UNCHANGED showAll /\ view' = Target(key)
    BY <1>8 DEF SwitchTo
  <2>2. Target(key) \in {"volumes", "devices"}
    BY <1>3, <1>8 DEF Target
  <2>3. \A x : Place(Visible, x) \in 0..D BY <1>1, <1>2, PlaceInRange
  <2>4. \A x : Place(DOMAIN app.rows, x) \in 0..V BY <1>2, PlaceInRange
  <2>5. \/ selected' = selected
        \/ \E x \in 0..D : selected' = [selected EXCEPT !.devices = x]
        \/ \E x \in 0..V : selected' = [selected EXCEPT !.volumes = x]
    <3> HIDE DEF D, V
    <3>1. 0 \in 0..D /\ 0 \in 0..V BY <1>2
    <3>2. CASE view = "volumes" /\ Target(key) = "devices"
      <4>1. selected.devices \in 0..D BY <1>3 DEF Selections, D
      <4>2. \E x \in 0..D : selected' = [selected EXCEPT !.devices = x]
        BY <1>8, <2>3, <3>1, <3>2, <4>1 DEF SwitchTo, Reselect
      <4> QED BY <4>2
    <3>3. CASE view = "devices" /\ Target(key) = "volumes"
        BY <1>8, <2>4, <3>1, <3>3 DEF SwitchTo, Reselect
    <3>4. CASE view = Target(key)
        BY <1>8, <3>4 DEF SwitchTo, Reselect
    <3> QED BY <1>3, <2>2, <3>2, <3>3, <3>4
  <2> HIDE DEF D, V
  <2>6. selected \in [devices : 0..D, volumes : 0..V] BY <1>3 DEF Selections, D, V
  <2>7. 0 \in 0..D /\ 0 \in 0..V BY <1>2
  <2>8. selected' \in [devices : 0..D, volumes : 0..V] BY <2>5, <2>6, <2>7
  <2> QED BY <1>3, <2>1, <2>2, <2>8 DEF Selections, D, V
<1>9. CASE key \in {"up", "down"} /\ Move(key)
  <2> DEFINE rows == IF view = "volumes" THEN VolumeCount(app.rows) ELSE DeviceCount(Visible)
  <2>1. \/ selected' = [selected EXCEPT ![view] = IF @ > 0 THEN @ - 1 ELSE @]
        \/ selected' = [selected EXCEPT ![view] = Below(@, rows)]
    BY <1>9 DEF Move
  <2>2. UNCHANGED <<live, overlay, view, showAll>> BY <1>9 DEF Move
  <2> HIDE DEF D, V
  <2>3. selected \in [devices : 0..D, volumes : 0..V] BY <1>3 DEF Selections, D, V
  <2>4. CASE view = "volumes"
    <3>1. rows \in 1..(V + 1) BY <1>2, <2>4 DEF D, V
    <3> HIDE DEF rows
    <3>2. selected.volumes \in 0..V BY <2>3
    <3>3. Below(selected.volumes, rows) \in 0..V
        /\ (IF selected.volumes > 0 THEN selected.volumes - 1 ELSE selected.volumes) \in 0..V
      BY <1>2, <3>1, <3>2 DEF Below, D, V
    <3>4. selected' \in [devices : 0..D, volumes : 0..V] BY <2>1, <2>3, <2>4, <3>3
    <3> QED BY <1>3, <2>2, <3>4 DEF Selections, D, V
  <2>5. CASE view = "devices"
    <3>1. rows \in 0..(D + 1) BY <1>2, <2>5 DEF D, V
    <3> HIDE DEF rows
    <3>2. selected.devices \in 0..D BY <2>3
    <3>3. Below(selected.devices, rows) \in 0..D
        /\ (IF selected.devices > 0 THEN selected.devices - 1 ELSE selected.devices) \in 0..D
      BY <1>2, <3>1, <3>2 DEF Below, D, V
    <3>4. selected' \in [devices : 0..D, volumes : 0..V] BY <2>1, <2>3, <2>5, <3>3
    <3> QED BY <1>3, <2>2, <3>4 DEF Selections, D, V
  <2> QED BY <1>3, <2>4, <2>5
<1> QED BY <1>4, <1>5, <1>6, <1>7, <1>8, <1>9 DEF Handle

(* An interval, or its absence, leaves a selection that is one of a row.   *)
LEMMA SampleKeepsRange ==
    ASSUME TypeOK, SampleDue \/ SampleNotDue
    PROVE  selected' \in Selections
<1> DEFINE D == Cardinality(Disks)
           V == Cardinality(Volumes)
<1>1. /\ Visible \in SUBSET Disks /\ app.rows \in PartialFunctions
      /\ VisibleOf(showAll, host.ticking, app) \in SUBSET Disks
    BY VisibleIsTicking DEF TypeOK, Visible, Snapshots
<1>2. /\ IsFiniteSet(Disks) /\ D \in Nat /\ V \in Nat
      /\ DeviceCount(Visible) \in 0..(D + 1) /\ VolumeCount(app.rows) \in 1..(V + 1)
      /\ DeviceCount(VisibleOf(showAll, host.ticking, app)) \in 0..(D + 1)
    BY <1>1, Counts, UiAssumption
<1>3. selected.devices \in 0..D /\ selected.volumes \in 0..V BY DEF TypeOK
<1>4. Follow(VisibleOf(showAll, host.ticking, app), At(Visible, selected.devices),
             selected.devices) \in 0..D
    BY <1>1, <1>2, <1>3, FollowInRange
<1> HIDE DEF D, V
<1>5. Clamped(selected.volumes, VolumeCount(app.rows)) \in 0..V
  <2>1. VolumeCount(app.rows) \in 0..(V + 1) BY <1>2
  <2> QED BY <1>2, <1>3, <2>1, ClampedInRange
<1>6. CASE SampleDue
  <2>1. Clamped(Follow(VisibleOf(showAll, host.ticking, app), At(Visible, selected.devices),
                       selected.devices),
                DeviceCount(VisibleOf(showAll, host.ticking, app))) \in 0..D
      BY <1>2, <1>4, ClampedInRange
  <2>2. selected' = [devices |-> Clamped(Follow(VisibleOf(showAll, host.ticking, app),
                                                At(Visible, selected.devices), selected.devices),
                                         DeviceCount(VisibleOf(showAll, host.ticking, app))),
                     volumes |-> Clamped(selected.volumes, VolumeCount(app.rows))]
      BY <1>6 DEF SampleDue
  <2> QED BY <1>5, <2>1, <2>2 DEF Selections, D, V
<1>7. CASE SampleNotDue
  <2>1. Clamped(selected.devices, DeviceCount(Visible)) \in 0..D
      BY <1>2, <1>3, ClampedInRange
  <2>2. selected' = [devices |-> Clamped(selected.devices, DeviceCount(Visible)),
                     volumes |-> Clamped(selected.volumes, VolumeCount(app.rows))]
      BY <1>7 DEF SampleNotDue
  <2> QED BY <1>5, <2>1, <2>2 DEF Selections, D, V
<1> QED BY <1>6, <1>7

-----------------------------------------------------------------------------
(* Every key and every step of either thread keeps the types.              *)
LEMMA TypeInit == Init => TypeOK
<1> SUFFICES ASSUME Init PROVE TypeOK OBVIOUS
<1>1. PICK layout \in Layouts, ticking \in SUBSET Disks :
          host = [layout |-> layout, ticking |-> ticking]
    BY DEF Init
<1>2. host.layout \in PartialFunctions /\ DOMAIN host.layout \in SUBSET Volumes
    BY <1>1, LayoutIsPartial
<1>3. RowsOf(DOMAIN host.layout, host.layout) \in PartialFunctions
    BY <1>1, <1>2, RowsArePartial
<1>4. bg \in Snapshots /\ shared \in Snapshots /\ app \in Snapshots
    BY <1>2, <1>3 DEF Init, Snapshots
<1>5. file \in {Torn} \cup {<<t>> : t \in Settings}
    BY UiAssumption DEF Init
<1>6. Loaded(file) \in Settings
    BY <1>5 DEF Loaded, Settings, Defaults, Torn
<1>7. view \in {"volumes", "devices"} /\ showAll \in BOOLEAN
    BY <1>6 DEF Init, Settings
<1>8. Cardinality(Disks) \in Nat /\ Cardinality(Volumes) \in Nat
    BY UiAssumption, FS_CardinalityType
<1>9. selected \in [devices : 0..Cardinality(Disks), volumes : 0..Cardinality(Volumes)]
    BY <1>8 DEF Init
<1>10. quota \in Quotas /\ remaining \in 0..quota /\ samples \in 0..(Stamps - 1)
    BY UiAssumption DEF Init
<1>11. host \in [layout : Layouts, ticking : SUBSET Disks] /\ changes \in 0..MaxChanges
    BY <1>1, UiAssumption DEF Init
<1> QED BY <1>4, <1>5, <1>7, <1>9, <1>10, <1>11 DEF Init, TypeOK

LEMMA TypeStep == TypeOK /\ [Next]_vars => TypeOK'
<1> SUFFICES ASSUME TypeOK, [Next]_vars PROVE TypeOK' OBVIOUS
<1> USE DEF Selections
<1>1. /\ host.layout \in Layouts /\ host.ticking \in SUBSET Disks
      /\ host.layout \in PartialFunctions /\ DOMAIN host.layout \in SUBSET Volumes
    BY LayoutIsPartial DEF TypeOK
<1>2. CASE Change
  <2>1. host' \in [layout : Layouts, ticking : SUBSET Disks]
      BY <1>2 DEF Change, TypeOK
  <2>2. changes' \in 0..MaxChanges
      BY <1>2, UiAssumption DEF Change, TypeOK
  <2> QED BY <1>2, <2>1, <2>2 DEF Change, TypeOK, background, config, data, controls
<1>3. CASE Background
  <2>1. /\ bgAt' \in {"usage", "rows", "metadata", "metadataRows", "publish"}
        /\ bg' \in Snapshots /\ shared' \in Snapshots
    <3>1. bg \in Snapshots /\ shared \in Snapshots BY DEF TypeOK
    <3>2. RowsOf(bg.filesystems, bg.volumes) \in PartialFunctions
        BY <1>1, <3>1, RowsArePartial DEF Snapshots
    <3>3. CASE RefreshUsage
        BY <1>1, <3>1, <3>3 DEF RefreshUsage, Snapshots
    <3>4. CASE RefreshUsageRows
        BY <3>1, <3>2, <3>4 DEF RefreshUsageRows, Snapshots
    <3>5. CASE UsageNotDue
        BY <3>1, <3>5 DEF UsageNotDue
    <3>6. CASE RefreshMetadata
        BY <1>1, <3>1, <3>6 DEF RefreshMetadata, Snapshots
    <3>7. CASE RefreshMetadataRows
        BY <3>1, <3>2, <3>7 DEF RefreshMetadataRows, Snapshots
    <3>8. CASE MetadataNotDue
        BY <3>1, <3>8 DEF MetadataNotDue
    <3>9. CASE Publish
        BY <3>1, <3>9 DEF Publish
    <3> QED BY <1>3, <3>3, <3>4, <3>5, <3>6, <3>7, <3>8, <3>9 DEF Background
  <2> QED BY <1>3, <2>1 DEF Background, TypeOK, config, data, controls
<1>4. CASE Draw
    BY <1>4 DEF Draw, TypeOK, background, config, data, controls
<1>5. CASE NoKey
    BY <1>5 DEF NoKey, TypeOK, background, config, data, controls
<1>6. CASE Quit
    BY <1>6 DEF Quit, TypeOK, background, config, data, controls
<1>7. ASSUME NEW key \in Keys, Key(key) PROVE TypeOK'
  <2>1. /\ live' \in {"live", "paused"} /\ view' \in {"volumes", "devices"}
        /\ {overlay', showAll'} \subseteq BOOLEAN /\ selected' \in Selections
    <3>1. Handle(key) BY <1>7 DEF Key
    <3> QED BY <3>1, KeyKeepsRange
  <2>2. at' \in {"save", "apply"} BY <1>7 DEF Key
  <2>3. UNCHANGED <<host, changes, background, config, data>> /\ redraw' = TRUE
      BY <1>7 DEF Key
  <2> QED BY <2>1, <2>2, <2>3 DEF TypeOK, background, config, data
<1>8. CASE OpenSettings
    BY <1>8 DEF OpenSettings, TypeOK, background, data, controls
<1>9. CASE WriteSettings
  <2>1. [view |-> view, showAll |-> showAll] \in Settings BY DEF TypeOK, Settings
  <2> QED BY <1>9, <2>1 DEF WriteSettings, TypeOK, background, data, controls
<1>10. CASE Apply
  <2>1. /\ VisibleOf(showAll, latest, shared) \in SUBSET Disks
        /\ DOMAIN shared.rows \in SUBSET Volumes
      BY VisibleIsTicking, Counts DEF TypeOK, Snapshots
  <2>2. /\ Follow(VisibleOf(showAll, latest, shared),
                  At(Visible, selected.devices), selected.devices) \in 0..Cardinality(Disks)
        /\ Follow(DOMAIN shared.rows, At(DOMAIN app.rows, selected.volumes),
                  selected.volumes) \in 0..Cardinality(Volumes)
      BY <2>1, FollowInRange, UiAssumption DEF TypeOK
  <2>3. selected' \in Selections
      BY <1>10, <2>2 DEF Apply
  <2> QED BY <1>10, <2>3 DEF Apply, TypeOK, background, config
<1>11. CASE SampleDue
  <2>1. selected' \in Selections BY <1>11, SampleKeepsRange
  <2>2. samples' \in 0..(Stamps - 1)
      BY <1>11, UiAssumption DEF SampleDue, TypeOK
  <2>3. remaining' \in 0..quota
      BY <1>11, UiAssumption DEF SampleDue, TypeOK, Left
  <2>4. at' \in {"last", "draw"} BY <1>11 DEF SampleDue, AfterSample
  <2> QED BY <1>1, <1>11, <2>1, <2>2, <2>3, <2>4 DEF SampleDue, TypeOK, background, config
<1>12. CASE SampleNotDue
  <2>1. selected' \in Selections BY <1>12, SampleKeepsRange
  <2> QED BY <1>12, <2>1 DEF SampleNotDue, TypeOK, background, config, data
<1>13. CASE DrawLast
    BY <1>13 DEF DrawLast, TypeOK, background, config, data, controls
<1>14. CASE UNCHANGED vars
    BY <1>14 DEF vars, TypeOK, background, config, data, controls
<1> QED BY <1>2, <1>3, <1>4, <1>5, <1>6, <1>7, <1>8, <1>9, <1>10, <1>11, <1>12, <1>13, <1>14
        DEF Next, Main

(* All state keeps its type; in particular both selections stay indices of *)
(* rows there may be, the row of all of them included, whatever is         *)
(* published, sampled or pressed.                                          *)
THEOREM TypeCorrect == Spec => []TypeOK
<1> QED BY TypeInit, TypeStep, PTL DEF Spec

-----------------------------------------------------------------------------
(* The copies of the background thread are one collection but between a    *)
(* refresh and the rows that follow it.                                    *)
AllWhole ==
    /\ IsWhole(shared) /\ IsWhole(app)
    /\ bgAt \in {"usage", "metadata", "publish"} => IsWhole(bg)

(* Rows that have just been resolved are those of what they came from.     *)
LEMMA ResolvedIsWhole ==
    ASSUME NEW s, s.rows = RowsOf(s.filesystems, s.volumes)
    PROVE  IsWhole(s)
    BY DEF IsWhole, RowsOf, Members

LEMMA WholeInit == Init => AllWhole
<1> SUFFICES ASSUME Init PROVE AllWhole OBVIOUS
<1>1. bg.rows = RowsOf(bg.filesystems, bg.volumes) BY DEF Init
<1> QED BY <1>1, ResolvedIsWhole DEF Init, AllWhole

LEMMA WholeStep == TypeOK /\ AllWhole /\ [Next]_vars => AllWhole'
<1> SUFFICES ASSUME TypeOK, AllWhole, [Next]_vars PROVE AllWhole' OBVIOUS
<1>1. CASE Background
  <2>1. UNCHANGED app BY <1>1 DEF Background, data
  <2>2. ASSUME bg'.rows = RowsOf(bg'.filesystems, bg'.volumes), UNCHANGED shared
        PROVE  AllWhole'
    <3>1. IsWhole(bg') BY <2>2, ResolvedIsWhole
    <3> QED BY <2>1, <2>2, <3>1 DEF AllWhole, IsWhole
  <2>3. bg \in Snapshots BY DEF TypeOK
  <2>4. CASE RefreshUsage \/ RefreshMetadata
      BY <2>1, <2>4 DEF RefreshUsage, RefreshMetadata, AllWhole, IsWhole
  <2>5. CASE RefreshUsageRows \/ RefreshMetadataRows
      BY <2>2, <2>3, <2>5 DEF RefreshUsageRows, RefreshMetadataRows, Snapshots
  <2>6. CASE UsageNotDue \/ MetadataNotDue
      BY <2>1, <2>6 DEF UsageNotDue, MetadataNotDue, AllWhole, IsWhole
  <2>7. CASE Publish
      BY <2>1, <2>7 DEF Publish, AllWhole, IsWhole
  <2> QED BY <1>1, <2>4, <2>5, <2>6, <2>7 DEF Background
<1>2. CASE Apply
    BY <1>2 DEF Apply, background, AllWhole, IsWhole
<1>3. CASE Change \/ Draw \/ NoKey \/ Quit \/ OpenSettings \/ WriteSettings
           \/ SampleDue \/ SampleNotDue \/ DrawLast \/ UNCHANGED vars
  <2>1. UNCHANGED bgAt /\ UNCHANGED bg /\ UNCHANGED shared /\ UNCHANGED app
      BY <1>3 DEF Change, Draw, NoKey, Quit, OpenSettings, WriteSettings, SampleDue,
                  SampleNotDue, DrawLast, vars, background, data
  <2> QED BY <2>1 DEF AllWhole, IsWhole
<1>4. ASSUME NEW key \in Keys, Key(key) PROVE AllWhole'
  <2>1. UNCHANGED bgAt /\ UNCHANGED bg /\ UNCHANGED shared /\ UNCHANGED app
      BY <1>4 DEF Key, background, data
  <2> QED BY <2>1 DEF AllWhole, IsWhole
<1> QED BY <1>1, <1>2, <1>3, <1>4 DEF Next, Main

(* What is published and what the main loop works on is one collection,    *)
(* although file systems and volumes are refreshed at their own times and  *)
(* the host changes between any two steps.                                 *)
THEOREM SnapshotsAreWhole == Spec => []WholeSnapshots
<1>1. AllWhole => WholeSnapshots BY DEF AllWhole, WholeSnapshots
<1> QED BY <1>1, TypeInit, TypeStep, WholeInit, WholeStep, PTL DEF Spec

-----------------------------------------------------------------------------
(* The file is written in every key that changes what it holds, before     *)
(* anything else happens in the main loop.                                 *)
LEMMA SettingsInit == Init => SettingsKept
<1> SUFFICES ASSUME Init PROVE SettingsKept OBVIOUS
<1>1. file \in {Torn} \cup {<<t>> : t \in Settings} BY UiAssumption DEF Init
<1>2. Loaded(file) \in Settings BY <1>1 DEF Loaded, Settings, Defaults, Torn
<1> QED BY <1>2 DEF Init, SettingsKept, Settings

LEMMA SettingsStep == SettingsKept /\ [Next]_vars => SettingsKept'
<1> SUFFICES ASSUME SettingsKept, [Next]_vars PROVE SettingsKept' OBVIOUS
<1>1. CASE OpenSettings
    BY <1>1 DEF OpenSettings, SettingsKept
<1>2. CASE WriteSettings
  <2>1. view' = view /\ showAll' = showAll BY <1>2 DEF WriteSettings, controls
  <2>2. <<[view |-> view, showAll |-> showAll]>> # Torn BY DEF Torn
  <2> QED BY <1>2, <2>1, <2>2 DEF WriteSettings, SettingsKept, Loaded
<1>3. ASSUME NEW key \in Keys, Key(key) PROVE SettingsKept'
    BY <1>3 DEF Key, Persists, SettingsKept, config
<1>4. CASE Change \/ Background \/ Draw \/ NoKey \/ Quit \/ Apply
           \/ SampleDue \/ SampleNotDue \/ DrawLast \/ UNCHANGED vars
  <2>1. UNCHANGED file /\ UNCHANGED saved /\ UNCHANGED view /\ UNCHANGED showAll
      BY <1>4 DEF Change, Background, Draw, NoKey, Quit, Apply, SampleDue, SampleNotDue,
                  DrawLast, vars, config, controls
  <2>2. at' \notin {"save", "write"} => at \notin {"save", "write"}
      BY <1>4 DEF Change, Background, Draw, NoKey, Quit, Apply, SampleDue, SampleNotDue,
                  DrawLast, vars
  <2> QED BY <2>1, <2>2 DEF SettingsKept
<1> QED BY <1>1, <1>2, <1>3, <1>4 DEF Next, Main

(* Wherever the program ends, the next start loads the view and the list   *)
(* as they were; but not within a save, and not after one that failed.     *)
THEOREM SettingsAreKept == Spec => []SettingsKept
<1> QED BY SettingsInit, SettingsStep, PTL DEF Spec

-----------------------------------------------------------------------------
(* On a terminal of any height, and whatever was published or sampled since*)
(* the selection was made, the row that keys act on is drawn and its detail*)
(* fits under the list.                                                    *)
THEOREM SelectionIsDrawn == Spec => []SelectedIsDrawn
<1>1. TypeOK => SelectedIsDrawn
  <2> SUFFICES ASSUME TypeOK, RowCount > 0,
                      NEW terminal \in Terminals, NEW exception \in BOOLEAN, NEW lines \in Lines
               PROVE  /\ OverviewFits(terminal, exception, RowCount, Highlighted)
                      /\ DetailFits(MasterDetail(Body(terminal, exception), RowCount).detail,
                                    view = "volumes" /\ Highlighted > 0, lines,
                                    Cardinality(MembersShown))
      BY DEF SelectedIsDrawn
  <2>1. terminal \in Nat /\ lines \in Nat BY UiAssumption
  <2>2. RowCount \in Nat /\ Highlighted \in 0..(RowCount - 1)
    <3>1. Visible \in SUBSET Disks /\ app.rows \in PartialFunctions
        BY VisibleIsTicking DEF TypeOK, Visible, Snapshots
    <3>2. DeviceCount(Visible) \in Nat /\ VolumeCount(app.rows) \in Nat
      <4>1. /\ DeviceCount(Visible) \in 0..(Cardinality(Disks) + 1)
            /\ VolumeCount(app.rows) \in 1..(Cardinality(Volumes) + 1)
          BY <3>1, Counts
      <4> QED BY <4>1
    <3>3. RowCount \in Nat BY <3>2 DEF RowCount
    <3>4. Cardinality(Disks) \in Nat /\ Cardinality(Volumes) \in Nat
        BY UiAssumption, FS_CardinalityType
    <3>5. selected \in Selections
        BY DEF TypeOK, Selections
    <3>6. selected.devices \in Nat /\ selected.volumes \in Nat
        BY <3>4, <3>5 DEF Selections
    <3>7. view = "volumes" \/ view = "devices" BY DEF TypeOK
    <3>8. selected[view] \in Nat
        BY <3>6, <3>7
    <3> HIDE DEF RowCount
    <3> QED BY <3>3, <3>8 DEF Highlighted, Least
  <2>3. Cardinality(MembersShown) \in Nat
    <3>1. app.rows \in PartialFunctions BY DEF TypeOK, Snapshots
    <3>2. PICK S \in SUBSET Volumes : app.rows \in [S -> SUBSET Disks]
        BY <3>1 DEF PartialFunctions
    <3>3. MembersShown \in SUBSET Disks BY <3>2 DEF MembersShown, At
    <3> QED BY <3>3, UiAssumption, FS_Subset, FS_CardinalityType
  <2>4. OverviewFits(terminal, exception, RowCount, Highlighted)
      BY <2>1, <2>2, EveryOverviewFits
  <2>5. MasterDetail(Body(terminal, exception), RowCount).detail \in Nat
      BY <2>1, <2>2 DEF MasterDetail, Body, Less, Least, Greatest, TABBED_DETAIL_MIN_HEIGHT,
                    DIRECTION_DETAIL_HEIGHT, MAX_DETAIL_CONTEXT_ROWS
  <2>6. (view = "volumes" /\ Highlighted > 0) \in BOOLEAN OBVIOUS
  <2> QED BY <2>1, <2>3, <2>4, <2>5, <2>6, EveryDetailFits
<1> QED BY <1>1, TypeInit, TypeStep, PTL DEF Spec

-----------------------------------------------------------------------------
(* While there is an interval to come the samples and the intervals that   *)
(* remain are the quota, and the index of a volume is that of a row from   *)
(* each sample to the next key.                                            *)
Counted ==
    /\ quota > 0 => samples + remaining = quota
    /\ at \notin {"last", "done"} /\ quota > 0 => remaining > 0
    /\ at = "draw" => selected.volumes < VolumeCount(app.rows)

Counting == Counted /\ QuotaIsShown /\ KeysActOnShown

LEMMA CountingInit == Init => Counting
<1> SUFFICES ASSUME Init PROVE Counting OBVIOUS
<1>1. TypeOK BY TypeInit
<1>2. VolumeCount(app.rows) \in 1..(Cardinality(Volumes) + 1) /\ Cardinality(Volumes) \in Nat
    BY <1>1, Counts DEF TypeOK, Snapshots
<1>3. at = "draw" /\ selected.volumes = 0 /\ samples = 0 /\ remaining = quota /\ quota \in Nat
    BY UiAssumption DEF Init
<1> QED BY <1>2, <1>3 DEF Counting, Counted, QuotaIsShown, KeysActOnShown

LEMMA CountingStep == TypeOK /\ Counting /\ [Next]_vars => Counting'
<1> SUFFICES ASSUME TypeOK, Counting, [Next]_vars PROVE Counting' OBVIOUS
<1>1. CASE Change \/ Background \/ UNCHANGED vars
  <2>1. UNCHANGED at /\ UNCHANGED <<app, latest, samples, quota, remaining>>
        /\ UNCHANGED <<live, view, selected>> /\ UNCHANGED shown
      BY <1>1 DEF Change, Background, vars, data, controls
  <2> QED BY <2>1 DEF Counting, Counted, QuotaIsShown, KeysActOnShown
<1>2. CASE Draw
  <2>1. at = "draw" /\ at' = "poll" /\ UNCHANGED <<app, latest, samples, quota, remaining>>
        /\ UNCHANGED <<live, view, selected>>
      BY <1>2 DEF Draw, data, controls
  <2>2. live = "live" => shown' = Frame BY <1>2 DEF Draw, Draws
  <2> QED BY <2>1, <2>2 DEF Counting, Counted, QuotaIsShown, KeysActOnShown, Frame
<1>3. CASE NoKey \/ Quit
  <2>1. at = "poll" /\ at' \in {"apply", "done"}
        /\ UNCHANGED <<app, latest, samples, quota, remaining>>
      BY <1>3 DEF NoKey, Quit, data
  <2> QED BY <2>1 DEF Counting, Counted, QuotaIsShown, KeysActOnShown
<1>4. ASSUME NEW key \in Keys, Key(key) PROVE Counting'
  <2>1. at = "poll" /\ at' \in {"save", "apply"}
        /\ UNCHANGED <<app, latest, samples, quota, remaining>>
      BY <1>4 DEF Key, data
  <2> QED BY <2>1 DEF Counting, Counted, QuotaIsShown, KeysActOnShown
<1>5. CASE OpenSettings \/ WriteSettings
  <2>1. at \in {"save", "write"} /\ at' \in {"write", "apply"}
        /\ UNCHANGED <<app, latest, samples, quota, remaining>>
      BY <1>5 DEF OpenSettings, WriteSettings, data
  <2> QED BY <2>1 DEF Counting, Counted, QuotaIsShown, KeysActOnShown
<1>6. CASE Apply
  <2>1. at = "apply" /\ at' = "sample" /\ UNCHANGED <<latest, samples, quota, remaining>>
      BY <1>6 DEF Apply
  <2> QED BY <2>1 DEF Counting, Counted, QuotaIsShown, KeysActOnShown
<1>7. VolumeCount(app.rows) \in 1..(Cardinality(Volumes) + 1)
      /\ Cardinality(Volumes) \in Nat /\ selected.volumes \in 0..Cardinality(Volumes)
    BY Counts DEF TypeOK, Snapshots
<1>8. Clamped(selected.volumes, VolumeCount(app.rows)) < VolumeCount(app.rows)
    BY <1>7 DEF Clamped, Least, Less
<1>9. CASE SampleNotDue
  <2>1. at = "sample" /\ at' = "draw" /\ UNCHANGED <<app, latest, samples, quota, remaining>>
      BY <1>9 DEF SampleNotDue, data
  <2>2. selected'.volumes = Clamped(selected.volumes, VolumeCount(app.rows))
      BY <1>9 DEF SampleNotDue
  <2> QED BY <1>8, <2>1, <2>2 DEF Counting, Counted, QuotaIsShown, KeysActOnShown
<1>10. CASE SampleDue
  <2>1. at = "sample" /\ UNCHANGED <<app, quota>> /\ remaining' = Left(remaining)
        /\ samples' = (samples + 1) % Stamps
        /\ at' = IF quota > 0 /\ remaining' = 0 THEN "last" ELSE "draw"
      BY <1>10 DEF SampleDue, AfterSample, QuotaReached
  <2>2. selected'.volumes = Clamped(selected.volumes, VolumeCount(app.rows))
      BY <1>10 DEF SampleDue
  <2>3. quota > 0 => samples' + remaining' = quota
    <3> SUFFICES ASSUME quota > 0 PROVE samples' + remaining' = quota OBVIOUS
    <3>1. /\ samples \in 0..(Stamps - 1) /\ remaining \in 0..quota /\ quota \in 0..(Stamps - 1)
          /\ Stamps \in Nat
        BY UiAssumption DEF TypeOK
    <3>2. samples + remaining = quota /\ remaining > 0
        BY <2>1 DEF Counting, Counted
    <3>3. samples + 1 \in 0..(Stamps - 1) BY <3>1, <3>2
    <3>4. (samples + 1) % Stamps = samples + 1 BY <3>1, <3>3
    <3> QED BY <2>1, <3>1, <3>2, <3>4 DEF Left
  <2>4. quota \in Nat /\ remaining \in Nat /\ remaining' \in Nat
      BY <2>1, UiAssumption DEF TypeOK, Left
  <2>5. at' \notin {"last", "done"} /\ quota' > 0 => remaining' > 0
      BY <2>1, <2>4
  <2>6. at' = "last" => quota' > 0 /\ samples' = quota'
      <3>1. samples' \in Nat BY <2>1, UiAssumption DEF TypeOK
      <3> QED BY <2>1, <2>3, <2>4, <3>1
  <2>7. at' = "draw" => selected'.volumes < VolumeCount(app'.rows)
      BY <1>8, <2>1, <2>2
  <2>8. at' \notin {"poll", "done"} /\ quota' = quota BY <2>1
  <2> QED BY <2>3, <2>5, <2>6, <2>7, <2>8 DEF Counting, Counted, QuotaIsShown, KeysActOnShown
<1>11. CASE DrawLast
  <2>1. at = "last" /\ at' = "done" /\ shown' = Frame
        /\ UNCHANGED <<app, latest, samples, quota, remaining>>
      BY <1>11 DEF DrawLast, data
  <2> QED BY <2>1 DEF Counting, Counted, QuotaIsShown, KeysActOnShown, Frame
<1> QED BY <1>1, <1>2, <1>3, <1>4, <1>5, <1>6, <1>9, <1>10, <1>11 DEF Next, Main

(* With --intervals the program ends by itself after exactly that many     *)
(* samples, the last of them on the screen, whatever is pressed.           *)
THEOREM QuotaIsKept == Spec => []QuotaIsShown
<1>1. Counting => QuotaIsShown BY DEF Counting
<1> QED BY <1>1, TypeInit, TypeStep, CountingInit, CountingStep, PTL DEF Spec

(* A live screen shows what the next key acts on, within its rows.         *)
THEOREM KeysActOnTheShown == Spec => []KeysActOnShown
<1>1. Counting => KeysActOnShown BY DEF Counting
<1> QED BY <1>1, TypeInit, TypeStep, CountingInit, CountingStep, PTL DEF Spec

-----------------------------------------------------------------------------
(* The place of a listed element is that of a row, so cutting it to the    *)
(* rows leaves it.                                                         *)
LEMMA ListedIsNotCut ==
    ASSUME NEW S, IsFiniteSet(S), NEW list \in SUBSET S, NEW x \in list, S \subseteq Nat
    PROVE  /\ Clamped(Place(list, x), DeviceCount(list)) = Place(list, x)
           /\ Clamped(Place(list, x), Cardinality(list) + 1) = Place(list, x)
<1>1. IsFiniteSet(list) BY FS_Subset
<1>2. Place(list, x) \in 0..Cardinality(list) BY <1>1, PlaceInRange
<1>3. Cardinality(list) \in Nat BY <1>1, FS_CardinalityType
<1>4. DeviceCount(list) = Cardinality(list) + 1 BY DEF DeviceCount
<1> HIDE DEF DeviceCount
<1> QED BY <1>2, <1>3, <1>4 DEF Clamped, Least, Less

(* What the selections of a list were on they are still on.                *)
KeptOn(list, i, after, j) ==
    \A x \in At(list, i) : x \in after => At(after, j) = {x}

LEMMA UnmovedIsKept ==
    ASSUME NEW list \in SUBSET Nat, IsFiniteSet(list), NEW i
    PROVE  KeptOn(list, i, list, i)
    BY AtIsOne DEF KeptOn

LEMMA FollowedIsKept ==
    ASSUME NEW S, IsFiniteSet(S), S \subseteq Nat,
           NEW list \in SUBSET S, NEW after \in SUBSET S, NEW i
    PROVE  /\ KeptOn(list, i, after, Follow(after, At(list, i), i))
           /\ KeptOn(list, i, after, Clamped(Follow(after, At(list, i), i), DeviceCount(after)))
<1>1. IsFiniteSet(list) /\ IsFiniteSet(after) BY FS_Subset
<1>2. ASSUME NEW x \in At(list, i), x \in after
      PROVE  /\ At(after, Follow(after, At(list, i), i)) = {x}
             /\ At(after, Clamped(Follow(after, At(list, i), i), DeviceCount(after))) = {x}
  <2>1. At(list, i) = {x} BY <1>1, AtIsOne
  <2>2. At(after, Follow(after, {x}, i)) = {x} BY <1>1, <1>2, FollowKeeps
  <2>3. Follow(after, {x}, i) = Place(after, x)
      BY <1>1, <2>2, AtIsOne
  <2>4. Clamped(Place(after, x), DeviceCount(after)) = Place(after, x)
      BY <1>2, ListedIsNotCut
  <2> QED BY <2>1, <2>2, <2>3, <2>4
<1> QED BY <1>2 DEF KeptOn

LEMMA CutIsKept ==
    ASSUME NEW S, IsFiniteSet(S), S \subseteq Nat, NEW list \in SUBSET S, NEW i
    PROVE  /\ KeptOn(list, i, list, Clamped(i, DeviceCount(list)))
           /\ KeptOn(list, i, list, Clamped(i, Cardinality(list) + 1))
<1>1. IsFiniteSet(list) BY FS_Subset
<1>2. ASSUME NEW x \in At(list, i)
      PROVE  /\ At(list, Clamped(i, DeviceCount(list))) = {x}
             /\ At(list, Clamped(i, Cardinality(list) + 1)) = {x}
  <2>1. At(list, i) = {x} /\ x \in list /\ i = Place(list, x) BY <1>1, AtIsOne
  <2> QED BY <2>1, ListedIsNotCut
<1> QED BY <1>2 DEF KeptOn

(* Both selections stay on what they were on through every publication and *)
(* every sample, whatever else is listed or gone.                          *)
THEOREM SelectionIsKept == Spec => SelectionKept
<1>1. ASSUME TypeOK, TypeOK', [Next]_vars, host' = host, at # "poll"
      PROVE  /\ \A d \in At(Visible, selected.devices) :
                   d \in Visible' => At(Visible, selected.devices)' = {d}
             /\ \A v \in At(DOMAIN app.rows, selected.volumes) :
                   v \in DOMAIN app'.rows => At(DOMAIN app.rows, selected.volumes)' = {v}
  <2>1. SUFFICES /\ KeptOn(Visible, selected.devices, Visible', selected'.devices)
                 /\ KeptOn(DOMAIN app.rows, selected.volumes, DOMAIN app'.rows, selected'.volumes)
      BY DEF KeptOn, At, Place
  <2>2. /\ Visible \in SUBSET Disks /\ Visible' \in SUBSET Disks
        /\ DOMAIN app.rows \in SUBSET Volumes /\ DOMAIN app'.rows \in SUBSET Volumes
    <3>1. Visible \in SUBSET Disks /\ Visible' \in SUBSET Disks
        BY <1>1, VisibleIsTicking DEF Visible, VisibleOf, TypeOK
    <3>2. app.rows \in PartialFunctions /\ app'.rows \in PartialFunctions
        BY <1>1 DEF TypeOK, Snapshots
    <3> QED BY <3>1, <3>2 DEF PartialFunctions
  <2>3. /\ IsFiniteSet(Disks) /\ Disks \subseteq Nat
        /\ IsFiniteSet(Volumes) /\ Volumes \subseteq Nat
      BY UiAssumption
  <2>4. /\ Visible \in SUBSET Nat /\ IsFiniteSet(Visible)
        /\ DOMAIN app.rows \in SUBSET Nat /\ IsFiniteSet(DOMAIN app.rows)
      BY <2>2, <2>3, FS_Subset
  <2>5. CASE UNCHANGED <<showAll, latest, app, selected>>
    <3>1. Visible' = Visible BY <1>1, <2>5 DEF Visible, VisibleOf, Members
    <3> QED BY <2>4, <2>5, <3>1, UnmovedIsKept
  <2>6. CASE Apply
    <3>1. Visible' = VisibleOf(showAll, latest, shared)
        BY <1>1, <2>6 DEF Apply, Visible, VisibleOf, Members
    <3>2. /\ selected'.devices = Follow(Visible', At(Visible, selected.devices), selected.devices)
          /\ selected'.volumes = Follow(DOMAIN app'.rows,
                                        At(DOMAIN app.rows, selected.volumes), selected.volumes)
        BY <2>6, <3>1 DEF Apply
    <3> QED BY <2>2, <2>3, <3>2, FollowedIsKept
  <2>7. KeptOn(DOMAIN app.rows, selected.volumes, DOMAIN app.rows,
               Clamped(selected.volumes, VolumeCount(app.rows)))
      BY <2>2, <2>3, CutIsKept DEF VolumeCount
  <2>8. CASE SampleDue
    <3>1. Visible' = VisibleOf(showAll, host.ticking, app) /\ app' = app
        BY <1>1, <2>8 DEF SampleDue, Visible, VisibleOf, Members
    <3>2. /\ selected'.devices = Clamped(Follow(Visible', At(Visible, selected.devices),
                                                selected.devices), DeviceCount(Visible'))
          /\ selected'.volumes = Clamped(selected.volumes, VolumeCount(app.rows))
        BY <2>8, <3>1 DEF SampleDue
    <3>3. KeptOn(Visible, selected.devices, Visible', selected'.devices)
        BY <2>2, <2>3, <3>2, FollowedIsKept
    <3> QED BY <2>7, <3>1, <3>2, <3>3
  <2>9. CASE SampleNotDue
    <3>1. Visible' = Visible /\ app' = app
        BY <1>1, <2>9 DEF SampleNotDue, data, Visible, VisibleOf, Members
    <3>2. /\ selected'.devices = Clamped(selected.devices, DeviceCount(Visible))
          /\ selected'.volumes = Clamped(selected.volumes, VolumeCount(app.rows))
        BY <2>9 DEF SampleNotDue
    <3>3. KeptOn(Visible, selected.devices, Visible', selected'.devices)
        BY <2>2, <2>3, <3>1, <3>2, CutIsKept
    <3> QED BY <2>7, <3>1, <3>2, <3>3
  <2>10. ASSUME Change \/ Background \/ Draw \/ OpenSettings \/ WriteSettings
                \/ DrawLast \/ UNCHANGED vars
         PROVE  UNCHANGED <<showAll, latest, app, selected>>
      BY <2>10 DEF Change, Background, Draw, OpenSettings, WriteSettings, DrawLast, vars,
                   data, controls
  <2>11. ~NoKey /\ ~Quit /\ (\A key \in Keys : ~Key(key))
      BY <1>1 DEF NoKey, Quit, Key
  <2> QED BY <1>1, <2>5, <2>6, <2>8, <2>9, <2>10, <2>11 DEF Next, Main
<1> QED BY <1>1, TypeInit, TypeStep, PTL DEF Spec, SelectionKept
=============================================================================
