-------------------------------- MODULE Screen --------------------------------
(***************************************************************************)
(* Where the screen puts what it shows (screen.rs, app.rs): the footer, the*)
(* overview with its window on the rows, and the detail of the selected    *)
(* row.  Heights are in lines; a terminal may have any number of them, and *)
(* what there is no room for is left out.                                  *)
(***************************************************************************)
EXTENDS Naturals

DIRECTION_DETAIL_HEIGHT == 13
MAX_DETAIL_CONTEXT_ROWS == 2
TABBED_DETAIL_MIN_HEIGHT == 1 + 2 + MAX_DETAIL_CONTEXT_ROWS + DIRECTION_DETAIL_HEIGHT

Least(a, b) == IF a <= b THEN a ELSE b
Greatest(a, b) == IF a <= b THEN b ELSE a
Less(a, b) == IF a > b THEN a - b ELSE 0       \* saturating_sub

(* draw of app.rs leaves a line for the footer, that of screen.rs one for  *)
(* an array or a pool that is degraded; the content keeps the last line.   *)
Body(terminal, exception) ==
    Greatest(Least(terminal, 1), Less(terminal, IF exception THEN 2 ELSE 1))

(* master_detail_heights                                                   *)
MasterDetail(height, rows) ==
    LET minDetail == Least(TABBED_DETAIL_MIN_HEIGHT, Less(height, Least(height, 4)))
        overview == IF height <= 3 THEN height
                    ELSE Least(Greatest(rows, 1) + 3, Greatest(Less(height, minDetail), 1))
    IN  [overview |-> overview, detail |-> Less(height, overview)]

(* Fault: the selected row scrolls off the end of the window.              *)
BandWindowLate(height, total, selected) ==
    LET slots == Least(height, total)
    IN  [start |-> Least(Less(Least(selected, total - 1), slots), Less(total, slots)), count |-> slots]

(* visible_band_window: the first rows, or those up to the selected one.   *)
BandWindow(height, total, selected) ==
    LET row == Least(selected, total - 1)
        slots == Least(height, total)
    IN  [start |-> IF height = 0 THEN row ELSE Least(Less(row + 1, slots), Less(total, slots)),
         count |-> slots]

(* draw_devices_view and draw_volumes_view: inside its borders the overview*)
(* has the legend, then a row for each index of the window.                *)
Overview(height, rows, selected) ==
    BandWindow(Less(Less(MasterDetail(height, rows).overview, 2), 1), rows, selected)
Drawn(window) == {window.start + slot : slot \in {n \in 0..window.count : n < window.count}}

(* overview_range_title: the range of those that are drawn.  Index 0 is the*)
(* row of all of them, and has no number.                                  *)
RangeTitle(window, listed) ==
    LET first == Least(Greatest(window.start, 1), listed)
        last == Least(Less(window.start + window.count, 1), listed)
    IN  IF window.count = 0 \/ last = 0 \/ first > last THEN {} ELSE first..last

-----------------------------------------------------------------------------
(* member_table_row_count                                                  *)
TableRows(members) == IF members = 0 THEN 1 ELSE members + 1

(* draw_detail_data: under the line of tabs and inside its borders a detail*)
(* has lines of context, the two charts, and for a volume its members.     *)
DetailParts(height, isVolume, lines, members) ==
    LET inner == Less(Less(height, 1), 2)
        wanted == IF isVolume THEN Least(TableRows(members), 8) ELSE 0
        room == Less(inner, DIRECTION_DETAIL_HEIGHT)
        context == IF isVolume THEN Least(lines, Less(room, wanted))
                   ELSE Least(Least(lines, MAX_DETAIL_CONTEXT_ROWS), room)
        table == Least(Less(Less(inner, context), DIRECTION_DETAIL_HEIGHT), wanted)
    IN  [inner |-> inner, context |-> context, table |-> table,
         charts |-> Less(Less(inner, context), table)]

(* draw_direction_detail: a heading, the bands of the histogram and, where *)
(* there is room below them, the metrics.                                  *)
ChartParts(height) ==
    [bands |-> Least(7, Less(height, 1)), metrics |-> Least(5, Less(Less(height, 1), 7))]

(* draw_member_table: a heading, members, and a line for the others.       *)
MemberTable(height, members) ==
    LET visible == Less(height, 1)
        extra == Less(members, visible)
    IN  [data |-> Least(members, Less(visible, IF extra > 0 THEN 1 ELSE 0)),
         more |-> extra > 0 /\ visible > 0]

-----------------------------------------------------------------------------
(* On a terminal of any height the row that keys act on is among those that*)
(* are drawn, the overview and the detail fill the content between them and*)
(* no row is drawn outside, and the title names the rows that are drawn.   *)
OverviewFits(terminal, exception, rows, selected) ==
    LET body == Body(terminal, exception)
        areas == MasterDetail(body, rows)
        window == Overview(body, rows, selected)
    IN  /\ body <= terminal /\ areas.overview + areas.detail = body
        /\ window.start + window.count <= rows \/ window.count = 0
        /\ window.count > 0 => window.count + 3 <= areas.overview
        /\ body >= 4 => window.count > 0 /\ selected \in Drawn(window)
        /\ RangeTitle(window, rows - 1) = Drawn(window) \ {0}

(* The context, the charts and the members fill the detail and do not      *)
(* overlap; the charts are whole wherever the detail is as high as it is   *)
(* when there is room, whatever context and members are to be shown; and a *)
(* member that is left out of the table is said to be, if the table has a  *)
(* line for it.                                                            *)
DetailFits(height, isVolume, lines, members) ==
    LET parts == DetailParts(height, isVolume, lines, members)
        chart == ChartParts(parts.charts)
        table == MemberTable(parts.table, members)
    IN  /\ parts.context + parts.charts + parts.table = parts.inner
        /\ height >= TABBED_DETAIL_MIN_HEIGHT =>
              parts.charts >= DIRECTION_DETAIL_HEIGHT /\ chart.bands = 7 /\ chart.metrics = 5
        /\ parts.table > 0 => 1 + table.data + (IF table.more THEN 1 ELSE 0) <= parts.table
        /\ parts.table > 1 => (table.data < members <=> table.more)
===============================================================================
