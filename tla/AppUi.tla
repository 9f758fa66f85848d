-------------------------------- MODULE AppUi --------------------------------
(***************************************************************************)
(* The terminal application (app.rs): a main loop that draws, waits for a  *)
(* key and ticks, and a background thread that collects what is slow and   *)
(* publishes it under a mutex.  The host changes at any time.              *)
(*                                                                         *)
(* Disks and volumes are numbers, in the order of their names: a list of   *)
(* either is the set of its elements, and the index of an element is its   *)
(* place in that order.  Index 0 is the row of all devices.                *)
(*                                                                         *)
(* A device is shown in the filtered list when a file system is on it.     *)
(* That is computed each time it is asked, from the collected file systems *)
(* and volumes and from what /sys says at that moment (stacked_members).   *)
(***************************************************************************)
EXTENDS Screen, FiniteSets, FiniteSetsExt

CONSTANTS
    Disks,       \* disks that may have ticks
    Volumes,     \* file systems that may be mounted
    Layouts,     \* what may be mounted: file system -> the disks under it
    Keys,        \* keys the user presses
    Files,       \* what the settings file may hold at the start
    Terminals,   \* heights that the terminal may have
    Lines,       \* lines of context that a detail may have
    Quotas,      \* --intervals it may be started with; 0 for none
    Stamps,      \* bound: samples are numbered modulo Stamps
    MaxChanges   \* bound: changes of the host

Settings == [view : {"volumes", "devices"}, showAll : BOOLEAN]
Defaults == [view |-> "volumes", showAll |-> FALSE]
Torn == <<>>        \* no file, or a file that is not one of settings

PartialFunctions == UNION {[S -> SUBSET Disks] : S \in SUBSET Volumes}
Snapshots == [filesystems : SUBSET Volumes, volumes : PartialFunctions, rows : PartialFunctions]

ASSUME UiAssumption ==
    /\ IsFiniteSet(Disks) /\ IsFiniteSet(Volumes)
    /\ Disks \subseteq Nat \ {0} /\ Volumes \subseteq Nat \ {0}
    /\ Layouts \subseteq PartialFunctions
    /\ Files \subseteq {Torn} \cup {<<s>> : s \in Settings}
    /\ Terminals \subseteq Nat /\ Lines \subseteq Nat
    /\ Stamps \in Nat /\ Quotas \subseteq 0..(Stamps - 1) /\ MaxChanges \in Nat

VARIABLES
    host,     \* [layout, ticking]: what is mounted where, disks a sample has
    changes,  \* changes of the host so far
    bgAt,     \* where the background thread is
    bg,       \* its copies: [filesystems, volumes, rows]
    shared,   \* the published snapshot, of the same shape
    at,       \* where the main loop is: "draw", "poll", "save", "write", "apply",
              \* "sample", "last", "done"
    file,     \* the settings file
    writable, \* its directory can be made and the file opened
    saved,    \* the last attempt to save the settings did not fail
    app,      \* the snapshot the main loop last took
    latest,   \* io.latest: disks with a tick in the last sample
    samples,  \* samples so far
    quota,    \* --intervals
    remaining,\* remaining_intervals
    live,     \* LiveState
    redraw,
    overlay,  \* show_settings
    view,     \* settings.top_view
    showAll,  \* io_show_unmounted
    selected, \* selected_devices and selected_volumes
    shown     \* what is on the screen

background == <<bgAt, bg, shared>>
data == <<app, latest, samples, quota, remaining>>
controls == <<live, overlay, view, showAll, selected>>
config == <<file, writable, saved>>
vars == <<host, changes, background, at, config, data, redraw, controls, shown>>

-----------------------------------------------------------------------------
(* Members of a file system: what was collected, and what /sys says now.   *)
On(layout, v) == IF v \in DOMAIN layout THEN layout[v] ELSE {}
Members(volumes, v) == On(volumes, v) \cup On(host.layout, v)

(* storage::resolve: a row for each file system.                           *)
RowsOf(filesystems, volumes) == [v \in filesystems |-> Members(volumes, v)]

(* visible_io_ticks.                                                       *)
VisibleOf(all, ticks, snapshot) ==
    {d \in ticks : all \/ \E v \in snapshot.filesystems : d \in Members(snapshot.volumes, v)}
Visible == VisibleOf(showAll, latest, app)

Place(list, x) == Cardinality({y \in list : y <= x})

(* The element at an index: none, or one.                                  *)
At(list, i) == {x \in list : Place(list, x) = i}

(* The index stays when what it meant is gone, or is not asked.            *)
Unmoved(list, was, i) == i

(* The index of the element that was selected, if it is still there.       *)
Follow(list, was, i) == IF was # {} /\ was \subseteq list
                        THEN Place(list, CHOOSE x \in was : TRUE) ELSE i

(* visible_device_count and visible_volume_count.                          *)
DeviceCount(devices) == Cardinality(devices) + (IF devices = {} THEN 0 ELSE 1)
VolumeCount(rows) == Cardinality(DOMAIN rows) + 1

Clamped(i, count) == Least(i, Less(count, 1))

Frame == [samples |-> samples, latest |-> latest, rows |-> app.rows,
          live |-> live, view |-> view, selected |-> selected]

(* Settings::load: what cannot be read or parsed is the defaults.          *)
Loaded(text) == IF text = Torn THEN Defaults ELSE text[1]

(* App::new: the first snapshot is collected before the thread starts, and *)
(* there is no sample yet.                                                 *)
Init ==
    /\ \E layout \in Layouts, ticking \in SUBSET Disks :
          host = [layout |-> layout, ticking |-> ticking]
    /\ changes = 0
    /\ bgAt = "usage"
    /\ bg = [filesystems |-> DOMAIN host.layout, volumes |-> host.layout,
             rows |-> RowsOf(DOMAIN host.layout, host.layout)]
    /\ shared = bg /\ app = bg
    /\ at = "draw"
    /\ latest = {} /\ samples = 0
    /\ quota \in Quotas /\ remaining = quota
    /\ live = "live" /\ redraw = TRUE /\ overlay = FALSE
    /\ file \in Files /\ saved = TRUE /\ writable \in BOOLEAN
    /\ view = Loaded(file).view /\ showAll = Loaded(file).showAll
    /\ selected = [devices |-> 0, volumes |-> 0]
    /\ shown = Frame

-----------------------------------------------------------------------------
(* File systems are mounted, arrays change, disks come and go.             *)
Change ==
    /\ changes < MaxChanges
    /\ changes' = changes + 1
    /\ \/ \E layout \in Layouts : host' = [host EXCEPT !.layout = layout]
       \/ \E ticking \in SUBSET Disks : host' = [host EXCEPT !.ticking = ticking]
    /\ UNCHANGED <<background, at, config, data, redraw, controls, shown>>

(* The usage of devices is refreshed, and no file system.                  *)
KeepFilesystems ==
    /\ bgAt = "usage"
    /\ bgAt' = "rows"
    /\ UNCHANGED <<bg, shared>>

(* spawn_background_collector: file systems every second, volumes every 30 *)
(* seconds, rows with either, and the snapshot each time round.            *)
RefreshUsage ==
    /\ bgAt = "usage"
    /\ bg' = [bg EXCEPT !.filesystems = DOMAIN host.layout]
    /\ bgAt' = "rows"
    /\ UNCHANGED shared

RefreshUsageRows ==
    /\ bgAt = "rows"
    /\ bg' = [bg EXCEPT !.rows = RowsOf(bg.filesystems, bg.volumes)]
    /\ bgAt' = "metadata"
    /\ UNCHANGED shared

UsageNotDue ==
    /\ bgAt = "usage"
    /\ bgAt' = "metadata"
    /\ UNCHANGED <<bg, shared>>

RefreshMetadata ==
    /\ bgAt = "metadata"
    /\ bg' = [bg EXCEPT !.volumes = host.layout]
    /\ bgAt' = "metadataRows"
    /\ UNCHANGED shared

(* The rows keep what the volumes were.                                    *)
KeepRows ==
    /\ bgAt = "metadataRows"
    /\ bgAt' = "publish"
    /\ UNCHANGED <<bg, shared>>

RefreshMetadataRows ==
    /\ bgAt = "metadataRows"
    /\ bg' = [bg EXCEPT !.rows = RowsOf(bg.filesystems, bg.volumes)]
    /\ bgAt' = "publish"
    /\ UNCHANGED shared

MetadataNotDue ==
    /\ bgAt = "metadata"
    /\ bgAt' = "publish"
    /\ UNCHANGED <<bg, shared>>

Publish ==
    /\ bgAt = "publish"
    /\ shared' = bg
    /\ bgAt' = "usage"
    /\ UNCHANGED bg

Background ==
    /\ \/ RefreshUsage \/ RefreshUsageRows \/ UsageNotDue
       \/ RefreshMetadata \/ RefreshMetadataRows \/ MetadataNotDue
       \/ Publish
    /\ UNCHANGED <<host, changes, at, config, data, redraw, controls, shown>>

-----------------------------------------------------------------------------
(* The screen is drawn after keys only.                                    *)
DrawsAfterKey == redraw

(* main_loop: a paused screen is drawn after keys only.                    *)
Draws == live = "live" \/ redraw

Draw ==
    /\ at = "draw"
    /\ IF Draws THEN shown' = Frame /\ redraw' = FALSE
                ELSE UNCHANGED <<shown, redraw>>
    /\ at' = "poll"
    /\ UNCHANGED <<host, changes, background, config, data, controls>>

NoKey ==
    /\ at = "poll"
    /\ at' = "apply"
    /\ UNCHANGED <<host, changes, background, config, data, redraw, controls, shown>>

(* selected_volume_member_tick_index and volume_for_device: the devices    *)
(* view opens on a device of the selected volume, the volumes view on the  *)
(* largest volume with the selected device.                                *)
Reselect(target) ==
    \/ /\ view = target
       /\ UNCHANGED selected
    \/ /\ view = "volumes" /\ target = "devices"
       /\ IF selected.volumes = 0 THEN selected' = [selected EXCEPT !.devices = 0]
          ELSE LET members == UNION {app.rows[v] : v \in At(DOMAIN app.rows, selected.volumes)}
                   there == Visible \cap members
               IN  selected' = [selected EXCEPT !.devices =
                      IF there = {} THEN @ ELSE Place(Visible, Min(there))]
    \/ /\ view = "devices" /\ target = "volumes"
       /\ IF selected.devices = 0 THEN selected' = [selected EXCEPT !.volumes = 0]
          ELSE LET holders == {v \in DOMAIN app.rows :
                                 At(Visible, selected.devices) # {}
                                 /\ At(Visible, selected.devices) \subseteq app.rows[v]}
               IN  \/ holders = {} /\ UNCHANGED selected
                   \/ \E v \in holders :
                         selected' = [selected EXCEPT !.volumes = Place(DOMAIN app.rows, v)]

(* switch_top_view                                                         *)
SwitchTo(target) ==
    /\ Reselect(target)
    /\ view' = target
    /\ UNCHANGED <<live, overlay, showAll>>

(* toggle_io_unmounted                                                     *)
Toggle ==
    /\ view = "devices"
    /\ showAll' = ~showAll
    /\ selected' = [selected EXCEPT !.devices = 0]
    /\ UNCHANGED <<live, overlay, view>>

Below(i, count) == IF i + 1 < count THEN i + 1 ELSE i

Move(key) ==
    LET rows == IF view = "volumes" THEN VolumeCount(app.rows) ELSE DeviceCount(Visible)
    IN  /\ \/ /\ key = "up"
              /\ selected' = [selected EXCEPT ![view] = IF @ > 0 THEN @ - 1 ELSE @]
           \/ /\ key = "down"
              /\ selected' = [selected EXCEPT ![view] = Below(@, rows)]
        /\ UNCHANGED <<live, overlay, view, showAll>>

Target(key) ==
    IF key # "other" THEN key ELSE IF view = "volumes" THEN "devices" ELSE "volumes"

(* handle_key: what a key does, but for quitting.  The sampling interval,  *)
(* the units and the detail tab are left out.                              *)
Handle(key) ==
    \/ /\ key = "settings"
       /\ overlay' = ~overlay
       /\ UNCHANGED <<live, view, showAll, selected>>
    \/ key = "unmounted" /\ (Toggle \/ (view = "volumes" /\ UNCHANGED controls))
    \/ /\ overlay
       /\ key \notin {"settings", "unmounted"}
       /\ UNCHANGED controls
    \/ /\ ~overlay
       /\ \/ /\ key = "pause"
             /\ live' = IF live = "live" THEN "paused" ELSE "live"
             /\ UNCHANGED <<overlay, view, showAll, selected>>
          \/ key \in {"volumes", "devices", "other"} /\ SwitchTo(Target(key))
          \/ key \in {"up", "down"} /\ Move(key)

(* Fault: the choice of devices is not kept.                               *)
PersistsView(key) == view' # view

(* persist_settings, from toggle_io_unmounted and switch_top_view.         *)
Persists(key) == view' # view \/ showAll' # showAll

Key(key) ==
    /\ at = "poll" /\ key # "quit"
    /\ Handle(key)
    /\ redraw' = TRUE
    /\ at' = IF Persists(key) THEN "save" ELSE "apply"
    /\ UNCHANGED <<host, changes, background, config, data, shown>>

(* The last tick is skipped.                                               *)
Quit ==
    /\ at = "poll" /\ "quit" \in Keys
    /\ at' = "done"
    /\ UNCHANGED <<host, changes, background, config, data, redraw, controls, shown>>

-----------------------------------------------------------------------------
(* Settings::save, within the key: the file is truncated, then written.    *)
(* Neither failure is reported.                                            *)
OpenSettings ==
    /\ at = "save"
    /\ \/ writable /\ file' = Torn /\ at' = "write" /\ UNCHANGED saved
       \/ ~writable /\ saved' = FALSE /\ at' = "apply" /\ UNCHANGED file
    /\ UNCHANGED <<writable, host, changes, background, data, redraw, controls, shown>>

WriteSettings ==
    /\ at = "write"
    /\ \/ file' = <<[view |-> view, showAll |-> showAll]>> /\ saved' = TRUE
       \/ saved' = FALSE /\ UNCHANGED file
    /\ at' = "apply"
    /\ UNCHANGED <<writable, host, changes, background, data, redraw, controls, shown>>

-----------------------------------------------------------------------------
(* tick, up to sample: apply_background_snapshot takes the snapshot under  *)
(* the mutex, and both selections follow what they were on.                *)
Apply ==
    /\ at = "apply"
    /\ app' = shared
    /\ selected' =
          [devices |-> Follow(VisibleOf(showAll, latest, shared),
                              At(Visible, selected.devices), selected.devices),
           volumes |-> Follow(DOMAIN shared.rows,
                              At(DOMAIN app.rows, selected.volumes), selected.volumes)]
    /\ at' = "sample"
    /\ UNCHANGED <<host, changes, background, config, latest, samples, quota, remaining,
                   redraw, live, overlay, view, showAll, shown>>

(* note_interval_completed                                                 *)
Left(n) == IF n = 0 THEN 0 ELSE n - 1
QuotaReached == quota > 0 /\ remaining' = 0

(* should_quit ends the loop at once.                                      *)
AfterSampleQuits == IF QuotaReached THEN "done" ELSE "draw"

AfterSample == IF QuotaReached THEN "last" ELSE "draw"

(* tick, from sample on: when the interval has passed there is a sample,   *)
(* and the selection follows its device.  Indices end up in range.         *)
SampleDue ==
    /\ at = "sample"
    /\ latest' = host.ticking
    /\ samples' = (samples + 1) % Stamps
    /\ remaining' = Left(remaining)
    /\ LET visible == VisibleOf(showAll, host.ticking, app)
           followed == Follow(visible, At(Visible, selected.devices), selected.devices)
       IN  selected' = [devices |-> Clamped(followed, DeviceCount(visible)),
                        volumes |-> Clamped(selected.volumes, VolumeCount(app.rows))]
    /\ at' = AfterSample
    /\ UNCHANGED <<host, changes, background, config, app, quota, redraw, live, overlay,
                   view, showAll, shown>>

SampleNotDue ==
    /\ at = "sample"
    /\ selected' = [devices |-> Clamped(selected.devices, DeviceCount(Visible)),
                    volumes |-> Clamped(selected.volumes, VolumeCount(app.rows))]
    /\ at' = "draw"
    /\ UNCHANGED <<host, changes, background, config, data, redraw, live, overlay, view,
                   showAll, shown>>

(* main_loop: the last interval is drawn, whether paused or not.           *)
DrawLast ==
    /\ at = "last"
    /\ shown' = Frame
    /\ at' = "done"
    /\ UNCHANGED <<host, changes, background, config, data, redraw, controls>>

Main ==
    \/ Draw \/ NoKey \/ Quit
    \/ \E key \in Keys : Key(key)
    \/ OpenSettings \/ WriteSettings
    \/ Apply \/ SampleDue \/ SampleNotDue \/ DrawLast

Next == Change \/ Background \/ Main

Spec == Init /\ [][Next]_vars

(* The two threads run, and an interval is always due again.               *)
Due(refresh) == refresh /\ UNCHANGED <<host, changes, at, config, data, redraw, controls, shown>>
Fairness ==
    /\ WF_vars(Main) /\ SF_vars(SampleDue)
    /\ WF_vars(Background) /\ SF_vars(Due(RefreshUsage)) /\ SF_vars(Due(RefreshMetadata))

FairSpec == Spec /\ Fairness

-----------------------------------------------------------------------------
TypeOK ==
    /\ host \in [layout : Layouts, ticking : SUBSET Disks]
    /\ changes \in 0..MaxChanges
    /\ bgAt \in {"usage", "rows", "metadata", "metadataRows", "publish"}
    /\ bg \in Snapshots /\ shared \in Snapshots /\ app \in Snapshots
    /\ at \in {"draw", "poll", "save", "write", "apply", "sample", "last", "done"}
    /\ file \in {Torn} \cup {<<s>> : s \in Settings} /\ {writable, saved} \subseteq BOOLEAN
    /\ latest \subseteq Disks /\ samples \in 0..(Stamps - 1)
    /\ quota \in Quotas /\ remaining \in 0..quota
    /\ live \in {"live", "paused"} /\ view \in {"volumes", "devices"}
    /\ {redraw, overlay, showAll} \subseteq BOOLEAN
    /\ selected \in [devices : 0..Cardinality(Disks), volumes : 0..Cardinality(Volumes)]

IsWhole(s) ==
    /\ DOMAIN s.rows = s.filesystems
    /\ \A v \in s.filesystems : On(s.volumes, v) \subseteq s.rows[v]

(* What is published, and what the main loop works on, is one collection:  *)
(* there is a row for each of its file systems and for no other, and it    *)
(* has the disks of its volumes, although the two are refreshed at their   *)
(* own times.                                                              *)
WholeSnapshots == IsWhole(shared) /\ IsWhole(app)

(* The selection is on a device or a volume, not on an index: whatever is  *)
(* published or sampled, it stays on what it was on as long as that is     *)
(* listed.  Only keys move it, and /sys, which changes the list of mounted *)
(* devices under the index.                                                *)
SelectionKept ==
    [][ host' = host /\ at # "poll" =>
          /\ \A d \in At(Visible, selected.devices) :
                d \in Visible' => At(Visible, selected.devices)' = {d}
          /\ \A v \in At(DOMAIN app.rows, selected.volumes) :
                v \in DOMAIN app'.rows => At(DOMAIN app.rows, selected.volumes)' = {v} ]_vars

(* A live screen shows what the next key will act on: the list of volumes, *)
(* the sample and the selection, none of them out of range.                *)
KeysActOnShown ==
    at = "poll" /\ live = "live" =>
        /\ shown.samples = samples /\ shown.latest = latest /\ shown.rows = app.rows
        /\ shown.view = view /\ shown.selected = selected
        /\ selected.volumes < VolumeCount(shown.rows)

(* With --intervals the program ends by itself after that many samples, not *)
(* one more or fewer, and the last one is on the screen.                   *)
QuotaIsShown ==
    /\ at = "last" => quota > 0 /\ samples = quota
    /\ at = "done" /\ quota > 0 /\ remaining = 0 =>
          shown.samples = quota /\ shown.latest = latest

(* The row that keys act on: of a list that got shorter, the last.         *)
RowCount == IF view = "volumes" THEN VolumeCount(app.rows) ELSE DeviceCount(Visible)
Highlighted == Least(selected[view], RowCount - 1)
MembersShown ==
    IF view = "volumes" THEN UNION {app.rows[v] : v \in At(DOMAIN app.rows, Highlighted)} ELSE {}

(* Whatever the height of the terminal, the row that keys act on is drawn, *)
(* the title names the rows that are, and its detail fits under them, with *)
(* whole charts where there is room for a detail.                          *)
SelectedIsDrawn ==
    at = "draw" /\ RowCount > 0 =>
        \A terminal \in Terminals, exception \in BOOLEAN, lines \in Lines :
            /\ OverviewFits(terminal, exception, RowCount, Highlighted)
            /\ DetailFits(MasterDetail(Body(terminal, exception), RowCount).detail,
                          view = "volumes" /\ Highlighted > 0, lines, Cardinality(MembersShown))

(* What the next start loads, should the program end here, however it ends,*)
(* is the view and the list as they are: at any point but within the save  *)
(* of a change, where the file is empty, and after one that failed.        *)
SettingsKept ==
    at \notin {"save", "write"} /\ saved =>
        Loaded(file) = [view |-> view, showAll |-> showAll]

(* While it is live the screen catches up with the host: once nothing      *)
(* changes any more, its rows are those of what is mounted and its devices *)
(* those that have ticks.                                                  *)
ScreenCatchesUp ==
    <>[](live = "live" /\ at # "done") =>
        <>[](/\ shown.rows = RowsOf(DOMAIN host.layout, host.layout)
             /\ shown.latest = host.ticking)

-----------------------------------------------------------------------------
(* README: p is to "Freeze or resume the display (collection continues)".  *)
(* A key pressed while the display is frozen draws it again, with what was *)
(* collected meanwhile.                                                    *)
FrozenStaysFrozen ==
    [][ shown.live = "paused" /\ shown'.live = "paused" =>
          shown'.samples = shown.samples /\ shown'.rows = shown.rows ]_vars
=============================================================================
