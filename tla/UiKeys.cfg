SPECIFICATION Spec
CONSTANTS
    Disks = {1, 2}
    Volumes = {1, 2}
    Layouts <- TwoLayouts
    Keys = {"up", "down", "other", "unmounted", "pause", "quit"}
    Files <- NoFile
    Terminals = {4, 22}
    Lines = {3}
    Quotas = {2}
    Stamps = 3
    MaxChanges = 1
CHECK_DEADLOCK FALSE
INVARIANTS
    WholeSnapshots
    KeysActOnShown
    QuotaIsShown
    SelectedIsDrawn
    SettingsKept
PROPERTIES
    SelectionKept
