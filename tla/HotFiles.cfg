SPECIFICATION Spec
CONSTANTS
    Keys <- SmallKeys
    None = none
    Limit = 1
    ScanLimit = 1
    Procs <- SmallProcs
    Window = 3
    MaxDrainAge = 2
    MaxElapsed = 3
    MaxRate = 1
CHECK_DEADLOCK FALSE
INVARIANTS
    WindowIsRecent
    HottestOfWindow
    ContributorsShown
