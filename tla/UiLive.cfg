SPECIFICATION FairSpec
CONSTANTS
    Disks = {1, 2}
    Volumes = {1, 2}
    Layouts <- TwoLayouts
    Keys = {"pause", "settings"}
    Files <- NoFile
    Terminals = {}
    Lines = {}
    Quotas = {0}
    Stamps = 2
    MaxChanges = 1
CHECK_DEADLOCK FALSE
PROPERTIES
    ScreenCatchesUp
