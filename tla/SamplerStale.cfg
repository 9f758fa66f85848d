SPECIFICATION Spec
CONSTANTS
    d1 = d1
    p1 = p1
    v1 = v1
    v2 = v2
    Disks = {d1}
    Parts = {p1}
    Volumes = {v1, v2}
    Layouts <- OneLayouts
    Boot <- NearWrap
    Times = {1}
    Wrap = 4
    RingLen = 2
    MayFail = TRUE
    MaxIo = 1
    MaxChanges = 1
    MaxSamples = 3
CHECK_DEADLOCK FALSE
INVARIANT
    VolumeRequestsAreOfTick
