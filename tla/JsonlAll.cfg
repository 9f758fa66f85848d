SPECIFICATION Spec
CONSTANTS
    Names = {"sda", "dm-0"}
    Logical = {"dm-0"}
    Facts = {old, new}
    Unknown = unknown
    Stacks = {before, after}
    Refresh = 2
    Limit = 2
    MaxChanges = 2
SYMMETRY Symmetry
CHECK_DEADLOCK FALSE
INVARIANTS
    StreamIsReadable
    SamplesAreDescribed
    OutdatedIsRecent
