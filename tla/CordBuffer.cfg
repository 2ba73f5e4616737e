SPECIFICATION Spec
CONSTANTS
    kMaxCapacity = 2
    kMaxHeight = 2
    kMaxFlatLength = 2
    DataLengths = {1}
    MaxBytes = 6
    Starts <- Shared
    SharedTop = TRUE
CHECK_DEADLOCK FALSE
INVARIANT NothingDangles
