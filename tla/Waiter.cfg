SPECIFICATION Spec
CONSTANTS
    Posters = {p1, p2}
    Kinds = {"Futex", "Sem", "Pthread", "Stdcpp", "Win32"}
    Requests <- AskedTimeouts
    kMaxNanos = 4
    kIdlePeriods = 0
    kNanosInMicro = 2
    kNanosInMilli = 2
    kInfiniteMillis = 9
    MaxPosts = 2
    MaxTicks = 2
    MaxClock = 2
INVARIANT WaiterInv
PROPERTIES ImplementsSemaphore  WaitEnds
