SPECIFICATION Spec
CONSTANTS
    Threads = {t1, t2, t3}
    Cooperative = FALSE
    DisableResults = {TRUE, FALSE}
    kMaxWaitTime = 3
    WaitTimes = {0, 5}
INVARIANT SpinLockInv
PROPERTIES ImplementsRWLock SleepersProgress
