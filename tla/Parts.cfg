SPECIFICATION SpecAll
CONSTANTS
    Threads = {1, 2, 3}
    Callers = {1, 2, 3}
    MaxThrows = 1
    Users = {1, 2, 3, 4}
    Main = 1
    Waiters = {1, 2}
    Identities = {3, 4}
    NoIdentity = None
    MaxPosts = 2
    Iterations = 2
    FlagUsers = {1, 2, 3}
    NoUser = None
    FlagPrograms <- FlagCalls
CHECK_DEADLOCK FALSE
INVARIANTS WordInv OnceInv ObjectInv IdentityInv FlagInv HashSetInv AllocInv BtreeInv CordInv
PROPERTIES ImplementsRWLock EventKept ReturnMeansDone FlagSteps EveryCallReturns
