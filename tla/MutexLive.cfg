SPECIFICATION Spec
CONSTANTS
    t1 = t1  t2 = t2  t3 = t3  t4 = t4  ready = ready
    None = None
    Threads = {t1, t2, t3}
    Conds = {ready}
    Programs <- LivePrograms
    Prio <- EqualPrio
INVARIANTS QueueInv WakeInv
PROPERTIES ImplementsMutexWord Termination
