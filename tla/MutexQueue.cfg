SPECIFICATION Spec
CONSTANTS
    t1 = t1  t2 = t2  t3 = t3  t4 = t4  ready = ready
    None = None
    Threads = {t1, t2, t3, t4}
    Conds = {ready}
    Programs <- QueuePrograms
    Prio <- OneLowPrio
INVARIANTS QueueInv SkipInvariant
SYMMETRY Sym24
