SPECIFICATION SpecAll
CONSTANTS
    Readers = {reader1}
    kNumWords = 2
    Values = {0, 1}
    MaxSeq = 6
    None = None
    NoPtr = NoPtr
    kMaxVersion = 2
    Threads = {t1, t2, t3}
    Objects = {x1, x2, x3}
    Clients = {t1, t2, t3}
    Iterators = {0}
    Samples = {x1, x2, x3}
    Graveyard = "graveyard_"
    NoSample = None
    max_samples_ = 1
    MaxDropped = 1
    fourth = x4
    o1 = o1
    o2 = o2
    i1 = i1
    i2 = i2
SYMMETRY Symmetry
CHECK_DEADLOCK FALSE
INVARIANTS SeqInv  DeadlockInv EventInv  CordzInv TableIsSet
PROPERTY ReadsWholeValue
