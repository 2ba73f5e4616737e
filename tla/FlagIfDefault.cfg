SPECIFICATION Spec
CONSTANTS
    Threads = {1, 2, 3}
    None = None
    Programs <- RaceProgram
PROPERTY SetOnlyIfDefault
CHECK_DEADLOCK FALSE
