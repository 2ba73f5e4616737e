SPECIFICATION Spec
CONSTANTS
    Threads = {t1, t2}
    MaxThrows = 1
PROPERTIES CallsEnd
