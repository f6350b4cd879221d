SPECIFICATION Spec
CONSTANTS
    Threads = {r, t1, t2}
    Runner = r
    Operations = {o1, o2, o3}
    Null = Null
    EarlyLoad = TRUE
INVARIANT
    NoSleepOnWork
CHECK_DEADLOCK FALSE
