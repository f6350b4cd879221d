SPECIFICATION Spec
CONSTANTS
    Owner = o
    Stopper = s
    Worker = w
INVARIANT
    AbandonSafe
CHECK_DEADLOCK FALSE
