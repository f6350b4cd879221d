SPECIFICATION Spec
CONSTANTS
    Owner = o
    Stopper = s
    Worker = w
INVARIANT
    ConsumeSafe
CHECK_DEADLOCK FALSE
