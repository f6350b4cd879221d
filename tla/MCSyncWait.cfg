SPECIFICATION FairSpec
CONSTANTS
    Main = main
    Pool = pool
    Other = other
    Depth = 3
    Awaits = 2
    Programs <- MCPrograms
    None = None
INVARIANTS
    OneHand
    Faithful
    Declares
PROPERTIES
    Returns
CHECK_DEADLOCK FALSE
