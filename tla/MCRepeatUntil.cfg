SPECIFICATION FairSpec
CONSTANTS
    Threads = {t1, t2, t3}
    None = None
    MaxChildren = 4
    NeedExceptionPtr = TRUE
INVARIANTS
    Exclusive
PROPERTIES
    ContractSpec
    KeepsGoing
CHECK_DEADLOCK FALSE
