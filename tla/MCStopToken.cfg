SPECIFICATION FairSpec
CONSTANTS
    Threads = {t1, t2, t3}
    Records = {r1, r2, r3}
    Null = Null
    Head = Head
INVARIANTS
    MutualExclusion
    ListConsistent
    NoUseAfterUnregister
    FlagsOwned
PROPERTIES
    OneShot
    ContractSpec
    StopReachesCallbacks
    UnregisterReturns
CHECK_DEADLOCK FALSE
