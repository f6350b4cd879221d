SPECIFICATION FairSpec
CONSTANTS
    Threads = {r, t1, t2}
    Runner = r
    Operations = {o1, o2, o3}
    Null = Null
    EarlyLoad = FALSE
INVARIANTS
    NoLostWakeup
    LoopMayBeDestroyed
PROPERTIES
    ContractSpec
    OperationsExecuted
    RunReturns
CHECK_DEADLOCK FALSE
