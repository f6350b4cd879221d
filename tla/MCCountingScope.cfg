SPECIFICATION FairSpec
CONSTANTS
    Threads = {t1, t2, t3}
    Associations = {a1, a2}
    Waiters = {w1, w2}
    Null = Null
    Sentinel = Sentinel
INVARIANTS
    WordConsistent
    JoinedMeansDrained
    AnsweredOnce
    CursorIsPending
    NoUseAfterDestroy
CHECK_DEADLOCK FALSE
PROPERTIES
    ContractSpec
    JoinAnswered
