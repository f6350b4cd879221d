SPECIFICATION FairSpec
CONSTANTS
    Spawns = {p}
    Senders = {s}
    Joins = {w}
INVARIANTS
    JoinMeansGone
    NobodyInside
PROPERTIES
    ChildrenEnd
CHECK_DEADLOCK FALSE
