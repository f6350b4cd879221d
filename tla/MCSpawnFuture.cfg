SPECIFICATION FairSpec
CONSTANTS
    Owner = o
    Stopper = s
    Worker = w
INVARIANTS
    SettlingSafe
    ChildKeepsState
    AnswerJustified
PROPERTIES
    FutureAnswered
    StateReclaimed
CHECK_DEADLOCK FALSE
