SPECIFICATION FairSpec
CONSTANTS
    Children = {c1, c2, c3}
    Start = Start
    Cancel = Cancel
    Senders <- MCSenders
    Null = Null
INVARIANTS
    AnswerComplete
    CallbackQuiescent
PROPERTIES
    FirstDecides
    StopSpreads
    Answered
CHECK_DEADLOCK FALSE
