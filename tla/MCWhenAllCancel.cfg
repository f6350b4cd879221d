SPECIFICATION Spec
CONSTANTS
    Children = {c1, c2}
    Start = Start
    Cancel = Cancel
    Senders <- MCAny
    Null = Null
INVARIANT
    CancelLeft
CHECK_DEADLOCK FALSE
