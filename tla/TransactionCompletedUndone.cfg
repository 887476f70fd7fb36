SPECIFICATION Spec

CONSTANTS
    p1 = p1
    p2 = p2
    c1 = c1
    c2 = c2
    Plans <- OnePlan
    Callers <- OneCaller
    User = user
    NoCaller = noCaller
    NoPlan = noPlan
    MaxFaults = 1
    MaxEdits = 0
    MaxLines = 7

PROPERTY
    CompletedOnlyUndoneByRestore

CHECK_DEADLOCK FALSE
