SPECIFICATION FairSpec

CONSTANTS
    p1 = p1
    p2 = p2
    c1 = c1
    c2 = c2
    Plans <- OnePlan
    Callers <- MCCallers
    User = user
    NoCaller = noCaller
    NoPlan = noPlan
    MaxFaults = 2
    MaxEdits = 1
    MaxLines = 7

INVARIANT
    MutualExclusion

PROPERTIES
    CallsReturn
    VerdictMatchesContent

CHECK_DEADLOCK FALSE
