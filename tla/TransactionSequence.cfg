SPECIFICATION RaceSpec

CONSTANTS
    p1 = p1
    p2 = p2
    c1 = c1
    c2 = c2
    Plans <- MCPlans
    Callers <- MCCallers
    User = user
    NoCaller = noCaller
    NoPlan = noPlan
    MaxFaults = 2
    MaxEdits = 1
    MaxLines = 7

SYMMETRY
    PlanAndCallerSymmetry

INVARIANTS
    TypeOK
    JournalLeadsDatabase
    BackupBeforeCommit
    WrittenOnce

PROPERTY
    OthersUntouched

CHECK_DEADLOCK FALSE
