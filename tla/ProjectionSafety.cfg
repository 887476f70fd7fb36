SPECIFICATION FocusSpec

CONSTANTS
    Foci = {"run", "broker", "tail"}
    Kinds <- AllKinds
    Buffered = TRUE
    Faulty <- Everything
    MaxEvents = 2
    MaxFaults = 1
    MaxCrashes = 2
    MaxEdits = 2
    Commands = {"edit", "delete", "restore"}
    Launches = {d1, d2}
    MaxRestarts = 1
    MaxLosses = 2
    Opened = {o1}
    Created = {c1}
    TailEvents = 3
    MaxAttempts = 1

INVARIANTS
    TypeOK
    OneDerivedSession
    WriteAheadOrder
    BrokerInv
    TailInv

PROPERTIES
    AppendedOnce
    MaterialKept

CHECK_DEADLOCK FALSE
