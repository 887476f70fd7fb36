SPECIFICATION FairSpec

CONSTANTS
    Kinds <- Maintenance
    Buffered = FALSE
    Faulty <- None
    MaxEvents = 2
    MaxFaults = 0
    MaxCrashes = 1
    MaxEdits = 0
    Commands = {}

PROPERTY
    EventuallyCanonical

CHECK_DEADLOCK FALSE
