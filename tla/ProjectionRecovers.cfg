SPECIFICATION FocusFairSpec

CONSTANTS
    Foci = {"run"}
    Kinds <- Codex
    Buffered = FALSE
    Faulty <- Appending
    MaxEvents = 3
    MaxFaults = 2
    MaxCrashes = 1
    MaxEdits = 0
    Commands = {}
    Launches = {d1}
    MaxRestarts = 0
    MaxLosses = 0
    Opened = {o1}
    Created = {c1}
    TailEvents = 0
    MaxAttempts = 0

PROPERTY
    EventuallyCanonical

CHECK_DEADLOCK FALSE
