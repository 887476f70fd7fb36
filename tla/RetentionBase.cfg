SPECIFICATION FocusSpec

CONSTANTS
    Runs <- OneRun
    Caches <- TwoCaches
    Backups = {}
    Bundles = {}
    Worlds <- Rebuilt
    FinishedWindow = 1
    RecoveredWindow = 2
    Grace = 1
    Keep = 1
    CacheTarget = 0
    MaxClock = 0
    MaxBatches = 3
    MaxFaults = 1
    MaxChanges = 2
    Projects = {p1}
    Renamed = p1
    Threads = {t1}
    Children = {d1}
    Natives = {n1}
    MaxMoves = 1
    MaxSaves = 2
    MaxOrders = 2

INVARIANTS BaseKept
CHECK_DEADLOCK FALSE
