SPECIFICATION FocusSpec

CONSTANTS
    Runs <- TwoRuns
    Caches <- TwoCaches
    Backups <- TwoBackups
    Bundles <- TwoBundles
    Worlds <- Histories
    FinishedWindow = 1
    RecoveredWindow = 2
    Grace = 1
    Keep = 1
    CacheTarget = 0
    MaxClock = 2
    MaxBatches = 2
    MaxFaults = 1
    MaxChanges = 2
    Projects = {p1}
    Renamed = p1
    Threads = {t1}
    Children = {d1}
    Natives = {n1}
    MaxMoves = 1
    MaxSaves = 2
    MaxOrders = 2

INVARIANTS RegistryInv BaseAvailable QuarantineJournalled MappingInv
PROPERTIES ReleaseIsSafe ReturnedIsCovered
CHECK_DEADLOCK FALSE
