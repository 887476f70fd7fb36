CONSTANTS
  MaxBody = 2
  MaxTitles = 1
  MaxEdits = 2
  MaxBusy = 2
  MaxVersions = 3
  MaxRows = 4
  MaxRuns = 2
SPECIFICATION FocusSpec
INVARIANTS LibraryInv NativeInv
PROPERTIES WritesAreKept
CHECK_DEADLOCK FALSE
