CONSTANTS
  Engines = {e1, e2}
  Tools = {t1}
  None = None
  Logged = {w1}
  Unlogged = {u1}
  MaxDeaths = 2
  Requests = {r1, r2}
  Threads = {1, 2, 3}
  MaxCalls = 4
  MaxCrashes = 1
  Sessions = {s1, s2}
  Workspaces = {w1}
  PageLimit = 1
  Attempts = 2
  MaxRevision = 3
  MaxUpgrades = 1
  MaxInterrupts = 1
  Scanners = {n1, n2}
  MaxChanges = 2
  MaxGraph = 3
  Projected = {p}
  Live = {l}
  Stored = 2
  MaxOwn = 3
  MaxFaults = 1
SPECIFICATION Spec
INVARIANTS OwnerInv PointerInv ThreadInv CacheFollows ScanInv CaptureInv
PROPERTIES SwitchIsClean RowsHold
CHECK_DEADLOCK FALSE
