CONSTANTS
  Tasks = {1}
  Calls = {c1, c2}
  None = None
  MaxRollout = 4
  MaxEvents = 5
  MaxRestarts = 1
  Gaps = {0, 3}
  Ids = {1, 2, 3, 4, 5, 6}
  Bindings = {b1, b2}
  PageLimit = 2
SPECIFICATION FocusSpec
SYMMETRY Symmetry
INVARIANTS HistoryInv GraphInv ChunkingIrrelevant
CHECK_DEADLOCK FALSE
