CONSTANTS
  Imports = {i1}
  Applies = {a1}
  Restores = {r1}
  MaxPending = 3
  MaxAsks = 3
  MaxCommits = 1
  MaxLives = 3
SPECIFICATION Spec
INVARIANTS ExecutionInv
PROPERTIES CancelHolds VerdictsHold StopEnds
