CONSTANTS
  a = a
  b = b
  Client <- Users
  Spot = {x, y}
  UndoDepth = 2
  MaxBehind = 3
  Does <- RemoteUndoes
  Paints <- Places
  Budget <- Send25
  Operators = {}
  Savers = {a}
  MaxSavepoints = 2
  PenUsers = {}
  CanFilter = FALSE
  Prompt = {b}

SPECIFICATION MCSpec
INVARIANTS TypeOK Converged
CHECK_DEADLOCK FALSE
