CONSTANTS
  a = a
  b = b
  Client <- Users
  Spot = {x, y}
  UndoDepth = 3
  MaxBehind = 0
  Does <- RemoteUndoesOnce
  Paints <- Places
  Budget <- Send23
  Operators = {}
  Savers = {a}
  MaxSavepoints = 2
  PenUsers = {a}
  CanFilter = FALSE
  Prompt = {b}

SPECIFICATION MCSpec
INVARIANTS Converged
CHECK_DEADLOCK FALSE
