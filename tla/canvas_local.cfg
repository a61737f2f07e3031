CONSTANTS
  a = a
  b = b
  Client <- Users
  Spot = {x, y}
  UndoDepth = 3
  MaxBehind = 2
  Does <- LocalUndoes
  Paints <- Places
  Budget <- Send32
  Operators = {}
  Savers = {a}
  MaxSavepoints = 2
  PenUsers = {a}
  CanFilter = TRUE
  Prompt = {b}

SPECIFICATION MCSpec
INVARIANTS Converged SavepointsRestore SavepointsBeforeFork ForkInFlight
CHECK_DEADLOCK FALSE
