CONSTANTS
  a = a
  b = b
  Client <- Users
  Spot = {x}
  UndoDepth = 2
  MaxBehind = 0
  Does <- OnlyOneDraws
  Paints <- Places
  Budget <- Send08
  Operators = {}
  Savers = {b}
  MaxSavepoints = 2
  PenUsers = {}
  CanFilter = FALSE
  Prompt = {b}

SPECIFICATION MCSpec
INVARIANTS UndoAgrees
CHECK_DEADLOCK FALSE
