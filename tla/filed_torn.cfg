SPECIFICATION Spec
CONSTANTS
  User = {a, b}
  BlockSize = 2
  MaxMessages = 4
  MaxResets = 0
  MaxRestarts = 2
  Torn = {1}
INVARIANT OnlyWhatWasAdded
SYMMETRY Symmetry
CHECK_DEADLOCK FALSE
