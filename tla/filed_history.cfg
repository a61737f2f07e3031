SPECIFICATION Spec
CONSTANTS
  User = {a, b}
  BlockSize = 2
  MaxMessages = 5
  MaxResets = 2
  MaxRestarts = 2
  Torn = {2}
INVARIANTS
  TypeOK
  CacheComplete
  NobodyIsLeftBehind
  LostOnlyWhenEmpty
  BatchesAdvance
PROPERTY
  IsHistoryLog
SYMMETRY Symmetry
CHECK_DEADLOCK FALSE
