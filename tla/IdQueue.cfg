CONSTANTS
  Name = {a, b, c, d, e}
  Mods = {e}
  LastId = 4
  MaxUsers = 3

SPECIFICATION Spec
INVARIANTS TypeOK QueueIsPermutation UniqueIds
PROPERTIES NoHastyReuse
