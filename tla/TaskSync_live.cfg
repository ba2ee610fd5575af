SPECIFICATION FairSpec
CONSTANTS
  Gid = {g1}
  MaxLeft = 1
  MaxOps = 1
  MaxChanges = 0
  MaxBoots = 1
  MaxLate = 1
  MaxEvents = 1
INVARIANTS
  TableConsistent
PROPERTIES
  LostTaskIsReadded
CHECK_DEADLOCK FALSE
