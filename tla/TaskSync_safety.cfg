SPECIFICATION Spec
CONSTANTS
  Gid = {g1}
  MaxLeft = 1
  MaxOps = 1
  MaxChanges = 1
  MaxBoots = 0
  MaxLate = 2
  MaxEvents = 1
INVARIANTS
  TableConsistent
PROPERTIES
  NoPhantomCard
CHECK_DEADLOCK FALSE
