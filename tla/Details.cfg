SPECIFICATION DetailsFairSpec
CONSTANTS
  Gid <- MCGid
  NoGid = "none"
  Layouts <- MCLayouts
  MaxTreeDepth = 3
  MaxInputs = 4
  MaxFailures = 1
  MaxQueue = 1
INVARIANTS
  DialogConsistent
  SelectionFits
PROPERTIES
  SelectionReaches
  ShownSettles
CHECK_DEADLOCK FALSE
