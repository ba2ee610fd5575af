SPECIFICATION FairSpec
CONSTANTS
  Days = 2
  Minutes = 3
  Start <- MCStart
  Values <- MCValues
  MaxInputs = 3
  MaxFailures = 1
  MaxQueue = 2
INVARIANTS
  LimitsConsistent
PROPERTIES
  LostIsDropped
CHECK_DEADLOCK FALSE
