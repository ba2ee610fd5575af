SPECIFICATION FairSpec
CONSTANTS
  Countdown <- MCCountdown
  MaxEdits = 1
  MaxResizes = 1
INVARIANTS
  ShellConsistent
  RestartIsNotLost
PROPERTIES
  PoweroffAfterCountdown
  CloseEnds
CHECK_DEADLOCK FALSE
