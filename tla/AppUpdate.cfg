SPECIFICATION FairSpec
CONSTANTS
  Releases <- MCReleases
  MaxChecks = 2
  MaxRetries = 1
  MaxKills = 2
INVARIANTS
  UpdateConsistent
  OnlyNewer
PROPERTIES
  FlagsClear
CHECK_DEADLOCK FALSE
