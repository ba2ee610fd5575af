SPECIFICATION FairSpec
CONSTANTS
  MaxVersion <- MCMaxVersion
  Slot = {d1, d2}
  Fetch = Fetch
  MaxRetries <- MCMaxRetries
  MaxStarts = 1
  MaxChecks = 2
  MaxKills = 1
INVARIANTS
  DirectoryWhole
PROPERTIES
  LastBinaryKept
  OnlyVerifiedIsPromoted
  StartsAndDownloadsEnd
CHECK_DEADLOCK FALSE
