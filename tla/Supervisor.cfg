SPECIFICATION FairSpec
CONSTANTS
  Child = {c1, c2}
  NoChild = NoChild
  MAX_RETRIES = 3
  MaxCmds = 2
INVARIANTS
  TypeOK
  OneEnginePerBinary
  ReportsFollowSidecar
  NoStrayLoop
PROPERTIES
  ExitIsHandled
  ShutdownStops
  ImplementsLifecycle
CHECK_DEADLOCK FALSE
