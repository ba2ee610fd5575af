SPECIFICATION Spec
CONSTANTS
  Ports <- MCPorts
  Dirs <- MCDirs
  Home = "a"
  MaxSecrets = 4
  MaxEdits = 2
  MaxSyncs = 2
  MaxKills = 2
  MaxChanges = 2
  MaxLaunches = 1
  MaxEvents = 3
INVARIANTS
  DataKept
  OpensNewest
  SettingsConsistent
CHECK_DEADLOCK FALSE
