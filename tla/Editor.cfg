SPECIFICATION Spec
CONSTANTS
  Foreign = Foreign
  None = None
  Mentioned = Mentioned
  Events = {"SessionStart", "Stop"}
  Broken = Broken
  Half = Half
  NotKnown = NotKnown
  HookClients <- TwoHookClients
  ServerClients <- ThreeServerClients
  Settings <- SomeSettings
  Empty <- NoSettings
  Windows = TRUE
  MaxRuns = 3
  MaxEdits = 1
CHECK_DEADLOCK FALSE
INVARIANT UninstallRestores
PROPERTY StatusFollows
PROPERTY NothingIsLost
