\* Two connections and the destruction of the server under fair scheduling; the
\* desktops' threads are woken once. killAllZombies may block the system for good.
SPECIFICATION FairSpec
CONSTANTS
  Clients = {c1, c2}
  NoClient = NoClient
  MaxWakes = 1
CHECK_DEADLOCK FALSE
INVARIANTS
  UsedModulesExist
  HeldDesktopExists
  DesktopHasClients
  NothingOutlivesShutdown
PROPERTIES
  LostClientIsFreed
  ShutdownCompletes
