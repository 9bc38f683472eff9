\* TvnServer::~TvnServer kills zombies before the manager has let its clients
\* go.
SPECIFICATION FairSpec
CONSTANTS
  Clients = {c1, c2}
  NoClient = NoClient
  MaxWakes = 0
CHECK_DEADLOCK FALSE
PROPERTIES
  KillAllZombiesReturns
