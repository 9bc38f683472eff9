\* Resizes, which may fail to be applied, and grabs of the screen that may fail, or
\* moves of the cursor; and a connection that breaks. The viewer does not support
\* DesktopSize and requests, incrementally or in full, up to twice before it is
\* answered, as far as NotEverything lets it. The system rests when it does not ask.
SPECIFICATION Spec
CONSTANTS
  NumTiles = 1
  Clients = {c1}
  NoClient = NoClient
  CopyRectClients = {}
  DesktopSizeClients = {}
  JpegClients = {c1}
  BreakingClients = {c1}
  InitialPixel = 1
  Displacements = {}
  Regions <- WholeScreen
  Kinds = {TRUE, FALSE}
  MaxOutstanding = 2
  MaxDrawings = 0
  MaxResizes = 1
  MaxCursorMoves = 1
  MaxGrabFailures = 1
CONSTRAINT NotEverything
CHECK_DEADLOCK FALSE
INVARIANTS
  NoLostUpdate
  UpdatesAreDemanded
  RequestsAreFlagged
