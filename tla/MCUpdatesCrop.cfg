\* A viewer with CopyRect that requests a part of the screen. The system rests when the viewer does not ask.
SPECIFICATION Spec
CONSTANTS
  NumTiles = 2
  Clients = {c1}
  NoClient = NoClient
  CopyRectClients = {c1}
  DesktopSizeClients = {c1}
  JpegClients = {}
  BreakingClients = {}
  InitialPixel = 1
  Displacements = {1, 2}
  Regions <- PartOrWhole
  Kinds = {TRUE}
  MaxOutstanding = 1
  MaxDrawings = 1
  MaxResizes = 0
  MaxCursorMoves = 0
  MaxGrabFailures = 0
CHECK_DEADLOCK FALSE
INVARIANTS
  NoLostUpdate
