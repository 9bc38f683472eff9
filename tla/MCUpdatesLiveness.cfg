\* One viewer that keeps asking, incrementally or in full; the screen changes
\* once. The bounds on drawing let it rest.
SPECIFICATION FairSpec
CONSTANTS
  NumTiles = 1
  Clients = {c1}
  NoClient = NoClient
  CopyRectClients = {}
  DesktopSizeClients = {c1}
  JpegClients = {c1}
  BreakingClients = {}
  InitialPixel = 1
  Displacements = {}
  Regions <- WholeScreen
  Kinds = {TRUE, FALSE}
  MaxOutstanding = 1
  MaxDrawings = 1
  MaxResizes = 0
  MaxCursorMoves = 0
  MaxGrabFailures = 0
CHECK_DEADLOCK FALSE
PROPERTIES
  EventuallyShown
