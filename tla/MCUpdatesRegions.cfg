\* One viewer without CopyRect that requests incrementally a part of the screen
\* or all of it; the screen changes once, by drawing or by moving a window, and once
\* it may not be grabbed. The system rests when the viewer does not ask.
SPECIFICATION Spec
CONSTANTS
  NumTiles = 2
  Clients = {c1}
  NoClient = NoClient
  CopyRectClients = {}
  DesktopSizeClients = {c1}
  JpegClients = {}
  BreakingClients = {}
  InitialPixel = 1
  Displacements = {1}
  Regions <- PartOrWhole
  Kinds = {TRUE}
  MaxOutstanding = 1
  MaxDrawings = 1
  MaxResizes = 0
  MaxCursorMoves = 0
  MaxGrabFailures = 1
CONSTRAINT FailsForWholeScreen
CHECK_DEADLOCK FALSE
PROPERTIES
  KeepsAccount
