\* One call of the core's owner, one resize, and a connection that may break. The core
\* is destroyed in the end, or the viewer is paused for good.
SPECIFICATION FairSpec
CONSTANTS
  Formats = {8, 32}
  Sizes = {1, 2}
  ServerFormat = 32
  FirstSize = 1
  ViewerFormat = 8
  MaxCalls = 1
  MaxResizes = 1
  StopsEarly = FALSE
INVARIANTS
  OneRequestAtATime
  FormatsAgree
  BlackIsOwed
PROPERTIES
  UpdatingGoesOn
  PictureCatchesUp
  StopCompletes
CHECK_DEADLOCK FALSE
