\* One viewer. Nobody need copy anything, so the instance may rest.
SPECIFICATION Spec
CONSTANTS
  Clients = {c1}
  ViewOnly = {}
  Texts = {a, b, c}
  Empty = Empty
  MaxCopies = 3
  MaxBusy = 1
CONSTRAINT ThreeEvents
SYMMETRY Alike
INVARIANTS
  SleepsOnlyWhenDone
  NothingComesBack
  ClipboardsAgree
CHECK_DEADLOCK FALSE
