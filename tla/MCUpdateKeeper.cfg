\* Three tiles, any sequence of copies, overlapping or not, and of changes.
SPECIFICATION Spec
CONSTANTS
  NumTiles = 3
  Pixels = {p1, p2}
SYMMETRY PixelSymmetry
INVARIANTS
  KeeperIsSound
