--------------------------- MODULE MCUpdateKeeper ---------------------------
(* Instances of UpdateKeeper for TLC.                                      *)
EXTENDS UpdateKeeper, TLC

PixelSymmetry == Permutations(Pixels)
=============================================================================
