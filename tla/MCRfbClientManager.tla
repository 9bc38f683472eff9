------------------------ MODULE MCRfbClientManager ------------------------
(* RfbClientManager on a few connections, which are interchangeable. *)
EXTENDS RfbClientManager, TLC

ClientSymmetry == Permutations(Clients)
=============================================================================
