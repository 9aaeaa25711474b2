--------------------------- MODULE MCResourceCache ---------------------------
(* A small instance of ResourceCache for TLC: the two lease handles and the *)
(* resources are interchangeable.                                          *)
EXTENDS ResourceCache, TLC

Symmetry == Permutations(Leases) \cup Permutations(Resources)
=============================================================================
