--------------------------- MODULE MCEngineSession ---------------------------
(* Small instances of EngineSession for TLC.  What an operation returned    *)
(* never guides a later one, so states that differ only in result are one  *)
(* state to the properties that do not mention it.                         *)
EXTENDS EngineSession, TLC

WithoutResult ==
  <<state, attached, renderer, surf, size, configured, workGen, devGen, latest,
    highest, pending, retained, nextFence, cache, tokens, presented>>

Symmetry == Permutations(SurfaceIds)
=============================================================================
