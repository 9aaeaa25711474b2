-------------------------- MODULE MCSceneTransaction --------------------------
(* A small instance of SceneTransaction for TLC.  What an operation         *)
(* returned never guides a later one.                                      *)
EXTENDS SceneTransaction, TLC

WithoutResult == <<scene, counters, staged, snapshot, granted>>

Symmetry == Permutations(AnnotationValues)
=============================================================================
