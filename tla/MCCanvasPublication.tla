-------------------------- MODULE MCCanvasPublication --------------------------
(* Small instances of CanvasPublication for TLC. *)
EXTENDS CanvasPublication

TwoCalls == 1 .. 2
ThreeCalls == 1 .. 3

\* Nested calls go three deep, threads interleave in pairs.
ThreadsInPairs == nested \/ At(3, "idle")
=============================================================================
