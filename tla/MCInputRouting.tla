---------------------------- MODULE MCInputRouting ----------------------------
(* A small instance of InputRouting and its viewer for TLC.                 *)
EXTENDS InputRouting

OneAxis == {"x"}

(* Six ranges, one of which fits a logarithmic axis.  From the widest, zoom *)
(* and box lead to another; one range can be panned to another, two are too *)
(* short to move, and the other pans leave the coordinates.                *)
Sparse == {-1, 0, 2, 3}

(* Home fits a logarithmic axis, so that every scale can be met with it:    *)
(* states with another canonical view are checked and not explored.        *)
OneHome == scene.canonical \in [Axes -> {[lo |-> 2, hi |-> 3]}]

\* One code past the longest table; shorter tables see more unknown ones.
AllCodes == 0 .. 19

\* Focus guides no other step, and no other step moves it.
WithoutFocus == <<scene, history, pending, begun, disturbed>>
=============================================================================
