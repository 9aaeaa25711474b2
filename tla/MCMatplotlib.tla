------------------------------ MODULE MCMatplotlib ------------------------------
(* The Python side for TLC: the canvas, and the extension's rasterizers that a *)
(* native rendering calls.  They share no state with the canvas, so a frame or *)
(* a stroke is painted while no call is under way, and the states add up.      *)
EXTENDS MCCanvasPublication, MCSoftwareFrame

PythonInit == Init /\ FrameInit /\ StrokeInit

CanvasRests == Init /\ nested
PaintingRests == FrameInit /\ StrokeInit

PythonNext ==
  \/ PaintingRests /\ Next /\ UNCHANGED <<frameVars, strokeVars>>
  \/ CanvasRests /\ StrokeInit /\ FrameNext /\ UNCHANGED <<vars, strokeVars>>
  \/ CanvasRests /\ FrameInit /\ StrokeNext /\ UNCHANGED <<vars, frameVars>>

PythonSpec == PythonInit /\ [][PythonNext]_<<vars, frameVars, strokeVars>>
=============================================================================
