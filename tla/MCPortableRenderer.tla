------------------------- MODULE MCPortableRenderer -------------------------
(* A small instance of PortableRenderer.  The sides 3 and 5 are no powers of   *)
(* two and 5 is the limit; the frames differ in size, in what they paint and   *)
(* in the limit they touch.                                                    *)
EXTENDS PortableRenderer

P(x, y) == [x |-> x, y |-> y]
Area(w, h) == [x0 |-> 0, y0 |-> 0, x1 |-> w, y1 |-> h]
Generation == [font |-> 0, layout |-> 0]

Frame(w, h, width, series, shapes) ==
  [canvas |-> <<w, h>>, logical |-> <<w, h>>, plot |-> Area(w, h), dpi |-> 1,
   width |-> width, text |-> Generation, layout |-> Generation, revision |-> 0,
   series |-> series, fillBar |-> shapes, threeD |-> NoThreeD]

Diagonal == << <<P(0, 0), P(1, 1)>> >>
Cut == << <<P(0, 0)>>, <<P(1, 0), P(1, 0), P(2, 1)>> >>
Long == << <<P(0, 0), P(1, 1), P(0, 1), P(1, 0)>> >>

Ring == <<P(0, 0), P(1, 0), P(1, 1)>>
Fill(edge) == [points |-> Ring, edge |-> edge]
Bar(edge) == [rect |-> Area(1, 1), edge |-> edge]
Key(family, index) == [family |-> family, index |-> index]
Shapes(fills, bars, order) == [fills |-> fills, bars |-> bars, order |-> order]

BarUnderFill == Shapes(<<Fill(NoEdge)>>, <<Bar(3)>>, <<Key("Bar", 1), Key("Fill", 1)>>)
WideEdge == Shapes(<<Fill(9)>>, <<>>, <<Key("Fill", 1)>>)

MCFrames ==
  {Frame(1, 1, 1, <<Diagonal>>, NoFillBar),
   Frame(3, 2, 4, <<Cut, Diagonal>>, NoFillBar),
   Frame(2, 5, 1, <<>>, NoFillBar),
   Frame(6, 1, 1, <<>>, NoFillBar),
   Frame(2, 2, 1, <<Long>>, NoFillBar),
   Frame(2, 2, 5, <<>>, NoFillBar),
   Frame(3, 2, 1, <<Diagonal>>, BarUnderFill),
   Frame(2, 1, 1, <<>>, WideEdge)}
=============================================================================
