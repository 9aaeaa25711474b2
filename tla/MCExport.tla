------------------------------- MODULE MCExport -------------------------------
(* A small instance of Export, and one with the storage it draws from: the two *)
(* never act together, so each is checked beside the other at rest.           *)
EXTENDS MCEngineFrames, MCArrayIngestion, Export

Range4 == [minX |-> 0, maxX |-> 4, minY |-> 0, maxY |-> 4]
Rise == <<P(0, 0), P(4, 4)>>
Leaving == <<P(1, 1), P(1, 6), P(3, 2)>>
Twice == <<P(2, 3), P(2, 3)>>

\* Plot rectangles twice as large as the ranges keep quotients whole; of a range of
\* 480, a step is the smallest part of a pixel.
Wide == [canvas |-> <<12, 10>>, plot |-> Rect(2, 1, 10, 9)]
Tight == [canvas |-> <<8, 8>>, plot |-> Rect(0, 0, 8, 8)]

MCScenes ==
  {[viewport |-> Range4, spec |-> Wide, series |-> << <<Rise, Twice>>, <<>>, <<Leaving>> >>],
   [viewport |-> Range4, spec |-> Tight, series |-> <<>>],
   [viewport |-> [Range4 EXCEPT !.maxY = 2], spec |-> Wide,
    series |-> << << <<P(1, 1)>> >>, <<Rise>> >>],
   [viewport |-> [minX |-> 0, maxX |-> 480, minY |-> 0, maxY |-> 480], spec |-> Tight,
    series |-> << << <<P(240, 240), P(241, 240)>> >> >>]}

Ink(rgb, alpha) == [rgb |-> rgb, alpha |-> alpha]

\* fixture_run: a character is a cluster and a glyph.
Run(role, glyphs) ==
  ShapedRun(role, Max({1, Len(glyphs)}), [i \in DOMAIN glyphs |-> i - 1],
            [i \in DOMAIN glyphs |-> 31 + i], glyphs, TRUE, 1, 1)
Shape(kind, from, to) == [kind |-> kind, from |-> from, to |-> to]
Label(at, half) == [kind |-> "Text", at |-> at, half |-> half]
Arrow(from, to, head) == [kind |-> "Arrow", from |-> from, to |-> to, head |-> head]

MCFixtureMarks ==
  <<Retain(1, "Data2D", Label(P(3, 2), P(1, 1)), Identity, 1, 1, 1),
    Retain(2, "AxesLogical", Shape("Line", P(0, 0), P(4, 4)), Identity, 1, 1, 2),
    Retain(3, "FigureLogical", Arrow(P(1, 1), P(4, 3), 2), Identity, 1, 1, 3),
    Retain(4, "DisplayLogical", Shape("Rectangle", P(8, 6), P(14, 12)), Identity, 1, 1, 4)>>

\* Overlapping annotations, of equal and of different order, one that reaches
\* beyond the picture on either side and one whose shaft leaves it.
MCLive ==
  2 :> Retain(2, "Data2D", Label(P(3, 2), P(2, 1)), Identity, 1, 1, 1) @@
  3 :> Retain(3, "Data2D", Shape("Rectangle", P(-1, 0), P(2, 4)), Identity, 1, 1, 0) @@
  5 :> Retain(5, "Data2D", Shape("Line", P(0, 0), P(4, 4)), Identity, 1, 1, 1) @@
  6 :> Retain(6, "FigureLogical", Arrow(P(0, 0), P(50, 1), 1), Identity, 1, 1, 0) @@
  7 :> Retain(7, "FigureLogical", Arrow(P(6, 6), P(6, 1), 2), Identity, 1, 1, 3)

Plain(n) == <<Run("AxisLabel", [i \in 1 .. n |-> P(1, 1)])>>

\* A legend of an entry without glyphs and two with.
Labelled(p, legend) ==
  <<Run("AxisLabel", <<p, P(-2, 5)>>), Run("LegendEntry", <<>>), Run("LegendEntry", legend),
    Run("LegendEntry", <<P(9, 6)>>)>>

Sheet(perInch, dpi, grid, runs, live, alpha) ==
  [valid |-> TRUE, perInch |-> perInch, dpi |-> dpi, grid |-> grid, runs |-> runs,
   live |-> live, stamp |-> [font |-> 0, layout |-> 1], background |-> Ink("white", 200),
   style |-> [ink |-> Ink("blue", alpha), width |-> 90]]

\* Curves too fine and too broad for the picture's stroker to be sure of, too broad
\* for it, and for the plan.
Broad(width) == [Sheet(72, 72, TRUE, Plain(1), <<>>, 255) EXCEPT !.style.width = width]

MCSheets ==
  {Broad(width) : width \in {1, 500, 5000, 7000}} \cup
  {Sheet(72, 72, TRUE, Labelled(P(0, 0), <<P(20, 0)>>), MCLive, 128),
   Sheet(72, 72, FALSE, Plain(80), <<>>, 255),
   Sheet(36, 72, TRUE, Labelled(P(1, 1), <<P(8, 7), P(2, 1)>>), MCLive, 128),
   Sheet(144, 72, TRUE, Plain(1), MCLive, 255),
   Sheet(6, 72, TRUE, Plain(1), <<>>, 255),
   [Sheet(72, 72, TRUE, Plain(1), <<>>, 255) EXCEPT !.valid = FALSE],
   Sheet(72, 72, TRUE, Plain(160), <<>>, 255)}

-----------------------------------------------------------------------------
AllInit == IngestInit /\ ExportInit
AllVars == <<vars, ingestVars, exportVars>>

\* One of the three at a time, the others at rest.
AllNext ==
  \/ /\ line = Nothing /\ call = NoCall /\ memory = FirstMemory
     /\ Next /\ UNCHANGED <<ingestVars, exportVars>>
  \/ /\ line = Nothing /\ (call # NoCall \/ storage = NoStorage)
     /\ IngestNext /\ UNCHANGED exportVars
  \/ /\ storage = NoStorage /\ call = NoCall /\ memory = FirstMemory
     /\ ExportNext /\ UNCHANGED <<vars, ingestVars>>

AllSpec == AllInit /\ [][AllNext]_AllVars
=============================================================================
