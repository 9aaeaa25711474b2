-------------------------- MODULE MCEngineFrames --------------------------
(* A small instance of EngineFrames: pieces with  ties, duplicates, gaps at   *)
(* both ends, ill-formed segments and samples that are not finite.            *)
EXTENDS EngineFrames

P(x, y) == [x |-> x, y |-> y]
R(start, end) == [start |-> start, end |-> end]
Whole(cells) == [cells |-> cells]
Piece(cells, segments) == [cells |-> cells, segments |-> segments]

MCPieces ==
  {Whole(<<>>),
   Whole(<<P(2, 1), P(2, 0)>>),
   Piece(<<P(1, 1), P(1, 2)>>, <<>>),
   Whole(<<P(0, 1), P(1, 0), P(1, 2), P(2, 0), P(3, 2)>>),
   Piece(<<P(1, 2), P(2, 1), P(2, 2), P(3, 0)>>, <<R(0, 2), R(3, 4)>>),
   Piece(<<NotFinite, P(0, 0), P(2, 1), NotFinite>>, <<R(1, 3)>>),
   Piece(<<P(3, 1), P(3, 0), P(4, 0)>>, <<R(0, 3)>>),
   Whole(<<P(2, 1), P(1, 1)>>),
   Whole(<<P(1, 1), NotFinite>>),
   Piece(<<P(1, 1), P(1, 1)>>, <<R(0, 1), R(1, 2)>>),
   Piece(<<P(1, 1), P(1, 1)>>, <<R(1, 3)>>),
   Piece(<<P(1, 1), P(1, 1)>>, <<R(1, 1)>>)}

MCViewports ==
  {[minX |-> 0, maxX |-> 4, minY |-> 0, maxY |-> 2],
   [minX |-> 1, maxX |-> 3, minY |-> 1, maxY |-> 2],
   [minX |-> 1, maxX |-> 1, minY |-> 0, maxY |-> 1]}

Rect(x0, y0, x1, y1) == [x0 |-> x0, y0 |-> y0, x1 |-> x1, y1 |-> y1]

\* A plot rectangle as large as the range shown keeps quotients whole; the last
\* one reaches beyond its canvas.
MCSpecs ==
  {[canvas |-> <<5, 4>>, plot |-> Rect(1, 1, 5, 3)],
   [canvas |-> <<5, 4>>, plot |-> Rect(2, 0, 4, 1)],
   [canvas |-> <<4, 4>>, plot |-> Rect(1, 1, 5, 3)]}

MCTickRanges ==
  {r \in (-12 .. 12) \X (-2 .. 130) : r[2] - r[1] >= 10}
    \cup {<<1, 100>>, <<1, 1000>>, <<7, 99999>>, <<10, 100000>>, <<-350, 649>>}
=============================================================================
