---------------------------- MODULE MCSoftwareFrame ----------------------------
(* Small instances of AggStroke and SoftwareFrame for TLC: a canvas of ten by *)
(* ten pixels, with eight subpixels to a pixel and sixteen levels to a byte.  *)
EXTENDS SoftwareFrame

\* Points in quarters of a pixel.
Quarter == Pixel \div 4
Q(x, y) == Point(x * Quarter, y * Quarter)
Rect(x, y, w, h) == <<x * Quarter, y * Quarter, w * Quarter, h * Quarter>>

Box == <<"M", "L", "L", "L", "C">>

Base ==
  [kind |-> "path", points |-> <<>>, codes |-> <<>>, width |-> Pixel, cap |-> "Butt",
   join |-> "Miter", antialias |-> TRUE, dashed |-> FALSE, opaque |-> TRUE,
   filled |-> FALSE, triangle |-> FALSE, clip |-> NoClip]

\* One of every route: bars, a flat bar, chains along and across the axes, single
\* segments, closed curves.
Shapes ==
  {[Base EXCEPT !.points = <<Q(8, 8), Q(30, 8), Q(30, 25), Q(8, 25), Q(8, 8)>>, !.codes = Box],
   [Base EXCEPT !.points = <<Q(8, 9), Q(11, 9), Q(11, 25), Q(8, 25), Q(8, 9)>>,
                !.codes = Box, !.filled = TRUE],
   [Base EXCEPT !.points = <<Q(8, 9), Q(8, 9), Q(8, 25), Q(8, 25), Q(8, 9)>>, !.codes = Box],
   [Base EXCEPT !.points = <<Q(-6, 9), Q(20, 9), Q(20, 25), Q(45, 25)>>],
   [Base EXCEPT !.points = <<Q(5, 9), Q(20, 9), Q(30, 9), Q(30, 35)>>],
   [Base EXCEPT !.points = <<Q(5, 9), Q(17, 18), Q(30, 18)>>],
   [Base EXCEPT !.points = <<Q(-5, 30), Q(15, 10), Q(25, 45)>>],
   [Base EXCEPT !.points = <<Q(5, 30), Q(15, 10)>>],
   [Base EXCEPT !.points = <<Q(5, 30), Q(5, 10)>>, !.cap = "Projecting"],
   [Base EXCEPT !.points = <<Q(5, 30), Q(35, 30), Q(20, 5), Q(20, 38)>>,
                !.codes = <<"M", "L", "M", "L">>],
   [Base EXCEPT !.points = <<Q(5, 30), Q(25, 20), NotFinitePoint, Q(20, 5), Q(30, 8)>>],
   [Base EXCEPT !.points = <<Q(10, 10), Q(30, 10), Q(34, 10), Q(34, 14), Q(34, 30),
                             Q(10, 30), Q(10, 10), Q(10, 10)>>,
                !.codes = <<"M", "L", "3", "3", "L", "L", "L", "C">>],
   [Base EXCEPT !.points = <<Q(10, 10), Q(30, 10), Q(34, 11), Q(36, 12), Q(34, 16),
                             Q(34, 30), Q(10, 30), Q(10, 10)>>,
                !.codes = <<"M", "L", "4", "4", "4", "L", "L", "C">>],
   \* no broader than its stroke
   [Base EXCEPT !.points = <<Q(18, 18), Q(20, 17), Q(21, 18), Q(22, 20), Q(21, 21),
                             Q(20, 22), Q(18, 21), Q(17, 20), Q(18, 18), Q(18, 18)>>,
                !.codes = <<"M", "3", "3", "3", "3", "3", "3", "3", "3", "C">>]}

\* Left to the other rasterizer: dashed, stopped early, a third point, an angle
\* beyond the miter limit, an oblique chain that is filled, a chain with another
\* cap.
Refused ==
  {[Base EXCEPT !.points = <<Q(5, 30), Q(15, 10)>>, !.dashed = TRUE],
   [Base EXCEPT !.points = <<Q(5, 30), Q(15, 10), Q(5, 29)>>],
   [Base EXCEPT !.points = <<Q(5, 9), Q(17, 18), Q(30, 18)>>, !.filled = TRUE],
   [Base EXCEPT !.points = <<Q(5, 9), Q(20, 9), Q(20, 30)>>, !.cap = "Projecting"],
   [Base EXCEPT !.points = <<Q(5, 9), Q(20, 9), Q(20, 30)>>, !.codes = <<"M", "L", "3">>]}

Triangles ==
  {[Base EXCEPT !.points = points, !.triangle = TRUE] :
     points \in UNION {{<<Q(3, 4), Q(a, b), Q(17, 30)>>, <<Q(17, 30), Q(a, b), Q(3, 4)>>} :
                         a \in {20, 33}, b \in {6, 13, 35}}}

Clips == {NoClip, Rect(3, 5, 20, 20), Rect(14, 10, 14, 40), Rect(1, 1, 1, 1)}
Widths == {Pixel \div 2, Pixel, 2 * Pixel, (5 * Pixel) \div 2}

SmallCommands ==
  {[shape EXCEPT !.width = w, !.clip = clip] : shape \in Shapes, w \in Widths, clip \in Clips}
    \cup Refused
    \cup {[shape EXCEPT !.clip = clip] : shape \in Triangles, clip \in Clips}

-----------------------------------------------------------------------------
(* Frames *)

Drawn2(c, stroke, fill, rule, snap) ==
  c @@ [stroke |-> stroke, fill |-> fill, rule |-> rule, snap |-> snap]

Dark == <<3, Top>>
Bright == <<12, Top>>
Haze == <<9, 6>>
Unseen == <<9, 0>>

Square6 == [Base EXCEPT !.points = <<Q(8, 9), Q(31, 9), Q(31, 30), Q(8, 30), Q(8, 9)>>, !.codes = Box]
Ring == [Base EXCEPT !.points = <<Q(4, 4), Q(36, 4), Q(36, 36), Q(4, 36), Q(4, 4),
                                  Q(12, 12), Q(28, 12), Q(28, 28), Q(12, 28), Q(12, 12)>>,
                     !.codes = Box \o Box]
Leaf == [Base EXCEPT !.points = <<Q(4, 20), Q(20, 44), Q(36, 20), Q(30, 2), Q(10, 2), Q(4, 20), Q(0, 0)>>,
                     !.codes = <<"M", "3", "3", "4", "4", "4", "C">>]
Gappy == [Base EXCEPT !.points = <<Q(4, 4), Q(30, 6), NotFinitePoint, Q(30, 30), Q(6, 32), Q(0, 0),
                                   Q(20, 20), NotFinitePoint, Q(5, 5)>>,
                      !.codes = <<"M", "L", "L", "L", "L", "C", "L", "M", "C">>]
Torn == [Base EXCEPT !.points = <<Q(4, 4), NotFinitePoint, Q(30, 6), Q(34, 30), Q(20, 34), NotFinitePoint,
                                  Q(6, 32), Q(0, 0), Q(10, 10), Q(12, 12)>>,
                     !.codes = <<"M", "3", "3", "L", "3", "3", "L", "C", "S", "L">>]
Broken == [Base EXCEPT !.points = <<Q(4, 4), Q(30, 6), Q(34, 30), NotFinitePoint, Q(20, 34), NotFinitePoint, Q(6, 32),
                                    Q(7, 3), Q(0, 0)>>,
                       !.codes = <<"M", "L", "L", "4", "4", "4", "L", "L", "C">>]
Far == [Base EXCEPT !.points = <<Q(4, 4), Q(4000, 6), Q(30, 30), Q(5, 31)>>]
Lone == [Base EXCEPT !.points = <<Q(4, 4)>>]
Triangle == CHOOSE c \in Triangles : TRUE

Badge == [kind |-> "image", at |-> Q(7, 6), columns |-> 3, rows |-> 2, clip |-> NoClip,
          pixels |-> [place \in (0 .. 2) \X (0 .. 1) |->
                        CASE place[1] = 0 -> Dark [] place[2] = 0 -> Haze [] OTHER -> Unseen]]

Paths ==
  {Drawn2(Square6, NoPaint, Bright, "NonZero", FALSE),
   Drawn2(Square6, Haze, Dark, "NonZero", TRUE),
   Drawn2(Square6, Dark, Haze, "NonZero", TRUE),
   Drawn2([Square6 EXCEPT !.antialias = FALSE], NoPaint, Haze, "EvenOdd", FALSE),
   Drawn2(Ring, NoPaint, Bright, "EvenOdd", FALSE),
   Drawn2(Ring, Dark, Haze, "NonZero", FALSE),
   Drawn2(Leaf, NoPaint, Dark, "NonZero", FALSE),
   Drawn2(Leaf, Bright, NoPaint, "NonZero", FALSE),
   Drawn2(Gappy, Bright, NoPaint, "NonZero", FALSE),
   Drawn2(Torn, Bright, NoPaint, "NonZero", TRUE),
   Drawn2(Broken, Bright, Haze, "NonZero", FALSE),
   Drawn2(Far, Haze, NoPaint, "NonZero", FALSE),
   Drawn2(Lone, Haze, NoPaint, "NonZero", FALSE),
   Drawn2(Triangle, NoPaint, Dark, "NonZero", FALSE),
   Drawn2(Triangle, NoPaint, Unseen, "NonZero", FALSE)}

SomeClips == {NoClip, Rect(9, 5, 14, 18), Rect(-6, -6, 30, 20)}

Painted ==
  {[c EXCEPT !.clip = clip] : c \in Paths \cup {Badge, [Badge EXCEPT !.at = Q(-6, 34)]}, clip \in SomeClips}

Bad == {Drawn2(Square6, NoPaint, NoPaint, "NonZero", FALSE),
        [Badge EXCEPT !.columns = 2], [Badge EXCEPT !.clip = Rect(1, 1, 0, 3)]}

SmallFrames ==
  {[mode |-> mode, background |-> background, commands |-> commands] :
     mode \in {"Linear", "AggSrgb"}, background \in {<<14, Top>>, Unseen, <<5, 4>>},
     commands \in {<<c, [Badge EXCEPT !.at = Q(10, 18)]>> : c \in Painted}
                    \cup {<<c>> : c \in Bad}}
=============================================================================
