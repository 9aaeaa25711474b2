------------------------------- MODULE AggStroke -------------------------------
(***************************************************************************)
(* Coverage of simple strokes and of triangles, as Agg computes it:        *)
(* crates/lumenplot-python/src/frame/agg_line.rs.                          *)
(*                                                                         *)
(* A path command becomes closed contours, every edge of a contour is      *)
(* clipped to a box and leaves signed cover and area in the cells it       *)
(* crosses, and a sweep over each row turns them into the alpha of its     *)
(* pixels.                                                                 *)
(*                                                                         *)
(* Lengths are counted in parts of a pixel: a pixel has Scale subpixels of *)
(* Fine parts.  The code's doubles are parts here, rounded down.  A path   *)
(* command is given in display coordinates, whose y axis points up.        *)
(***************************************************************************)
EXTENDS Integers, SequencesExt, FiniteSetsExt

CONSTANTS
  Scale,        \* SUBPIXEL_SCALE
  Fine,         \* parts of a subpixel
  Levels,       \* alpha levels
  Width,        \* of the canvas, in pixels
  Height,
  MaxCells,     \* MAX_CELLS
  SnapLimit,    \* AUTO_SNAP_VERTEX_LIMIT
  PointLimit,   \* CLOSED_CURVE_POINT_LIMIT
  MaxDepth,     \* AGG_DIV_MAX_DEPTH
  PathCommands  \* the commands that may be drawn

Pixel == Scale * Fine

ASSUME StrokeAssumption ==
  /\ {Scale, Fine, Levels, Width, Height} \subseteq Nat \ {0}
  /\ (2 * Scale * Scale) % Levels = 0 /\ Pixel % 2 = 0
  /\ {MaxCells, SnapLimit, PointLimit, MaxDepth} \subseteq Nat

VARIABLES
  command,  \* the command drawn last
  mask      \* what try_rasterize or try_rasterize_triangle_fill returned for it

strokeVars == <<command, mask>>

Nothing == [none |-> TRUE]            \* Ok(None): left to the other rasterizer
NoClip == <<0, 0, 0, 0>>           \* no clip rectangle, or one of zeros
NotFinitePoint == [x |-> 0, y |-> 0, finite |-> FALSE]
Point(x, y) == [x |-> x, y |-> y, finite |-> TRUE]

Magnitude(n) == IF n < 0 THEN -n ELSE n
Square(n) == n * n

\* hypot, rounded down to a part.
Hypot(dx, dy) ==
  LET long == Max({Magnitude(dx), Magnitude(dy)})
      short == Min({Magnitude(dx), Magnitude(dy)})
  IN CHOOSE n \in long .. (long + short) :
       n * n <= dx * dx + dy * dy /\ dx * dx + dy * dy < (n + 1) * (n + 1)

\* f64::round: the nearest multiple of unit, a half away from zero; and
\* (v + 0.5).floor(), a half up.
Rounded(v, unit) ==
  IF v >= 0 THEN (2 * v + unit) \div (2 * unit) ELSE -((unit - 2 * v) \div (2 * unit))
Nearest(v, unit) == (2 * v + unit) \div (2 * unit)

-----------------------------------------------------------------------------
(* Cells.  raster.at is the current cell, raster.cells what has been left *)
(* in each.                                                               *)

NewRaster == [at |-> <<0, 0>>, cells |-> <<>>]

SetCurrent(raster, x, y) == [raster EXCEPT !.at = <<x, y>>]

Leave(raster, cover, area) ==
  LET old == IF raster.at \in DOMAIN raster.cells THEN raster.cells[raster.at]
             ELSE [cover |-> 0, area |-> 0]
      new == [cover |-> old.cover + cover, area |-> old.area + area]
  IN [raster EXCEPT !.cells = (raster.at :> new) @@ @]

\* Mutant of Carried: what is left over is lost.
CarriedNever(start, step, d, n) == <<start \div d>> \o [i \in 1 .. n |-> step \div d]

\* n + 1 whole numbers whose sums follow start / d, (start + step) / d, ...:
\* what is left over is carried to the next one.
Carried(start, step, d, n) ==
  FoldLeft(LAMBDA s, i :
             LET rest == s.rest + (step % d)
                 more == IF rest >= 0 THEN 1 ELSE 0
             IN [rest |-> rest - more * d, out |-> Append(s.out, step \div d + more)],
           [rest |-> (start % d) - d, out |-> <<start \div d>>],
           [i \in 1 .. n |-> i]).out

\* An edge within one row, from (x1, y1) to (x2, y2).
ScanlineEdge(raster, row, x1, y1, x2, y2) ==
  LET cell1 == x1 \div Scale
      cell2 == x2 \div Scale
      in1   == x1 % Scale
      in2   == x2 % Scale
      right == x2 > x1
      first == IF right THEN Scale ELSE 0
      way   == IF right THEN 1 ELSE -1
      n     == Magnitude(cell2 - cell1)
      deltas == Carried((IF right THEN Scale - in1 ELSE in1) * (y2 - y1),
                        Scale * (y2 - y1), Magnitude(x2 - x1), n - 1)
      Cross(r, i) ==
        SetCurrent(Leave(r, deltas[i],
                         (IF i = 1 THEN in1 + first ELSE Scale) * deltas[i]),
                   cell1 + i * way, row)
      rest == y2 - y1 - FoldLeft(LAMBDA a, b : a + b, 0, deltas)
  IN IF y1 = y2 THEN SetCurrent(raster, cell2, row)
     ELSE IF cell1 = cell2 THEN Leave(raster, y2 - y1, (in1 + in2) * (y2 - y1))
     ELSE Leave(FoldLeft(Cross, raster, [i \in 1 .. n |-> i]),
                rest, (in2 + Scale - first) * rest)

\* An edge between two subpixel points, row by row.
AddEdge(raster, start, end) ==
  LET dx   == end.x - start.x
      row1 == start.y \div Scale
      row2 == end.y \div Scale
      in1  == start.y % Scale
      in2  == end.y % Scale
      down == end.y > start.y
      first == IF down THEN Scale ELSE 0
      way  == IF down THEN 1 ELSE -1
      n    == Magnitude(row2 - row1)
      begun == SetCurrent(raster, start.x \div Scale, row1)
      twice == 2 * (start.x % Scale)
      Straight(r, i) ==
        LET delta == IF i = 1 THEN first - in1 ELSE 2 * first - Scale
        IN SetCurrent(Leave(r, delta, twice * delta), start.x \div Scale, row1 + i * way)
      deltas == Carried((IF down THEN Scale - in1 ELSE in1) * dx, Scale * dx,
                        Magnitude(end.y - start.y), n - 1)
      Slanted(s, i) ==
        LET to == s.x + deltas[i]
            from == IF i = 1 THEN in1 ELSE Scale - first
        IN [x |-> to,
            r |-> SetCurrent(ScanlineEdge(s.r, row1 + (i - 1) * way, s.x, from, to, first),
                             to \div Scale, row1 + i * way)]
      slanted == FoldLeft(Slanted, [x |-> start.x, r |-> begun], [i \in 1 .. n |-> i])
      last == in2 - Scale + first
  IN IF n = 0 THEN ScanlineEdge(begun, row1, start.x, in1, end.x, in2)
     ELSE IF dx = 0
     THEN Leave(FoldLeft(Straight, begun, [i \in 1 .. n |-> i]), last, twice * last)
     ELSE ScanlineEdge(slanted.r, row2, slanted.x, Scale - first, end.x, in2)

-----------------------------------------------------------------------------
(* Clipping, in parts; only what is handed to AddEdge is rounded. *)

\* clip_box_for: the command's rectangle rounded to pixels and cut to the canvas.
ClipBoxFor(rect) ==
  LET x1 == Max({Nearest(rect[1], Pixel), 0})
      x2 == Min({Nearest(rect[1] + rect[3], Pixel), Width})
      y1 == Max({Nearest(Height * Pixel - (rect[2] + rect[4]), Pixel), 0})
      y2 == Min({Nearest(Height * Pixel - rect[2], Pixel), Height})
  IN IF rect = NoClip
     THEN [x1 |-> 0, y1 |-> 0, x2 |-> Width * Pixel, y2 |-> Height * Pixel]
     ELSE [x1 |-> Pixel * Min({x1, x2}), y1 |-> Pixel * Min({y1, y2}),
           x2 |-> Pixel * Max({x1, x2}), y2 |-> Pixel * Max({y1, y2})]

\* The region flags of one coordinate.
Beyond(v, low, high) == IF v > high THEN 1 ELSE IF v < low THEN -1 ELSE 0

ToSubpixel(p) == [x |-> Rounded(p.x, Fine), y |-> Rounded(p.y, Fine)]

\* clip_line_clip_y: nothing is left above or below the box.
ClipLineY(raster, clip, p, q) ==
  LET Region(v) == Beyond(v.y, clip.y1, clip.y2)
      Moved(v) ==
        LET y == IF Region(v) = 1 THEN clip.y2 ELSE clip.y1
        IN IF Region(v) = 0 THEN v
           ELSE Point(p.x + ((y - p.y) * (q.x - p.x)) \div (q.y - p.y), y)
  IN IF Region(p) = Region(q) /\ Region(p) # 0 THEN raster
     ELSE AddEdge(raster, ToSubpixel(Moved(p)), ToSubpixel(Moved(q)))

\* Mutant of ClipLine: what is left or right of the box is dropped.
ClipLineDropping(raster, clip, p, q) ==
  LET Column(v) == Beyond(v.x, clip.x1, clip.x2)
      Cut(v) ==
        LET b == IF Column(v) = 1 THEN clip.x2 ELSE clip.x1
        IN IF Column(v) = 0 THEN v
           ELSE Point(b, p.y + ((b - p.x) * (q.y - p.y)) \div (q.x - p.x))
  IN IF \/ Beyond(p.y, clip.y1, clip.y2) * Beyond(q.y, clip.y1, clip.y2) = 1
        \/ Column(p) * Column(q) = 1
     THEN raster
     ELSE ClipLineY(raster, clip, Cut(p), Cut(q))

\* clip_line_to: what is left or right of the box runs along its border instead,
\* so that the rows keep their cover.
ClipLine(raster, clip, p, q) ==
  LET Clamped(v) == [v EXCEPT !.x = Max({clip.x1, Min({clip.x2, @})})]
      passed == {b \in {clip.x1, clip.x2} :
                   IF b = clip.x2 THEN (p.x > b) # (q.x > b) ELSE (p.x < b) # (q.x < b)}
      borders == SortSeq(SetToSeq(passed), LAMBDA a, b : (q.x > p.x) = (a < b))
      cuts == [i \in DOMAIN borders |->
                 Point(borders[i],
                    p.y + ((borders[i] - p.x) * (q.y - p.y)) \div (q.x - p.x))]
      corners == <<Clamped(p)>> \o cuts \o <<Clamped(q)>>
  IN IF Beyond(p.y, clip.y1, clip.y2) * Beyond(q.y, clip.y1, clip.y2) = 1 THEN raster
     ELSE FoldLeft(LAMBDA r, i : ClipLineY(r, clip, corners[i], corners[i + 1]),
                   raster, [i \in 1 .. (Len(corners) - 1) |-> i])

\* add_polygon and add_contour: every edge, the closing one included.
AddContour(raster, clip, points) ==
  IF Len(points) < 3 THEN raster
  ELSE FoldLeft(LAMBDA r, i : ClipLine(r, clip, points[i], points[(i % Len(points)) + 1]),
                raster, [i \in DOMAIN points |-> i])

-----------------------------------------------------------------------------
(* Rows *)

CoverageAlpha(area) ==
  Min({Magnitude(area \div ((2 * Scale * Scale) \div Levels)), Levels - 1})

\* Mutant of PixelAlpha: nothing is written between the cells.
PixelAlphaOfCells(cells, x, y) ==
  LET row   == {c \in DOMAIN cells : c[2] = y}
      cover == MapThenSumSet(LAMBDA c : cells[c].cover, {c \in row : c[1] <= x})
  IN IF <<x, y>> \in row THEN CoverageAlpha(2 * Scale * cover - cells[<<x, y>>].area) ELSE 0

\* write_row: a cell with area of its own is written, and then everything up to
\* the row's next cell.
PixelAlpha(cells, x, y) ==
  LET row   == {c \in DOMAIN cells : c[2] = y}
      cover == MapThenSumSet(LAMBDA c : cells[c].cover, {c \in row : c[1] <= x})
      area  == IF <<x, y>> \in row THEN cells[<<x, y>>].area ELSE 0
  IN IF area # 0 \/ \E c \in row : c[1] > x
     THEN CoverageAlpha(2 * Scale * cover - area) ELSE 0

WriteMask(raster) ==
  [p \in (0 .. (Width - 1)) \X (0 .. (Height - 1)) |->
     PixelAlpha(raster.cells, p[1], p[2])]

\* cell_capacity_bound and contour_capacity_bound.
CellsForSpan(d) == (Magnitude(d) + Fine + Pixel - 1) \div Pixel

Capacity(points) ==
  FoldLeft(LAMBDA n, i :
             LET p == points[i]
                 q == points[(i % Len(points)) + 1]
             IN n + CellsForSpan(q.x - p.x) + CellsForSpan(q.y - p.y) + 8,
           0, [i \in DOMAIN points |-> i])

\* All contours of one command share the cells; without any it is not drawn here.
Rasterize(contours, rect) ==
  IF \/ contours = <<>>
     \/ FoldLeft(LAMBDA n, points : n + Capacity(points), 0, contours) > MaxCells
  THEN Nothing
  ELSE WriteMask(FoldLeft(LAMBDA r, points : AddContour(r, ClipBoxFor(rect), points),
                          NewRaster, contours))

-----------------------------------------------------------------------------
(* From a command to device space.  codes is <<>> when the command has none: *)
(* one line then.                                                            *)

MapDevicePoint(p) == [p EXCEPT !.y = Height * Pixel - @]

Device(c) == [i \in DOMAIN c.points |-> MapDevicePoint(c.points[i])]

AllFinite(points) == \A i \in DOMAIN points : points[i].finite

IsLine(c) ==
  \/ c.codes = <<>>
  \/ /\ Len(c.codes) = Len(c.points)
     /\ c.codes[1] = "M" /\ \A i \in 2 .. Len(c.codes) : c.codes[i] = "L"

IsBox(c) == Len(c.points) = 5 /\ c.codes = <<"M", "L", "L", "L", "C">>

Aligned(p, q) == p.x = q.x \/ p.y = q.y

Next4(points, i) == points[(i % Len(points)) + 1]

\* The bounding box of four corners that only runs along the axes.
BoxOf(c) ==
  LET corners == SubSeq(Device(c), 1, 4)
      xs == {p.x : p \in ToSet(corners)}
      ys == {p.y : p \in ToSet(corners)}
  IN [corners |-> corners,
      fits |-> /\ IsBox(c) /\ AllFinite(corners)
               /\ \A i \in 1 .. 4 : Aligned(corners[i], Next4(corners, i)),
      x1 |-> Min(xs), x2 |-> Max(xs), y1 |-> Min(ys), y2 |-> Max(ys)]

\* extract_rect_ring: a bar, each corner of its box met once.
IsRectRing(c) ==
  /\ IsBox(c)
  /\ LET box == BoxOf(c)
     IN /\ box.fits /\ box.x1 < box.x2 /\ box.y1 < box.y2
        /\ Cardinality(ToSet(box.corners)) = 4
        /\ \A p \in ToSet(box.corners) : p.x \in {box.x1, box.x2} /\ p.y \in {box.y1, box.y2}

\* extract_degenerate_rect_segment: a bar without width, or without height.
IsFlatBox(c) ==
  /\ IsBox(c)
  /\ LET box == BoxOf(c) IN box.fits /\ (box.x1 = box.x2) # (box.y1 = box.y2)

FlatBoxSegment(c) ==
  LET box == BoxOf(c) IN <<Point(box.x1, box.y1), Point(box.x2, box.y2)>>

-----------------------------------------------------------------------------
(* Directions and corners of a stroke *)

Toward(p, q) == [x |-> q.x - p.x, y |-> q.y - p.y]
Way(p, q) == [x |-> q.x - p.x, y |-> q.y - p.y, length |-> Hypot(q.x - p.x, q.y - p.y)]
Dot(a, b) == a.x * b.x + a.y * b.y
Cross(a, b) == a.x * b.y - a.y * b.x

Shifted(p, by, sign) == Point(p.x + sign * by.x, p.y + sign * by.y)

\* Half the width to one side of a direction.
Normal(way, half) ==
  [x |-> (-way.y * half) \div way.length, y |-> (way.x * half) \div way.length]

\* Where the two offset lines meet: the sum of the unit normals, times half over
\* one plus the cosine of the turn.
Miter(in, out, half) ==
  LET over == in.length * out.length + Dot(in, out)
  IN [x |-> (-half * (out.length * in.y + in.length * out.y)) \div over,
      y |-> (half * (out.length * in.x + in.length * out.x)) \div over]

\* The turn stays inside the miter limit of four: one plus its cosine is at
\* least an eighth.
WithinMiterLimit(in, out) ==
  8 * (in.length * out.length + Dot(in, out)) >= in.length * out.length

\* An odd number of pixels is centred on half pixels.
SnapValue(width) == IF Rounded(width, Pixel) % 2 = 1 THEN Pixel \div 2 ELSE 0

Snapped(points, width) ==
  [i \in DOMAIN points |->
     Point(Nearest(points[i].x, Pixel) * Pixel + SnapValue(width),
        Nearest(points[i].y, Pixel) * Pixel + SnapValue(width))]

\* One outline of a chain: start cap, right side, end cap, left side backward.
Outline(points, corner) ==
  LET left  == [i \in DOMAIN points |-> Shifted(points[i], corner[i], 1)]
      right == [i \in DOMAIN points |-> Shifted(points[i], corner[i], -1)]
  IN <<left[1]>> \o right \o Reverse(Tail(left))

Ways(points) == [i \in 1 .. (Len(points) - 1) |-> Way(points[i], points[i + 1])]

ChainOutline(points, half) ==
  LET ways == Ways(points)
      last == Len(points)
  IN Outline(points,
       [i \in DOMAIN points |->
          IF i = 1 THEN Normal(ways[1], half)
          ELSE IF i = last THEN Normal(ways[last - 1], half)
          ELSE Miter(ways[i - 1], ways[i], half)])

IsChain(c) ==
  /\ ~c.filled /\ c.cap = "Butt"
  /\ Len(c.points) \in 3 .. SnapLimit
  /\ IsLine(c) /\ AllFinite(c.points)
  /\ \A i \in 1 .. (Len(c.points) - 1) : c.points[i] # c.points[i + 1]

\* extract_rectilinear_chain: it runs along the axes and never turns back.
IsRectilinearChain(c) ==
  /\ IsChain(c)
  /\ LET points == Device(c)
         ways == Ways(points)
     IN /\ \A i \in DOMAIN ways : Aligned(points[i], points[i + 1])
        /\ \A i \in 1 .. (Len(ways) - 1) :
             Cross(ways[i], ways[i + 1]) = 0 => Dot(ways[i], ways[i + 1]) > 0

\* extract_oblique_chain: it does not only run along the axes and turns within
\* the miter limit.
IsObliqueChain(c) ==
  /\ IsChain(c)
  /\ LET points == Device(c)
         ways == Ways(points)
     IN /\ \E i \in DOMAIN ways : ~Aligned(points[i], points[i + 1])
        /\ \A i \in 1 .. (Len(ways) - 1) :
             /\ WithinMiterLimit(ways[i], ways[i + 1])
             /\ 8 * Dot(ways[i], ways[i + 1]) # -7 * ways[i].length * ways[i + 1].length

\* rasterize_rectilinear_chain: snapped first; snapping may leave a step without
\* length, which is refused.
RectilinearContours(c) ==
  LET points == Snapped(Device(c), c.width)
  IN IF \E i \in 1 .. (Len(points) - 1) : points[i] = points[i + 1] THEN <<>>
     ELSE <<ChainOutline(points, c.width \div 2)>>

\* rasterize_oblique_chain: never snapped.
ObliqueContours(c) == <<ChainOutline(Device(c), c.width \div 2)>>

\* rasterize_rect_ring: the outer box, the corners a thin stroke's bevel takes
\* away, and the hole, if there is one, wound the other way.
RingContours(c) ==
  LET half == c.width \div 2
      corners == ToSet(Snapped(SubSeq(Device(c), 1, 4), c.width))
      x1 == Min({p.x : p \in corners})
      x2 == Max({p.x : p \in corners})
      y1 == Min({p.y : p \in corners})
      y2 == Max({p.y : p \in corners})
      outer == <<Point(x1 - half, y1 - half), Point(x2 + half, y1 - half),
                 Point(x2 + half, y2 + half), Point(x1 - half, y2 + half)>>
      bevels == <<<<outer[1], Point(x1 - half, y1), Point(x1, y1 - half), outer[1]>>,
                  <<outer[2], Point(x2, y1 - half), Point(x2 + half, y1), outer[2]>>,
                  <<outer[3], Point(x2 + half, y2), Point(x2, y2 + half), outer[3]>>,
                  <<outer[4], Point(x1, y2 + half), Point(x1 - half, y2), outer[4]>>>>
      hole == <<Point(x1 + half, y1 + half), Point(x1 + half, y2 - half),
                Point(x2 - half, y2 - half), Point(x2 - half, y1 + half)>>
  IN <<outer>>
       \o (IF Square(c.width) < 2 * Square(Pixel) THEN bevels ELSE <<>>)
       \o (IF x1 + half < x2 - half /\ y1 + half < y2 - half THEN <<hole>> ELSE <<>>)

-----------------------------------------------------------------------------
(* Curves.  out is the outline so far; ok is FALSE when the command is left *)
(* to the other rasterizer.                                                 *)

Midpoint(p, q) == Point((p.x + q.x) \div 2, (p.y + q.y) \div 2)
SqDistance(p, q) == Square(q.x - p.x) + Square(q.y - p.y)

\* Half a pixel, the distance a chord may be away from its curve.
Close(sq) == 4 * sq < Square(Pixel)

\* How far a control point on the chord's line is from the chord.
OffChord(p, start, end) ==
  LET along == Dot(Toward(start, p), Toward(start, end))
  IN IF along <= 0 THEN SqDistance(p, start)
     ELSE IF along >= SqDistance(start, end) THEN SqDistance(p, end) ELSE 0

OnChord(p, start, end) ==
  LET along == Dot(Toward(start, p), Toward(start, end))
  IN 0 < along /\ along < SqDistance(start, end)

\* Whether a curve with these control points is drawn without halving it again,
\* and by which points between its ends.
Stop(start, controls, end, flatPoint) ==
  LET chord == Way(start, end)
      off == [i \in DOMAIN controls |-> Magnitude(Cross(Toward(end, controls[i]), chord))]
      bent == FoldLeft(LAMBDA a, b : a + b, 0, off)
      ends == <<start, end>>
      away == [i \in DOMAIN controls |->
                 IF start = end THEN SqDistance(controls[i], ends[i])
                 ELSE OffChord(controls[i], start, end)]
      worse == IF Len(controls) = 2 /\ away[1] <= away[2] THEN 2 ELSE 1
  IN IF bent > 0
     THEN [stops |-> 2 * bent <= Pixel * chord.length, by |-> <<flatPoint>>]
     ELSE IF start # end /\ \A i \in DOMAIN controls : OnChord(controls[i], start, end)
     THEN [stops |-> TRUE, by |-> <<>>]
     ELSE [stops |-> Close(away[worse]), by |-> <<controls[worse]>>]

RECURSIVE QuadInto(_, _, _, _, _)
QuadInto(start, control, end, out, depth) ==
  LET a == Midpoint(start, control)
      b == Midpoint(control, end)
      middle == Midpoint(a, b)
      stop == Stop(start, <<control>>, end, middle)
      half == QuadInto(start, a, middle, out, depth + 1)
  IN IF depth > MaxDepth \/ Len(out) >= PointLimit
     THEN [ok |-> depth <= MaxDepth, out |-> out]
     ELSE IF stop.stops THEN [ok |-> TRUE, out |-> out \o stop.by]
     ELSE IF half.ok THEN QuadInto(middle, b, end, half.out, depth + 1)
     ELSE half

RECURSIVE CubicInto(_, _, _, _, _, _)
CubicInto(start, control1, control2, end, out, depth) ==
  LET m01 == Midpoint(start, control1)
      m12 == Midpoint(control1, control2)
      m23 == Midpoint(control2, end)
      m012 == Midpoint(m01, m12)
      m123 == Midpoint(m12, m23)
      middle == Midpoint(m012, m123)
      stop == Stop(start, <<control1, control2>>, end, m12)
      half == CubicInto(start, m01, m012, middle, out, depth + 1)
  IN IF depth > MaxDepth \/ Len(out) >= PointLimit
     THEN [ok |-> depth <= MaxDepth, out |-> out]
     ELSE IF stop.stops THEN [ok |-> TRUE, out |-> out \o stop.by]
     ELSE IF half.ok THEN CubicInto(middle, m123, m23, end, half.out, depth + 1)
     ELSE half

\* A curve's end follows the points found between.
Ended(inner, end) ==
  IF inner.ok /\ Len(inner.out) < PointLimit
  THEN [ok |-> TRUE, out |-> Append(inner.out, end)]
  ELSE [inner EXCEPT !.ok = FALSE]

\* push_agg_quad and push_agg_cubic: then the curve's end.
Curve(start, controls, end, out) ==
  Ended(IF Len(controls) = 1 THEN QuadInto(start, controls[1], end, out, 0)
        ELSE CubicInto(start, controls[1], controls[2], end, out, 0),
        end)

-----------------------------------------------------------------------------
(* Closed loops with curves *)

\* Vertices a step takes, its end included.
GroupSize(code) == IF code = "L" THEN 1 ELSE IF code = "3" THEN 2 ELSE 3

\* One step of the outline from the vertex i, with the pen at the outline's end.
Grown(points, i, code, out) ==
  LET end == points[i + GroupSize(code) - 1]
  IN IF code = "L" THEN [ok |-> TRUE, out |-> Append(out, end)]
     ELSE Curve(Last(out), SubSeq(points, i, i + GroupSize(code) - 2), end, out)

\* The outline from the vertex i on.
RECURSIVE Walk(_, _, _, _)
Walk(c, i, outline, curved) ==
  LET code == c.codes[i]
      points == Device(c)
      next == i + GroupSize(code)
  IN IF ~outline.ok \/ Len(outline.out) > PointLimit THEN [outline EXCEPT !.ok = FALSE]
     ELSE IF i = Len(c.codes) THEN [outline EXCEPT !.ok = curved]
     ELSE IF \/ code \notin {"L", "3", "4"}
             \/ next > Len(c.codes)
             \/ ~AllFinite(SubSeq(points, i, next - 1))
     THEN [outline EXCEPT !.ok = FALSE]
     ELSE Walk(c, next, Grown(points, i, code, outline.out), curved \/ code # "L")

\* Neighbours that are equal are one point, the last and the first too.
Deduplicated(points) ==
  LET kept == FoldLeft(LAMBDA out, p : IF out # <<>> /\ Last(out) = p THEN out
                                       ELSE Append(out, p), <<>>, points)
  IN IF Len(kept) >= 2 /\ kept[1] = Last(kept) THEN Front(kept) ELSE kept

\* A loop needs three points.
LoopOfOutline(outline, points) == IF outline.ok /\ Len(points) >= 3 THEN points ELSE <<>>

LoopOfWalk(outline) == LoopOfOutline(outline, Deduplicated(outline.out))

\* extract_closed_curve_loop; <<>> when it is not one.
LoopOf(c) ==
  IF \/ Len(c.codes) # Len(c.points) \/ Len(c.codes) < 2
     \/ c.codes[1] # "M" \/ Last(c.codes) # "C" \/ ~c.points[1].finite
  THEN <<>>
  ELSE LoopOfWalk(Walk(c, 2, [ok |-> TRUE, out |-> <<MapDevicePoint(c.points[1])>>], FALSE))

\* rasterize_closed_curve_loop: two offset outlines, wound against each other.
LoopContours(points, half) ==
  LET n == Len(points)
      ways == [i \in 1 .. n |-> Way(points[i], points[(i % n) + 1])]
      In(i) == ways[((i + n - 2) % n) + 1]
      area == FoldLeft(LAMBDA a, i : a + Cross(points[i], points[(i % n) + 1]), 0,
                       [i \in 1 .. n |-> i])
      side == IF area < 0 THEN -1 ELSE 1
      Side(sign) ==
        [i \in 1 .. n |-> Shifted(points[i], Miter(In(i), ways[i], half), sign * side)]
  IN IF area = 0 \/ \E i \in 1 .. n : ~WithinMiterLimit(In(i), ways[i]) THEN <<>>
     ELSE <<Side(1), Reverse(Side(-1))>>

-----------------------------------------------------------------------------
(* Single segments *)

CodeAt(c, i) == IF c.codes = <<>> THEN (IF i = 1 THEN "M" ELSE "L") ELSE c.codes[i]

\* finish_subpath
Finished(walk) ==
  [walk EXCEPT !.points = <<>>,
     !.segments = IF Len(walk.points) = 2 /\ walk.points[1] # walk.points[2]
                  THEN Append(@, walk.points) ELSE @]

\* One vertex of extract_segments: subpaths of two points, cut where a point is
\* not finite.
OneVertex(walk, code, p) ==
  IF ~walk.ok \/ walk.stopped THEN walk
  ELSE IF code = "S" THEN [Finished(walk) EXCEPT !.stopped = TRUE]
  ELSE IF code \notin {"M", "L"} THEN [walk EXCEPT !.ok = FALSE]
  ELSE IF code = "M" THEN [Finished(walk) EXCEPT !.points = IF p.finite THEN <<p>> ELSE <<>>]
  ELSE IF ~p.finite THEN Finished(walk)
  ELSE IF Len(walk.points) = 2 THEN [walk EXCEPT !.ok = FALSE]
  ELSE [walk EXCEPT !.points = Append(@, p)]

SegmentsOf(c) ==
  LET points == Device(c)
      walk == Finished(FoldLeft(LAMBDA w, i : OneVertex(w, CodeAt(c, i), points[i]),
                                [ok |-> TRUE, stopped |-> FALSE, points |-> <<>>,
                                 segments |-> <<>>],
                                [i \in DOMAIN points |-> i]))
  IN IF IsFlatBox(c) THEN <<FlatBoxSegment(c)>>
     ELSE IF walk.ok THEN walk.segments ELSE <<>>

\* Segments that all run along the axes are snapped together.
StrokedSegments(c) ==
  LET segments == SegmentsOf(c)
      snaps == /\ Len(c.points) <= SnapLimit
               /\ \A s \in ToSet(segments) : Aligned(s[1], s[2])
  IN IF snaps THEN [i \in DOMAIN segments |-> Snapped(segments[i], c.width)] ELSE segments

\* A projecting cap reaches half the width further.
Projected(s, half) ==
  LET way == Way(s[1], s[2])
      by == [x |-> (way.x * half) \div way.length, y |-> (way.y * half) \div way.length]
  IN <<Shifted(s[1], by, -1), Shifted(s[2], by, 1)>>

\* stroke_polygon
StrokePolygon(s, half) ==
  LET by == Normal(Way(s[1], s[2]), half)
  IN <<Shifted(s[1], by, 1), Shifted(s[1], by, -1), Shifted(s[2], by, -1), Shifted(s[2], by, 1)>>

SegmentContours(c) ==
  LET half == c.width \div 2
      segments == StrokedSegments(c)
      Capped(s) == IF c.cap = "Projecting" THEN Projected(s, half) ELSE s
  IN IF \E s \in ToSet(segments) : s[1] = s[2] THEN <<>>
     ELSE [i \in DOMAIN segments |-> StrokePolygon(Capped(segments[i]), half)]

-----------------------------------------------------------------------------
(* Commands *)

Eligible(c) ==
  /\ c.antialias /\ c.cap \in {"Butt", "Projecting"} /\ c.join = "Miter"
  /\ ~c.dashed /\ c.opaque /\ c.width > 0

\* The first kind a command is of decides; <<>> leaves it to the other
\* rasterizer.
Contours(c) ==
  IF ~Eligible(c) THEN <<>>
  ELSE IF IsRectRing(c) THEN RingContours(c)
  ELSE IF IsRectilinearChain(c) THEN RectilinearContours(c)
  ELSE IF IsObliqueChain(c) THEN ObliqueContours(c)
  ELSE IF LoopOf(c) # <<>> THEN LoopContours(LoopOf(c), c.width \div 2)
  ELSE IF c.filled THEN <<>>
  ELSE SegmentContours(c)

TryRasterize(c) == Rasterize(Contours(c), c.clip)

\* Without antialiasing every touched pixel is full.
Hard(drawn) == [p \in DOMAIN drawn |-> IF drawn[p] = 0 THEN 0 ELSE Levels - 1]

FillMask(drawn, antialias) == IF drawn = Nothing \/ antialias THEN drawn ELSE Hard(drawn)

\* try_rasterize_triangle_fill
TryRasterizeTriangleFill(c) ==
  LET points == SubSeq(Device(c), 1, 3)
  IN IF ~c.triangle \/ Len(c.points) < 3 \/ ~AllFinite(points) THEN Nothing
     ELSE FillMask(Rasterize(<<Append(points, points[1])>>, c.clip), c.antialias)

StrokeInit == command = Nothing /\ mask = Nothing

\* Calls share nothing, so one of them is all a behaviour takes.
Stroke ==
  \E c \in PathCommands :
    /\ command = Nothing /\ ~c.triangle
    /\ command' = c
    /\ mask' = TryRasterize(c)

FillTriangle ==
  \E c \in PathCommands :
    /\ command = Nothing /\ c.triangle
    /\ command' = c
    /\ mask' = TryRasterizeTriangleFill(c)

\* The caller takes the mask.
TakeMask == command # Nothing /\ command' = Nothing /\ mask' = Nothing

StrokeNext == Stroke \/ FillTriangle \/ TakeMask

StrokeSpec == StrokeInit /\ [][StrokeNext]_strokeVars

-----------------------------------------------------------------------------
(* What a mask must be *)

Drawn == command # Nothing /\ mask # Nothing
Pixels == (0 .. (Width - 1)) \X (0 .. (Height - 1))

\* Alphas that differ by no more than a subpixel's breadth of a pixel: the points
\* where a cut edge is rounded again may be that far apart.
Alike(a, b) == Magnitude(a - b) <= Levels \div Scale

\* A clip box only cuts: the pixels inside look as they would on the whole
\* canvas, up to a subpixel, and nothing is painted outside.
ClippingOnlyCuts ==
  Drawn =>
    LET open == [command EXCEPT !.clip = NoClip]
        whole == IF command.triangle THEN TryRasterizeTriangleFill(open) ELSE TryRasterize(open)
        box == ClipBoxFor(command.clip)
        Inside(p) == /\ box.x1 <= p[1] * Pixel /\ p[1] * Pixel < box.x2
                     /\ box.y1 <= p[2] * Pixel /\ p[2] * Pixel < box.y2
    IN \A p \in Pixels :
         IF Inside(p) THEN Alike(mask[p], whole[p]) ELSE mask[p] = 0

\* The lines a stroke follows.
Lines(points, closed) ==
  {<<points[i], points[(i % Len(points)) + 1]>> :
     i \in 1 .. (IF closed THEN Len(points) ELSE Len(points) - 1)}

Followed(c) ==
  IF IsRectRing(c) THEN Lines(Snapped(SubSeq(Device(c), 1, 4), c.width), TRUE)
  ELSE IF IsRectilinearChain(c) THEN Lines(Snapped(Device(c), c.width), FALSE)
  ELSE IF IsObliqueChain(c) THEN Lines(Device(c), FALSE)
  ELSE IF LoopOf(c) # <<>> THEN Lines(LoopOf(c), TRUE)
  ELSE ToSet(StrokedSegments(c))

\* A position is beside a line, at most that far away.
Beside(line, p, far) ==
  LET way == Way(line[1], line[2])
      to == Toward(line[1], p)
  IN /\ Dot(way, to) \in 0 .. (way.length * way.length)
     /\ Magnitude(Cross(way, to)) <= far * way.length

CornersOf(p) == {Point(x * Pixel, y * Pixel) : x \in {p[1], p[1] + 1}, y \in {p[2], p[2] + 1}}
CentreOf(p) == Point(p[1] * Pixel + Pixel \div 2, p[2] * Pixel + Pixel \div 2)

\* A closed curve no broader than its stroke: its inner outline turns inside out
\* and takes the middle away.
ClosesOnItself(c) ==
  LET points == ToSet(LoopOf(c))
      Breadth(vs) == Max(vs) - Min(vs)
  IN points # {} /\ \/ Breadth({p.x : p \in points}) <= c.width
                    \/ Breadth({p.y : p \in points}) <= c.width

\* A stroke is solid and tight: a pixel that lies within half the width of its
\* lines and joints is opaque, and one that is painted is near a line, or near a
\* corner within the miter limit.  No cell's cover may leak along its row.
StrokesAreSolidAndTight ==
  Drawn /\ ~command.triangle /\ command.clip = NoClip =>
    LET half == command.width \div 2
        lines == Followed(command)
        joints == {v \in {line[1] : line \in lines} : \E line \in lines : line[2] = v}
        Within(v) ==
          \/ \E line \in lines : line[1] # line[2] /\ Beside(line, v, half - 1)
          \/ \E w \in joints : SqDistance(v, w) < Square(half)
        Near(p) ==
          \E line \in lines :
            \/ Beside(line, CentreOf(p), half + Pixel)
            \/ \E v \in {line[1], line[2]} :
                 SqDistance(v, CentreOf(p)) <= Square(4 * half + Pixel)
    IN \A p \in Pixels :
         /\ ~ClosesOnItself(command) /\ (\A v \in CornersOf(p) : Within(v))
              => mask[p] = Levels - 1
         /\ mask[p] # 0 => Near(p)

\* Two triangles on either side of a common edge leave no seam: with a triangle
\* on the other side of its last edge it covers every pixel as much as the four
\* corners' outline does.
TrianglesTile ==
  Drawn /\ command.triangle /\ command.antialias =>
    LET points == Device(command)
        a == points[1]
        b == points[2]
        c == points[3]
        d == Point(a.x + c.x - b.x, a.y + c.y - b.y)
        other == Rasterize(<<<<a, c, d, a>>>>, command.clip)
        both == Rasterize(<<<<a, b, c, d>>>>, command.clip)
    IN \A p \in Pixels :
         Alike(Min({mask[p] + other[p], Levels - 1}), both[p])

\* The mask of a command is right, whatever its route, width and clip: what is cut
\* away by the box is all that is missing, a stroke has neither holes nor leaks
\* (agg_line.rs, CellRasterizer), and filled neighbours neither gap nor overlap.
MasksAreExact == ClippingOnlyCuts /\ StrokesAreSolidAndTight /\ TrianglesTile
=============================================================================
