----------------------------- MODULE EngineFrames -----------------------------
(***************************************************************************)
(* From a series to what is drawn of it: crates/lumenplot-engine/src,      *)
(* frame.rs and ticks.rs.                                                  *)
(*                                                                         *)
(* A frame maps the stored points of the visible axes' ranges to the plot  *)
(* rectangle, turns every logical segment into paths clipped to it and     *)
(* carries the ticks of both axes.  The pointer asks the same mapping for  *)
(* the point nearest to it.                                                *)
(*                                                                         *)
(* Display coordinates and the ratios along a line are counted in parts of *)
(* 1/Unit, ticks in tenths of a data unit; Unit is chosen so that every    *)
(* quotient of the instance is a whole number of parts.                    *)
(***************************************************************************)
EXTENDS LevelOfDetail

CONSTANTS
  Specs,             \* what a frame is asked for: [canvas, plot]
  TickRanges,        \* axis ranges to place ticks on: <<min, max>>
  Unit,              \* parts of a display unit, and of a line
  MaxFramePoints,    \* MAX_FRAME_POINTS
  MaxFrameSegments,  \* MAX_FRAME_SEGMENTS
  MaxTicksPerAxis    \* MAX_TICKS_PER_AXIS

ASSUME FrameAssumption ==
  /\ Unit \in Nat \ {0} /\ Unit % 10 = 0
  /\ MaxFramePoints \in Nat /\ MaxFrameSegments \in Nat
  /\ MaxTicksPerAxis \in Nat

-----------------------------------------------------------------------------
(* Ticks *)

\* The quotient rounded up; \div rounds down.
CeilDiv(a, b) == -((-a) \div b)

Multiples(step, min, max) ==
  LET low == CeilDiv(min, step)
      high == max \div step
  IN IF high - low + 1 > MaxTicksPerAxis THEN Refused("CapacityExceeded")
     ELSE [at |-> [i \in 1 .. (high - low + 1) |-> (low + i - 1) * step]]

\* Mutant of Step: no multiple of five.
StepOfTwos(span) ==
  LET magnitude == 10 ^ Max({k \in 0 .. 8 : 10 ^ k * 10 <= span})
  IN magnitude * Min({m \in {1, 2} : span <= 9 * m * magnitude} \cup {10})

\* The first of 1, 2 and 5 times a power of ten that fits nine times at most, or
\* else that power's tenfold, which gives ten ticks at most.
\* The span is at least ten units long.
Step(span) ==
  LET magnitude == 10 ^ Max({k \in 0 .. 8 : 10 ^ k * 10 <= span})
  IN magnitude * Min({m \in {1, 2, 5} : span <= 9 * m * magnitude} \cup {10})

LinearTicks(min, max) ==
  IF min >= max THEN Refused("InvalidInput")
  ELSE Multiples(Step(max - min), min, max)

\* Powers of ten as exponents: those from the first not below min to the last
\* not above max.
LogTicks(min, max) ==
  LET low == Min({k \in 0 .. 9 : 10 ^ k >= min})
      high == Max({k \in 0 .. 9 : 10 ^ k <= max})
  IN IF min >= max \/ min <= 0 THEN Refused("InvalidInput")
     ELSE IF high - low + 1 > MaxTicksPerAxis THEN Refused("CapacityExceeded")
     ELSE [at |-> [i \in 1 .. (high - low + 1) |-> 10 ^ (low + i - 1)]]

-----------------------------------------------------------------------------
(* The mapping between data and display *)

LayoutValid(viewport, spec) ==
  /\ viewport.minX < viewport.maxX /\ viewport.minY < viewport.maxY
  /\ spec.canvas[1] > 0 /\ spec.canvas[2] > 0
  /\ spec.plot.x0 >= 0 /\ spec.plot.x1 <= spec.canvas[1]
  /\ spec.plot.y0 >= 0 /\ spec.plot.y1 <= spec.canvas[2]

\* Where parts of 1/scale of a data unit are displayed; the y axis points up in
\* the data and down on the display.
DisplayX(parts, scale, viewport, plot) ==
  plot.x0 * Unit
    + ((parts - viewport.minX * scale) * (plot.x1 - plot.x0) * (Unit \div scale))
        \div (viewport.maxX - viewport.minX)

DisplayY(parts, scale, viewport, plot) ==
  plot.y0 * Unit
    + ((viewport.maxY * scale - parts) * (plot.y1 - plot.y0) * (Unit \div scale))
        \div (viewport.maxY - viewport.minY)

TransformPoint(p, viewport, plot) ==
  [x |-> DisplayX(p.x, 1, viewport, plot), y |-> DisplayY(p.y, 1, viewport, plot)]

\* The data under a display position, in parts of 1/Unit.
InversePoint(at, viewport, plot) ==
  [x |-> viewport.minX * Unit
           + ((at.x - plot.x0 * Unit) * (viewport.maxX - viewport.minX))
               \div (plot.x1 - plot.x0),
   y |-> viewport.maxY * Unit
           - ((at.y - plot.y0 * Unit) * (viewport.maxY - viewport.minY))
               \div (plot.y1 - plot.y0)]

-----------------------------------------------------------------------------
(* Clipping *)

PointInside(p, plot) ==
  /\ plot.x0 * Unit <= p.x /\ p.x <= plot.x1 * Unit
  /\ plot.y0 * Unit <= p.y /\ p.y <= plot.y1 * Unit

Outside == [enter |-> 1, exit |-> 0]   \* no part of a line is inside

Ratio(p, q) == IF p > 0 THEN (q * Unit) \div p ELSE ((-q) * Unit) \div (-p)

\* One boundary narrows the part of a line that is inside.
Narrow(part, boundary) ==
  LET p == boundary[1]
      q == boundary[2]
  IN IF part = Outside THEN part
     ELSE IF p = 0 THEN (IF q < 0 THEN Outside ELSE part)
     ELSE IF p < 0
     THEN IF Ratio(p, q) > part.exit THEN Outside
          ELSE [part EXCEPT !.enter = Max({@, Ratio(p, q)})]
     ELSE IF Ratio(p, q) < part.enter THEN Outside
          ELSE [part EXCEPT !.exit = Min({@, Ratio(p, q)})]

ClipSegment(first, second, plot) ==
  LET dx == second.x - first.x
      dy == second.y - first.y
  IN FoldLeft(Narrow, [enter |-> 0, exit |-> Unit],
              << <<-dx, first.x - plot.x0 * Unit>>, <<dx, plot.x1 * Unit - first.x>>,
                 <<-dy, first.y - plot.y0 * Unit>>, <<dy, plot.y1 * Unit - first.y>> >>)

Interpolate(first, second, ratio) ==
  [x |-> first.x + (ratio * (second.x - first.x)) \div Unit,
   y |-> first.y + (ratio * (second.y - first.y)) \div Unit]

\* The paths of one structural segment.  walk.open says whether the last path is
\* still being drawn.
Closed(walk) == [walk EXCEPT !.open = FALSE]

\* Mutant of Follow: a path goes on where the line comes back in.
FollowReconnecting(walk, first, second, plot) ==
  LET part  == ClipSegment(first, second, plot)
      start == Interpolate(first, second, part.enter)
      end   == Interpolate(first, second, part.exit)
      more  == IF part.exit > part.enter THEN <<end>> ELSE <<>>
  IN IF part = Outside THEN walk
     ELSE IF ~walk.open
     THEN [open |-> TRUE, paths |-> Append(walk.paths, <<start>> \o more)]
     ELSE [walk EXCEPT !.paths[Len(walk.paths)] = @ \o more]

Follow(walk, first, second, plot) ==
  LET part  == ClipSegment(first, second, plot)
      start == Interpolate(first, second, part.enter)
      end   == Interpolate(first, second, part.exit)
      more  == IF part.exit > part.enter THEN <<end>> ELSE <<>>
  IN IF part = Outside THEN Closed(walk)
     ELSE IF ~walk.open \/ part.enter > 0
     THEN [open |-> TRUE, paths |-> Append(walk.paths, <<start>> \o more)]
     ELSE [walk EXCEPT !.paths[Len(walk.paths)] = @ \o more]

\* A segment is never empty.
ClippedPaths(points, plot) ==
  LET walk[k \in 1 .. Len(points)] ==
        IF k = 1 THEN [open |-> FALSE, paths |-> <<>>]
        ELSE Follow(walk[k - 1], points[k - 1], points[k], plot)
  IN IF Len(points) = 1
     THEN IF PointInside(points[1], plot) THEN <<points>> ELSE <<>>
     ELSE walk[Len(points)].paths

-----------------------------------------------------------------------------
(* A frame, and the pointer *)

DisplayOf(segment, viewport, plot) ==
  [k \in DOMAIN PointsOf(segment) |->
     TransformPoint(PointsOf(segment)[k], viewport, plot)]

FramePaths(viewport, plot) ==
  FlattenSeq([i \in DOMAIN storage.segments |->
                ClippedPaths(DisplayOf(storage.segments[i], viewport, plot), plot)])

AxisTicks(min, max) == LinearTicks(10 * min, 10 * max)

\* The sums of the first numbers of a sequence, by how many they are.
Sums(numbers) ==
  LET sum[k \in 0 .. Len(numbers)] == IF k = 0 THEN 0 ELSE sum[k - 1] + numbers[k]
  IN sum

Total(numbers) == Sums(numbers)[Len(numbers)]

PointCount(paths) == Total([i \in DOMAIN paths |-> Len(paths[i])])

ResolveLineFrame(viewport, scales, spec) ==
  LET xTicks == AxisTicks(viewport.minX, viewport.maxX)
      yTicks == AxisTicks(viewport.minY, viewport.maxY)
      paths  == FramePaths(viewport, spec.plot)
  IN IF HasLog(scales) THEN Refused("UnsupportedCapability")
     ELSE IF ~LayoutValid(viewport, spec) THEN Refused("InvalidInput")
     ELSE IF IsRefused(xTicks) THEN xTicks
     ELSE IF IsRefused(yTicks) THEN yTicks
     ELSE IF \/ Len(storage.points) > MaxFramePoints
             \/ Len(storage.segments) > MaxFrameSegments
             \/ PointCount(paths) > MaxFramePoints \/ Len(paths) > MaxFrameSegments
     THEN Refused("CapacityExceeded")
     ELSE [paths  |-> paths,
           xTicks |-> [i \in DOMAIN xTicks.at |-> DisplayX(xTicks.at[i], 10, viewport, spec.plot)],
           yTicks |-> [i \in DOMAIN yTicks.at |-> DisplayY(yTicks.at[i], 10, viewport, spec.plot)]]

Distance(a, b) == (a.x - b.x) * (a.x - b.x) + (a.y - b.y) * (a.y - b.y)

\* inspect_cursor: of equally near points the first one is reported.
InspectCursor(viewport, scales, spec, at) ==
  LET Away(k) == Distance(TransformPoint(storage.points[k], viewport, spec.plot), at)
      nearest == {k \in DOMAIN storage.points :
                    \A j \in DOMAIN storage.points : Away(k) <= Away(j)}
  IN IF HasLog(scales) THEN Refused("UnsupportedCapability")
     ELSE IF ~LayoutValid(viewport, spec) THEN Refused("InvalidInput")
     ELSE [at |-> InversePoint(at, viewport, spec.plot),
           point |-> IF nearest = {} THEN 0 ELSE Min(nearest)]

-----------------------------------------------------------------------------
Linear == [x |-> "Linear", y |-> "Linear"]

\* Whether a position lies on the straight line between two others.
Between(a, b, p) ==
  /\ (b.x - a.x) * (p.y - a.y) = (b.y - a.y) * (p.x - a.x)
  /\ p.x \in Min({a.x, b.x}) .. Max({a.x, b.x})
  /\ p.y \in Min({a.y, b.y}) .. Max({a.y, b.y})

\* The visible part of the curve, no more and no less: every corner of a path is
\* in the plot rectangle and every step of one runs along a stretch between two
\* neighbouring samples of one structural segment; every position of the curve in
\* the rectangle is on a path; and a path ends only where its segment does or at
\* the border of the rectangle, so no gap is bridged and nothing visible is cut.
PathsAreVisibleCurve ==
  Stored =>
    \A viewport \in Viewports, spec \in Specs :
      LET frame == ResolveLineFrame(viewport, Linear, spec)
          curves == {DisplayOf(s, viewport, spec.plot) : s \in ToSet(storage.segments)}
          Border(p) == ~(/\ spec.plot.x0 * Unit < p.x /\ p.x < spec.plot.x1 * Unit
                         /\ spec.plot.y0 * Unit < p.y /\ p.y < spec.plot.y1 * Unit)
          Ends(p) == \E c \in curves : p \in {c[1], c[Len(c)]}
          Drawn(p) == \E path \in ToSet(frame.paths) :
                        \/ p \in ToSet(path)
                        \/ \E k \in 1 .. (Len(path) - 1) : Between(path[k], path[k + 1], p)
      IN ~IsRefused(frame) =>
           /\ \A path \in ToSet(frame.paths) :
                /\ \A k \in DOMAIN path : PointInside(path[k], spec.plot)
                /\ \A k \in 1 .. (Len(path) - 1) :
                     \E c \in curves : \E j \in 1 .. (Len(c) - 1) :
                       /\ Between(c[j], c[j + 1], path[k])
                       /\ Between(c[j], c[j + 1], path[k + 1])
                /\ \A p \in {path[1], path[Len(path)]} : Border(p) \/ Ends(p)
           /\ \A c \in curves :
                \A k \in DOMAIN c, tenth \in 0 .. 9 :
                  LET p == Interpolate(c[k], c[Min({k + 1, Len(c)})], tenth * (Unit \div 10))
                  IN PointInside(p, spec.plot) => Drawn(p)

TicksServeRanges ==
  \A range \in TickRanges :
    LET min == range[1]
        max == range[2]
        linear == LinearTicks(min, max)
        decades == {n \in {10 ^ k : k \in 0 .. 9} : min <= n /\ n <= max}
    IN /\ Len(linear.at) \in 3 .. 10
       /\ \E step \in {m * 10 ^ k : m \in {1, 2, 5}, k \in 0 .. 8} :
            ToSet(linear.at) = {n \in min .. max : n % step = 0}
       /\ min > 0 => ToSet(LogTicks(min, max).at) = decades

\* Values are read off a frame by its ticks and by the pointer, and both agree
\* with the curve.  Whatever range is shown, its ticks are few, but not too few:
\* on a linear axis at least three and at most ten, namely all multiples of one,
\* two or five times a power of ten in the closed range; on a logarithmic one all
\* powers of ten in it.  They come in the order of their axis; a sample at a tick's
\* value is displayed at the tick; and the pointer over a displayed sample reads
\* that sample's values and finds a sample that has them.
ReadingsAgree ==
  /\ TicksServeRanges
  /\ Stored =>
       \A viewport \in Viewports, spec \in Specs :
         LET frame == ResolveLineFrame(viewport, Linear, spec)
             xs == AxisTicks(viewport.minX, viewport.maxX)
             ys == AxisTicks(viewport.minY, viewport.maxY)
         IN ~IsRefused(frame) =>
              /\ \A i \in 1 .. (Len(frame.xTicks) - 1) : frame.xTicks[i] < frame.xTicks[i + 1]
              /\ \A i \in 1 .. (Len(frame.yTicks) - 1) : frame.yTicks[i] > frame.yTicks[i + 1]
              /\ \A p \in ToSet(storage.points) :
                   LET at == TransformPoint(p, viewport, spec.plot)
                       read == InspectCursor(viewport, Linear, spec, at)
                       found == storage.points[read.point]
                   IN /\ \A i \in DOMAIN xs.at : xs.at[i] = 10 * p.x => frame.xTicks[i] = at.x
                      /\ \A i \in DOMAIN ys.at : ys.at[i] = 10 * p.y => frame.yTicks[i] = at.y
                      /\ read.at = [x |-> p.x * Unit, y |-> p.y * Unit]
                      /\ <<found.x, found.y>> = <<p.x, p.y>>
=============================================================================
