----------------------------- MODULE SoftwareFrame -----------------------------
(***************************************************************************)
(* Frames painted without a graphics library, for the Matplotlib adapter:  *)
(* crates/lumenplot-python/src/frame.rs.                                   *)
(*                                                                         *)
(* A frame is a list of path and image commands.  It is validated, its     *)
(* commands are painted one after another over a canvas of pixels, and the *)
(* pixels are read back and wrapped as a PNG.  Strokes and triangles that  *)
(* AggStroke knows are rasterized there; everything else goes to tiny-skia,*)
(* which appears here as what the code expects of it.                      *)
(*                                                                         *)
(* One channel stands for red, green and blue, which never mix.  A byte    *)
(* has Levels values; a float in [0, 1] is a number of Unit-ths, rounded   *)
(* down.                                                                   *)
(***************************************************************************)
EXTENDS AggStroke

CONSTANTS
  SuperSample,   \* FILL_SUPERSAMPLE
  LegacySample,  \* samples per side of tiny-skia's own antialiasing
  FlattenDepth,  \* FILL_FLATTEN_MAX_DEPTH
  SafeBound,     \* TINY_SKIA_SAFE_PATH_BOUND
  MaxMask,       \* FILL_SUPERSAMPLE_MAX_MASK_BYTES
  MaxSide,       \* FILL_SUPERSAMPLE_MAX_DIMENSION
  MaxOutput,     \* MAX_OUTPUT_BYTES
  Unit,
  Frames         \* the frames a caller may submit

Top == Levels - 1

ASSUME FrameAssumption ==
  /\ {SuperSample, LegacySample} \subseteq Nat \ {0}
  /\ SuperSample * SuperSample = Levels
  /\ {FlattenDepth, SafeBound, MaxMask, MaxSide, MaxOutput} \subseteq Nat
  /\ Unit \in Nat \ {0} /\ Unit % Top = 0

VARIABLES
  frame,   \* the FrameSpec, or Nothing
  stage,   \* "new", "painting", "painted", "encoded", "validation" or "internal"
  drawn,   \* commands painted
  canvas,  \* a pixel's value and alpha, in the terms of the blend mode
  picture  \* straight-alpha bytes

frameVars == <<frame, stage, drawn, canvas, picture>>

NoPaint == <<>>
Lifted == NotFinitePoint     \* the pen is up: no current point

\* canonical_rgba: what cannot be seen has no colour.
Canonical(colour) == IF colour # NoPaint /\ colour[2] = 0 THEN <<0, 0>> ELSE colour

-----------------------------------------------------------------------------
(* Commands *)

ClipIsValid(c) == c.clip # NoClip => c.clip[3] > 0 /\ c.clip[4] > 0

\* PathCommand::new
PathIsValid(c) ==
  /\ c.codes # <<>> => /\ Len(c.codes) = Len(c.points)
                       /\ ToSet(c.codes) \subseteq {"S", "M", "L", "3", "4", "C"}
  /\ c.width >= 0
  /\ ClipIsValid(c)
  /\ c.stroke # NoPaint \/ c.fill # NoPaint

\* ImageCommand::new
ImageIsValid(c) ==
  /\ c.at.finite
  /\ DOMAIN c.pixels = (0 .. (c.columns - 1)) \X (0 .. (c.rows - 1))
  /\ ClipIsValid(c)

IsValid(c) == IF c.kind = "path" THEN PathIsValid(c) ELSE ImageIsValid(c)

\* What AggStroke is told of a path command.
AggCommand(c) ==
  c @@ [opaque |-> c.stroke # NoPaint /\ c.stroke[2] = Top, filled |-> c.fill # NoPaint]

-----------------------------------------------------------------------------
(* Paths.  A pen walks along the vertices and leaves verbs. *)

\* map_point, with the snap of Agg's path snapper where there is one.
MapPoint(p, snap) ==
  LET d == MapDevicePoint(p)
      s == IF snap = Nothing THEN d
           ELSE Point(Nearest(d.x, Pixel) * Pixel + snap.by, Nearest(d.y, Pixel) * Pixel + snap.by)
  IN IF ~p.finite \/ Magnitude(s.x) > SafeBound \/ Magnitude(s.y) > SafeBound
     THEN Lifted ELSE s

Draw(pen, verb) == [pen EXCEPT !.verbs = Append(@, verb)]

\* Mutant of LiftPen: the start of the subpath is kept.
LiftPenOnly(pen) == [pen EXCEPT !.at = Lifted]

\* A vertex that is not finite lifts the pen.
LiftPen(pen) == [pen EXCEPT !.at = Lifted, !.start = Lifted]

OnePoint(pen, code, p) ==
  IF p = Lifted THEN LiftPen(pen)
  ELSE IF code = "M" \/ pen.at = Lifted
  THEN [Draw(pen, <<"M", p>>) EXCEPT !.at = p, !.start = p]
  ELSE [Draw(pen, <<"L", p>>) EXCEPT !.at = p]

\* A curve with a vertex that is not finite is dropped whole; the pen goes to
\* its end, or to its last control.
OneCurve(pen, group) ==
  LET end == Last(group)
      anchor == IF end # Lifted THEN end ELSE group[Len(group) - 1]
      moved == IF anchor = Lifted THEN pen ELSE Draw(pen, <<"M", anchor>>)
  IN IF pen.at # Lifted /\ Lifted \notin ToSet(group)
     THEN [Draw(pen, <<IF Len(group) = 2 THEN "Q" ELSE "C">> \o group) EXCEPT !.at = end]
     ELSE [moved EXCEPT !.at = anchor, !.start = Lifted]

ClosePath(pen) ==
  IF pen.start = Lifted THEN pen ELSE [Draw(pen, <<"Z">>) EXCEPT !.at = pen.start]

RECURSIVE WalkPath(_, _, _, _)
WalkPath(pen, points, codes, i) ==
  LET size == IF codes[i] = "3" THEN 2 ELSE IF codes[i] = "4" THEN 3 ELSE 1
      next == CASE codes[i] \in {"M", "L"} -> OnePoint(pen, codes[i], points[i])
                [] codes[i] \in {"3", "4"} -> OneCurve(pen, SubSeq(points, i, i + size - 1))
                [] OTHER -> ClosePath(pen)
  IN IF i > Len(codes) \/ codes[i] = "S" \/ i + size - 1 > Len(points) THEN pen.verbs
     ELSE WalkPath(next, points, codes, i + size)

CodesOf(c) ==
  IF c.codes # <<>> THEN c.codes
  ELSE [i \in DOMAIN c.points |-> IF i = 1 THEN "M" ELSE "L"]

\* build_device_path: the verbs, none when they draw nothing.
BuildDevicePath(c, snap) ==
  LET verbs == WalkPath([verbs |-> <<>>, at |-> Lifted, start |-> Lifted],
                        [i \in DOMAIN c.points |-> MapPoint(c.points[i], snap)],
                        CodesOf(c), 1)
  IN IF Len(verbs) <= 1 THEN <<>> ELSE verbs

-----------------------------------------------------------------------------
(* Curves become lines before they are filled. *)

\* A quadratic is farthest from its chord in the middle.
QuadIsFlat(start, control, end) ==
  Square(2 * control.x - start.x - end.x) + Square(2 * control.y - start.y - end.y)
    <= 16 * Square(Pixel \div 8)

RECURSIVE FlattenQuad(_, _, _, _)
FlattenQuad(start, control, end, depth) ==
  LET a == Midpoint(start, control)
      b == Midpoint(control, end)
      m == Midpoint(a, b)
  IN IF depth >= FlattenDepth \/ QuadIsFlat(start, control, end) THEN <<end>>
     ELSE FlattenQuad(start, a, m, depth + 1) \o FlattenQuad(m, b, end, depth + 1)

IsNearChord(start, end, control) ==
  LET chord == Way(start, end)
      to == Toward(start, control)
  IN IF start = end THEN SqDistance(start, control) <= Square(Pixel \div 8)
     ELSE Magnitude(Cross(chord, to)) <= (Pixel \div 8) * chord.length

RECURSIVE FlattenCubic(_, _, _, _, _)
FlattenCubic(start, control1, control2, end, depth) ==
  LET a == Midpoint(start, control1)
      b == Midpoint(control1, control2)
      c == Midpoint(control2, end)
      ab == Midpoint(a, b)
      bc == Midpoint(b, c)
      m == Midpoint(ab, bc)
  IN IF \/ depth >= FlattenDepth
        \/ IsNearChord(start, end, control1) /\ IsNearChord(start, end, control2)
     THEN <<end>>
     ELSE FlattenCubic(start, a, ab, m, depth + 1) \o FlattenCubic(m, bc, c, end, depth + 1)

\* What a verb adds to an outline whose last point is at.
Flattened(verb, at) ==
  CASE verb[1] = "L" -> <<verb[2]>>
    [] verb[1] = "Q" -> FlattenQuad(at, verb[2], verb[3], 0)
    [] verb[1] = "C" -> FlattenCubic(at, verb[2], verb[3], verb[4], 0)

\* flatten_path_for_fill: a path's outlines, one sequence of points each, and
\* whether they are closed.  A line after a closing verb starts where the
\* outline began.
Outlines(verbs) ==
  LET Begin(out, p) == Append(out, [points |-> <<p>>, closed |-> FALSE])
      Grow(out, verb) ==
        [out EXCEPT ![Len(out)].points = @ \o Flattened(verb, Last(@))]
      One(out, verb) ==
        IF verb[1] = "M" THEN Begin(out, verb[2])
        ELSE IF verb[1] = "Z" THEN [out EXCEPT ![Len(out)].closed = TRUE]
        ELSE IF Last(out).closed THEN Grow(Begin(out, Last(out).points[1]), verb)
        ELSE Grow(out, verb)
  IN FoldLeft(One, <<>>, verbs)

-----------------------------------------------------------------------------
(* Fills.  tiny-skia covers a sample that its outlines wind around. *)

\* How often the outlines wind around a point.
Winding(outlines, p) ==
  LET Turn(a, b) ==
        CASE a.y <= p.y /\ p.y < b.y /\ Cross(Toward(a, b), Toward(a, p)) > 0 -> 1
          [] b.y <= p.y /\ p.y < a.y /\ Cross(Toward(a, b), Toward(a, p)) < 0 -> -1
          [] OTHER -> 0
      Around(points) ==
        FoldLeft(LAMBDA n, i : n + Turn(points[i], points[(i % Len(points)) + 1]), 0,
                 [i \in DOMAIN points |-> i])
  IN FoldLeft(LAMBDA n, outline : n + Around(outline.points), 0, outlines)

IsInside(outlines, rule, p) ==
  LET n == Winding(outlines, p) IN IF rule = "NonZero" THEN n # 0 ELSE n % 2 = 1

\* The samples of a pixel, n to a side.
Samples(pixel, n) ==
  {Point(pixel[1] * Pixel + ((2 * i - 1) * Pixel) \div (2 * n),
      pixel[2] * Pixel + ((2 * j - 1) * Pixel) \div (2 * n)) : i, j \in 1 .. n}

\* Coverage when so many of a pixel's n * n samples are covered, cut short of the
\* byte's range as Agg does.
Share(covered, n) == (Top * Cardinality(covered)) \div (n * n)

\* The supersampled mask has to stay within its budget.
MaskIsAdmitted ==
  LET w == Width * SuperSample
      h == Height * SuperSample
  IN w <= MaxSide /\ h <= MaxSide /\ w * h <= MaxMask

\* fill_coverage
FillCoverage(verbs, rule, antialias) ==
  LET outlines == Outlines(verbs)
      n == IF ~antialias THEN 1 ELSE IF MaskIsAdmitted THEN SuperSample ELSE LegacySample
  IN [pixel \in Pixels |-> Share({p \in Samples(pixel, n) : IsInside(outlines, rule, p)}, n)]

-----------------------------------------------------------------------------
(* Strokes that AggStroke leaves alone *)

\* stroke_selection: whether there is anything to stroke.
IsStroked(c) == c.stroke # NoPaint /\ c.width > 0

\* tiny-skia's stroker, roughly: half the width to each side, joints rounded.
StrokeCoverage(verbs, c) ==
  LET half == c.width \div 2
      lines == UNION {Lines(o.points, o.closed) : o \in ToSet(Outlines(verbs))}
      joints == {v \in {line[1] : line \in lines} : \E line \in lines : line[2] = v}
      Covered(p) == \/ \E line \in lines : line[1] # line[2] /\ Beside(line, p, half)
                    \/ \E v \in joints : SqDistance(v, p) <= Square(half)
      n == IF c.antialias THEN LegacySample ELSE 1
  IN [pixel \in Pixels |-> Share({p \in Samples(pixel, n) : Covered(p)}, n)]

-----------------------------------------------------------------------------
(* Clipping *)

\* Mutant of DeviceClip: the rectangle keeps its display rows.
DeviceClipUnflipped(rect) ==
  LET left == Max({rect[1], 0})
      top == Max({rect[2], 0})
  IN [left |-> left \div Pixel, top |-> top \div Pixel,
      right |-> (Min({rect[1] + rect[3], Width * Pixel}) + Pixel - 1) \div Pixel,
      bottom |-> (Min({rect[2] + rect[4], Height * Pixel}) + Pixel - 1) \div Pixel]

\* DeviceClip::from_display: the pixels a rectangle touches.  One that reaches
\* above the canvas keeps its height below the border.
DeviceClip(rect) ==
  LET left == Max({rect[1], 0})
      top == Max({Height * Pixel - (rect[2] + rect[4]), 0})
      right == Max({Min({rect[1] + rect[3], Width * Pixel}), left})
      bottom == Min({top + rect[4], Height * Pixel})
  IN [left |-> left \div Pixel, top |-> top \div Pixel,
      right |-> (right + Pixel - 1) \div Pixel,
      bottom |-> IF bottom > 0 THEN (bottom + Pixel - 1) \div Pixel ELSE 0]

\* DeviceClip::contains
IsVisible(c, pixel) ==
  LET clip == DeviceClip(c.clip)
  IN c.clip # NoClip =>
       /\ clip.left <= pixel[1] /\ pixel[1] < clip.right
       /\ clip.top <= pixel[2] /\ pixel[2] < clip.bottom

\* apply_clip_to_coverage
Clipped(c, coverage) ==
  [pixel \in DOMAIN coverage |-> IF IsVisible(c, pixel) THEN coverage[pixel] ELSE 0]

-----------------------------------------------------------------------------
(* Colours *)

Fraction(byte) == byte * (Unit \div Top)
Times(a, b) == (a * b) \div Unit

\* quantize_round_half_even
Quantize(u) ==
  LET lower == (u * Top) \div Unit
      rest == 2 * ((u * Top) % Unit)
  IN IF rest > Unit \/ (rest = Unit /\ lower % 2 = 1) THEN lower + 1 ELSE lower

\* decode_srgb_channel and encode_srgb_channel: an increasing function of the
\* byte and its inverse.
Decode(byte) == Times(Fraction(byte), Fraction(byte))
Encode[linear \in 0 .. Unit] ==
  CHOOSE v \in 0 .. Unit :
    Times(v, v) <= linear /\ (v = Unit \/ linear < Times(v + 1, v + 1))

\* source_over, for premultiplied values.
SourceOver(source, below) ==
  [value |-> Min({Unit, source.value + Times(below.value, Unit - source.alpha)}),
   alpha |-> Min({Unit, source.alpha + Times(below.alpha, Unit - source.alpha)})]

\* srgb_premultiplied_over, for straight ones.
SrgbOver(source, below) ==
  LET over == SourceOver([source EXCEPT !.value = Times(source.value, source.alpha)],
                         [below EXCEPT !.value = Times(below.value, below.alpha)])
  IN IF over.alpha = 0 THEN [over EXCEPT !.value = 0]
     ELSE [over EXCEPT !.value = Min({Unit, (over.value * Unit) \div over.alpha})]

\* Mutant of AggMultiply: the second half of the rounding is left out.
AggMultiplyShort(a, b) == (a * b + Levels \div 2) \div Levels

\* agg_multiply: the product of two fractions in bytes.
AggMultiply(a, b) ==
  LET t == a * b + Levels \div 2 IN Min({((t \div Levels) + t) \div Levels, Top})

\* agg_blend_channel, whose differences wrap around as the machine's words do.
Word == Levels * Levels * Levels * Levels

AggBlendChannel(below, source, belowAlpha, sourceAlpha, accumulated) ==
  LET premultiplied == below * belowAlpha
      numerator == (((source * Levels - premultiplied) % Word) * sourceAlpha
                      + premultiplied * Levels) % Word
  IN IF sourceAlpha = Top /\ belowAlpha = Top THEN source
     ELSE Min({numerator \div accumulated, Top})

\* agg_blend_pixel
AggBlendPixel(below, colour, cover) ==
  LET alpha == AggMultiply(colour[2], cover)
      accumulated == (alpha + below.alpha) * Levels - alpha * below.alpha
  IN IF alpha = 0 THEN below
     ELSE [value |-> AggBlendChannel(below.value, colour[1], below.alpha, alpha, accumulated),
           alpha |-> Min({accumulated \div Levels, Top})]

\* Canvas::composite: one colour over one pixel.
Composite(mode, below, cover, colour, fixed) ==
  LET alpha == (Fraction(colour[2]) * cover) \div Top
      bytes == AggBlendPixel([value |-> Quantize(below.value), alpha |-> Quantize(below.alpha)],
                             colour, cover)
  IN IF alpha = 0 THEN below
     ELSE IF mode = "Linear"
     THEN SourceOver([value |-> Times(Decode(colour[1]), alpha), alpha |-> alpha], below)
     ELSE IF fixed
     THEN [value |-> Fraction(bytes.value), alpha |-> Fraction(bytes.alpha)]
     ELSE SrgbOver([value |-> Fraction(colour[1]), alpha |-> Fraction(Quantize(alpha))], below)

\* composite_coverage
CompositeCoverage(mode, pixels, coverage, colour, fixed) ==
  [pixel \in DOMAIN pixels |->
     Composite(mode, pixels[pixel], coverage[pixel], colour, fixed)]

\* Canvas::new
NewCanvas(f) ==
  [pixel \in Pixels |->
     IF f.mode = "Linear"
     THEN [value |-> Times(Decode(f.background[1]), Fraction(f.background[2])),
           alpha |-> Fraction(f.background[2])]
     ELSE [value |-> Fraction(f.background[1]), alpha |-> Fraction(f.background[2])]]

\* to_rgba8 and srgb_pixels_to_rgba8
Shown(mode, below) ==
  LET alpha == Quantize(below.alpha)
      straight == Min({Unit, (below.value * Unit) \div Max({below.alpha, 1})})
  IN IF alpha = 0 THEN <<0, 0>>
     ELSE <<Quantize(IF mode = "Linear" THEN Encode[straight] ELSE below.value), alpha>>

-----------------------------------------------------------------------------
(* One command *)

\* Agg's path snapper moves fill and stroke alike, when there is a stroke.
SnapOf(c) == [by |-> SnapValue(c.width)]

\* AggStroke's mask, where it has one.
OrElse(coverage, other) == IF coverage # Nothing THEN coverage ELSE other

PathFill(c) ==
  OrElse(TryRasterizeTriangleFill(AggCommand(c)),
         FillCoverage(BuildDevicePath(c, IF c.snap /\ c.stroke # NoPaint THEN SnapOf(c)
                                         ELSE Nothing),
                      c.rule, c.antialias))

AfterFill(c) ==
  IF c.fill = NoPaint THEN canvas
  ELSE CompositeCoverage(frame.mode, canvas, Clipped(c, PathFill(c)), Canonical(c.fill),
                         c.snap /\ c.stroke # NoPaint)

AggMask(c) == IF frame.mode = "AggSrgb" THEN TryRasterize(AggCommand(c)) ELSE Nothing

\* The stroke when AggStroke leaves it alone.
PathStroke(c) == StrokeCoverage(BuildDevicePath(c, IF c.snap THEN SnapOf(c) ELSE Nothing), c)

\* The stroke goes over the fill.
AfterStroke(c, below, agg) ==
  CompositeCoverage(frame.mode, below, Clipped(c, OrElse(agg, PathStroke(c))),
                    Canonical(c.stroke), c.snap \/ agg # Nothing)

AfterPath(c) ==
  IF IsStroked(c) THEN AfterStroke(c, AfterFill(c), AggMask(c)) ELSE AfterFill(c)

\* composite_image: every pixel of the image that falls on the canvas, whole.
ImagePixel(c, column, row) ==
  [x |-> c.at.x + column * Pixel, y |-> (Height - c.rows + row) * Pixel - c.at.y]

AfterImage(c) ==
  LET Lands(place, pixel) ==
        LET p == ImagePixel(c, place[1], place[2])
        IN <<p.x \div Pixel, p.y \div Pixel>> = pixel
      Source(pixel) == {place \in DOMAIN c.pixels : Lands(place, pixel)}
  IN [pixel \in DOMAIN canvas |->
        IF Source(pixel) = {} \/ ~IsVisible(c, pixel) THEN canvas[pixel]
        ELSE Composite(frame.mode, canvas[pixel], Top,
                       c.pixels[CHOOSE place \in Source(pixel) : TRUE], FALSE)]

-----------------------------------------------------------------------------
FrameInit ==
  /\ frame = Nothing /\ stage = "new" /\ drawn = 0
  /\ canvas = <<>> /\ picture = <<>>

\* FrameSpec::new and push_command: a frame is refused as a whole.
Submit ==
  \E f \in Frames :
    /\ stage = "new"
    /\ IF \A i \in DOMAIN f.commands : IsValid(f.commands[i])
       THEN /\ stage' = "painting"
            /\ frame' = [f EXCEPT !.background = Canonical(@)]
            /\ canvas' = NewCanvas(frame')
       ELSE stage' = "validation" /\ UNCHANGED <<frame, canvas>>
    /\ UNCHANGED <<drawn, picture>>

Command == frame.commands[drawn + 1]
IsNext(kind) ==
  stage = "painting" /\ drawn < Len(frame.commands) /\ Command.kind = kind

\* A path without geometry is passed over.
PaintPath ==
  /\ IsNext("path")
  /\ canvas' = IF BuildDevicePath(Command, Nothing) = <<>> THEN canvas ELSE AfterPath(Command)
  /\ drawn' = drawn + 1
  /\ UNCHANGED <<frame, stage, picture>>

\* tiny-skia cannot stroke, or a buffer cannot be had: the frame is given up.
FailToPaint ==
  /\ IsNext("path")
  /\ BuildDevicePath(Command, Nothing) # <<>>
  /\ stage' = "internal"
  /\ UNCHANGED <<frame, drawn, canvas, picture>>

PaintImage ==
  /\ IsNext("image")
  /\ canvas' = AfterImage(Command)
  /\ drawn' = drawn + 1
  /\ UNCHANGED <<frame, stage, picture>>

ReadBack ==
  /\ stage = "painting" /\ drawn = Len(frame.commands)
  /\ picture' = [pixel \in Pixels |-> Shown(frame.mode, canvas[pixel])]
  /\ stage' = "painted"
  /\ UNCHANGED <<frame, drawn, canvas>>

\* encode_png: the estimate takes the pixels as if they were stored.
OutputEstimate ==
  LET rows == Width * Height * 4 + Height
  IN rows + ((rows + 65534) \div 65535) * 5 + 1024

EncodePng ==
  /\ stage = "painted"
  /\ stage' = IF OutputEstimate > MaxOutput THEN "validation" ELSE "encoded"
  /\ UNCHANGED <<frame, drawn, canvas, picture>>

\* render_frame_png returns, whatever became of the frame.
Return ==
  /\ stage \in {"encoded", "validation", "internal"}
  /\ frame' = Nothing /\ stage' = "new" /\ drawn' = 0
  /\ canvas' = <<>> /\ picture' = <<>>

FrameNext ==
  Submit \/ PaintPath \/ FailToPaint \/ PaintImage \/ ReadBack \/ EncodePng \/ Return

SoftwareSpec == FrameInit /\ [][FrameNext]_frameVars
-----------------------------------------------------------------------------
(* What a picture must be *)

\* The lines of a path from point to point, curves as one line each.
Steps(verbs) ==
  FoldLeft(LAMBDA walk, verb :
             CASE verb[1] = "M" -> [walk EXCEPT !.at = verb[2], !.begin = verb[2]]
               [] verb[1] = "Z" -> [walk EXCEPT !.at = walk.begin,
                                                !.lines = @ \cup {<<walk.at, walk.begin>>}]
               [] OTHER -> [walk EXCEPT !.at = Last(verb),
                                        !.lines = @ \cup {<<walk.at, Last(verb)>>}],
           [at |-> Lifted, begin |-> Lifted, lines |-> {}], verbs).lines

\* A vertex that is not finite is a gap: a path's lines join a vertex to the one
\* before it, or to the start of an outline without a gap in between, and every
\* two finite neighbours that a line code joins are joined (build_device_path).
GapsAreNotBridged ==
  stage = "painting" /\ drawn < Len(frame.commands) /\ Command.kind = "path" =>
    LET codes == CodesOf(Command)
        p == [i \in DOMAIN codes |-> MapPoint(Command.points[i], Nothing)]
        stops == {i \in DOMAIN codes : codes[i] = "S"} \cup {Len(codes) + 1}
        drawnLines == Steps(BuildDevicePath(Command, Nothing))
        Unbroken(s, e) == \A k \in s .. e : codes[k] = "C" \/ p[k] # Lifted
        Size(j) == CASE codes[j] = "3" -> 2 [] codes[j] = "4" -> 3 [] OTHER -> 1
        Begun(j) == {p[s] : s \in {s \in 1 .. (j - 1) : codes[s] # "C" /\ Unbroken(s, j)}}
        Left(i) == CASE codes[i] = "C" -> Begun(i)
                     [] codes[i] \in {"3", "4"} -> {p[i], p[i - 1]}
                     [] OTHER -> {p[i]}
        Joins(line, j) ==
          /\ j > Size(j) /\ line[1] \in Left(j - Size(j)) /\ line[1] # Lifted
          /\ IF codes[j] = "C" THEN line[2] \in Begun(j)
             ELSE codes[j] # "M" /\ line[2] = p[j] /\ Unbroken(j - Size(j) + 1, j)
    IN /\ \A line \in drawnLines : \E j \in DOMAIN codes : Joins(line, j)
       /\ \A j \in 2 .. (Min(stops) - 1) :
            codes[j] = "L" /\ codes[j - 1] \in {"M", "L"} /\ Unbroken(j - 1, j)
              => <<p[j - 1], p[j]>> \in drawnLines

Painting == frame' = frame /\ drawn' = drawn + 1

\* The colours a command paints with.
Colours(c) ==
  IF c.kind = "image" THEN {c.pixels[place] : place \in DOMAIN c.pixels}
  ELSE {c.fill, c.stroke} \ {NoPaint}

Corner(pixel) == [x |-> pixel[1] * Pixel, y |-> pixel[2] * Pixel]

\* The colours that cover a pixel whole: of an image's pixel that lies on it, of
\* a fill around it, of a stroke whose mask is full there and goes over the fill.
WholeColours(c, pixel, stroked, outlines) ==
  IF c.kind = "image"
  THEN {c.pixels[place] :
          place \in {q \in DOMAIN c.pixels : ImagePixel(c, q[1], q[2]) = Corner(pixel)}}
  ELSE IF IsStroked(c)
  THEN IF stroked # Nothing /\ stroked[pixel] = Top THEN {c.stroke} ELSE {}
  ELSE IF \A v \in CornersOf(pixel) : IsInside(outlines, c.rule, v)
  THEN {c.fill} ELSE {}

\* The clip rectangle holds a pixel, or touches it.
ClipHolds(c, pixel) ==
  LET rect == c.clip
      y == (Height - 1 - pixel[2]) * Pixel
  IN \/ rect = NoClip
     \/ /\ rect[1] <= pixel[1] * Pixel /\ (pixel[1] + 1) * Pixel <= rect[1] + rect[3]
        /\ rect[2] <= y /\ y + Pixel <= rect[2] + rect[4]

ClipTouches(c, pixel) ==
  LET rect == c.clip
      y == (Height - 1 - pixel[2]) * Pixel
  IN \/ rect = NoClip
     \/ /\ rect[1] < (pixel[1] + 1) * Pixel /\ pixel[1] * Pixel < rect[1] + rect[3]
        /\ rect[2] < y + Pixel /\ y < rect[2] + rect[4]

\* A command is laid over what is there: alpha never falls, a colour stays
\* between the old one and the command's, and where an opaque one covers a pixel
\* whole it is what shows, to the byte when the pixel was opaque (rasterize).
PaintsOver(c) ==
  LET isPath == c.kind = "path"
      stroked == IF isPath THEN AggMask(c) ELSE Nothing
      outlines == IF isPath THEN Outlines(BuildDevicePath(c, Nothing)) ELSE <<>>
  IN \A pixel \in Pixels :
       LET was == Shown(frame.mode, canvas[pixel])
           is == Shown(frame.mode, canvas'[pixel])
           values == {colour[1] : colour \in Colours(c)}
                       \cup (IF was[2] = 0 THEN {} ELSE {was[1]})
       IN /\ is[2] >= was[2]
          /\ is[2] > 0 => is[1] \in (Min(values) - 1) .. (Max(values) + 1)
          /\ \A colour \in WholeColours(c, pixel, stroked, outlines) :
               colour[2] = Top /\ ClipHolds(c, pixel)
                 => /\ is[2] = Top
                    /\ Magnitude(is[1] - colour[1]) <= IF was[2] = Top THEN 0 ELSE 1

\* Nothing is painted outside a command's clip rectangle, whichever route paints
\* it, as long as the rectangle's upper edge is on the canvas.
StaysInClip(c) ==
  c.clip[2] + c.clip[4] <= Height * Pixel =>
    \A pixel \in Pixels : canvas'[pixel] # canvas[pixel] => ClipTouches(c, pixel)

\* Painting a command lays it over what is there, and does so inside its clip.
PaintIsOverlay == [][Painting => PaintsOver(Command) /\ StaysInClip(Command)]_frameVars
=============================================================================
