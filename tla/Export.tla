-------------------------------- MODULE Export --------------------------------
(***************************************************************************)
(* The output sinks of a resolved line frame: crates/lumenplot-export/src. *)
(*                                                                         *)
(* raster.rs plans a picture and makes one mask per pass, png.rs lays the  *)
(* passes over the background, pdf.rs writes the same frame as vector      *)
(* content and then the objects, cross references and trailer of a file.   *)
(* A sink plans before it allocates, may run out of memory at every step   *)
(* and delivers nothing when it fails.                                     *)
(*                                                                         *)
(* Lengths are counted in parts of 1/Unit as in EngineFrames, of a logical *)
(* unit, a pixel or a point.  A mask is the lines and boxes it is filled   *)
(* from; how they become pixels is SoftwareFrame's matter, whose colour    *)
(* arithmetic is the compositor's.  The writer's output is a sequence of   *)
(* operators and objects, each as many bytes long as its text.             *)
(***************************************************************************)
EXTENDS Annotations

CONSTANTS
  Scenes,         \* [series, viewport, spec]: for each series its segments' points
  Sheets,         \* what else a frame carries and what is asked of the sinks
  MaxDimension,   \* MAX_DIMENSION, a side in pixels or points
  MaxPixels,      \* MAX_PIXELS
  MaxOutput,      \* MAX_OUTPUT_BYTES
  MaxWork,        \* MAX_WORK_BYTES
  MaxPathPoints,  \* MAX_PATH_POINTS
  MaxPdfSeries,   \* PDF_MAX_SERIES
  LargestFloat,   \* f32::MAX, in parts
  Fine            \* the parts the stroker may take for nothing, as a width or a step

\* TINY_SKIA_SAFE_PATH_BOUND
PathBound == LargestFloat \div 4

IsSequence(s) == s \in Seq(ToSet(s))

\* A side has five digits at most and a file nine: 16384 and 67108864 in the code.
ASSUME ExportAssumption ==
  /\ {MaxDimension, MaxPixels, MaxOutput, MaxWork, MaxPathPoints, MaxPdfSeries} \subseteq Nat
  /\ MaxDimension < 10 ^ 5 /\ MaxOutput < 10 ^ 9

\* The largest picture with a stroke of one pixel is far within the bound of paths,
\* and a pixel is no fine thing: 16384 against 2^126, and 1 against 1/4096.
ASSUME StrokeAssumption ==
  /\ {LargestFloat, Fine} \subseteq Nat
  /\ (MaxDimension + 3) * Unit <= PathBound /\ Fine < Unit

\* A viewport and the places on a canvas are numbers, a series has segments and
\* those have points.
ASSUME SceneAssumption ==
  \A scene \in Scenes :
    /\ {scene.viewport.minX, scene.viewport.maxX,
        scene.viewport.minY, scene.viewport.maxY} \subseteq Int
    /\ {scene.spec.canvas[1], scene.spec.canvas[2], scene.spec.plot.x0, scene.spec.plot.y0,
        scene.spec.plot.x1, scene.spec.plot.y1} \subseteq Int
    /\ IsSequence(scene.series)
    /\ \A s \in DOMAIN scene.series :
         /\ IsSequence(scene.series[s])
         /\ \A i \in DOMAIN scene.series[s] :
              IsSequence(scene.series[s][i]) /\ scene.series[s][i] # <<>>

\* Resolutions have nine digits at most; the identities of annotations are numbers.
ASSUME SheetAssumption ==
  \A sheet \in Sheets :
    /\ IsSequence(sheet.runs)
    /\ \A r \in DOMAIN sheet.runs : IsSequence(sheet.runs[r].glyphs)
    /\ DOMAIN sheet.live = {} \/ \E top \in DOMAIN sheet.live : DOMAIN sheet.live \subseteq 1 .. top
    /\ {sheet.perInch, sheet.dpi} \subseteq Nat \ {0}
    /\ sheet.perInch < 10 ^ 9 /\ sheet.dpi < 10 ^ 9

VARIABLES
  line,     \* the LineFrame its owner holds
  png,      \* the call into the PNG sink: [stage, painted]
  pdf       \* the call into the PDF sink: [stage, content, file, offsets]

exportVars == <<line, png, pdf>>

Nothing == [none |-> TRUE]
IdlePng == [stage |-> "idle", painted |-> <<>>]
IdlePdf == [stage |-> "idle", content |-> <<>>, file |-> <<>>, offsets |-> <<>>]

GridInk == [rgb |-> "#b0b0b0", alpha |-> 255]
BlackInk == [rgb |-> "black", alpha |-> 255]

Clamp(v, top) == Max({0, Min({v, top})})

-----------------------------------------------------------------------------
(* The frame *)

\* Every series of the scene, clipped to the plot rectangle.
SeriesPaths(scene) ==
  [s \in DOMAIN scene.series |->
     FlattenSeq([i \in DOMAIN scene.series[s] |->
       ClippedPaths([k \in DOMAIN scene.series[s][i] |->
                       TransformPoint(scene.series[s][i][k], scene.viewport, scene.spec.plot)],
                    scene.spec.plot)])]

LineFrame(scene, sheet, layout) ==
  LET v == scene.viewport
      spec == scene.spec
      xs == AxisTicks(v.minX, v.maxX)
      ys == AxisTicks(v.minY, v.maxY)
  IN [canvas |-> spec.canvas, plot |-> spec.plot, sheet |-> sheet, layout |-> layout,
      series |-> SeriesPaths(scene),
      xTicks |-> [i \in DOMAIN xs.at |-> DisplayX(xs.at[i], 10, v, spec.plot)],
      yTicks |-> [i \in DOMAIN ys.at |-> DisplayY(ys.at[i], 10, v, spec.plot)]]

\* A text or a box has four corners, a shaft two ends.
MarkPoints(mark) == IF mark.shape.kind \in {"Text", "Rectangle"} THEN 4 ELSE 2

\* The glyphs of all runs, in parts of a unit.
Glyphs ==
  FlattenSeq([r \in DOMAIN line.layout.runs |->
    [i \in DOMAIN line.layout.runs[r].glyphs |->
       [x |-> Unit * line.layout.runs[r].glyphs[i].x,
        y |-> Unit * line.layout.runs[r].glyphs[i].y]]])

CurvePoints == Total([s \in DOMAIN line.series |-> PointCount(line.series[s])])
GridPoints == 2 * (Len(line.xTicks) + Len(line.yTicks))
GlyphPoints == 4 * Len(Glyphs)

-----------------------------------------------------------------------------
(* The picture's plan *)

\* A logical length in pixels, with the sheet's resolution.
Pixels(parts) == (parts * line.sheet.dpi) \div line.sheet.perInch

Side(k) == CeilDiv(Pixels(line.canvas[k] * Unit), Unit)
PixelCount == Side(1) * Side(2)

PathPoints ==
  CurvePoints + GlyphPoints + GridPoints
    + Total([i \in DOMAIN line.layout.marks |-> MarkPoints(line.layout.marks[i])])

\* The picture in stored blocks of 65535 bytes, its rows each with a filter byte.
PngEstimate ==
  LET rows == 4 * PixelCount + Side(2)
  IN rows + 5 * CeilDiv(rows, 65535) + 1024

\* Pixels of four doubles, five masks, the bytes read back, paths, the output.
PngWork == (32 + 5 + 4) * PixelCount + (8 + 24) * PathPoints + PngEstimate

PlotClip ==
  Box(Pixels(line.plot.x0 * Unit), Pixels(line.plot.y0 * Unit),
      Pixels(line.plot.x1 * Unit), Pixels(line.plot.y1 * Unit))
CanvasClip == Box(0, 0, Side(1) * Unit, Side(2) * Unit)

Within(clip, page) ==
  /\ clip.left >= 0 /\ clip.top >= 0
  /\ clip.left < clip.right /\ clip.top < clip.bottom
  /\ clip.right <= page.right /\ clip.bottom <= page.bottom

OnPicture(p) ==
  Pixels(p.x) \in 0 .. (Side(1) * Unit) /\ Pixels(p.y) \in 0 .. (Side(2) * Unit)

AllPoints == UNION {UNION {ToSet(path) : path \in ToSet(paths)} : paths \in ToSet(line.series)}

\* RasterPlan::new, "admitted" or why not.
PngPlan ==
  IF ~line.sheet.valid \/ ~LayoutIsValid(line.layout) THEN "InvalidInput"
  ELSE IF \E k \in {1, 2} : Side(k) \notin 1 .. MaxDimension THEN "CapacityExceeded"
  ELSE IF PixelCount > MaxPixels THEN "CapacityExceeded"
  ELSE IF ~Within(PlotClip, Box(0, 0, Pixels(line.canvas[1] * Unit), Pixels(line.canvas[2] * Unit)))
  THEN "InvalidInput"
  ELSE IF line.series # <<>> /\ Pixels(line.sheet.style.width) \notin 1 .. LargestFloat
  THEN "InvalidInput"
  ELSE IF \E p \in AllPoints : ~OnPicture(p) THEN "InvalidInput"
  ELSE IF PathPoints > MaxPathPoints \/ PngEstimate > MaxOutput \/ PngWork > MaxWork
  THEN "CapacityExceeded"
  ELSE "admitted"

-----------------------------------------------------------------------------
(* The picture's passes *)

\* A line is the points it runs through; only one that leaves its start marks.
HasLength(path) == \E p \in ToSet(path) : p # path[1]

Pass(name, clip, ink, width, lines, boxes) ==
  [pass |-> name, clip |-> clip, ink |-> ink, width |-> width, lines |-> lines, boxes |-> boxes]

InPixels(path) == [k \in DOMAIN path |-> [x |-> Pixels(path[k].x), y |-> Pixels(path[k].y)]]

\* rasterize_grid: lines over the whole picture, which the plot clip cuts.
GridPass ==
  LET Upright(v) ==
        IF Pixels(v) \in 0 .. (Side(1) * Unit)
        THEN << <<[x |-> Pixels(v), y |-> 0], [x |-> Pixels(v), y |-> Side(2) * Unit]>> >>
        ELSE <<>>
      Level(v) ==
        IF Pixels(v) \in 0 .. (Side(2) * Unit)
        THEN << <<[x |-> 0, y |-> Pixels(v)], [x |-> Side(1) * Unit, y |-> Pixels(v)]>> >>
        ELSE <<>>
      lines == FlattenSeq([i \in DOMAIN line.xTicks |-> Upright(line.xTicks[i])])
                 \o FlattenSeq([i \in DOMAIN line.yTicks |-> Level(line.yTicks[i])])
  IN Pass("grid", PlotClip, GridInk, Unit, IF line.sheet.grid THEN lines ELSE <<>>, <<>>)

\* rasterize_series
SeriesPass(s) ==
  LET Drawn(path) == IF HasLength(path) THEN <<path>> ELSE <<>>
  IN Pass("series", PlotClip, line.sheet.style.ink, Pixels(line.sheet.style.width),
          FlattenSeq([i \in DOMAIN line.series[s] |-> Drawn(InPixels(line.series[s][i]))]), <<>>)

\* What of a box in pixels is on the picture.
OnCanvas(box) ==
  LET cut == Box(Clamp(box.left, CanvasClip.right), Clamp(box.top, CanvasClip.bottom),
                 Clamp(box.right, CanvasClip.right), Clamp(box.bottom, CanvasClip.bottom))
  IN IF cut.left < cut.right /\ cut.top < cut.bottom THEN <<cut>> ELSE <<>>

\* glyph_cell_pixels: every glyph is a cell of five by seven units.
GlyphCell(p) ==
  OnCanvas(Box(Pixels(p.x), Pixels(p.y), Pixels(p.x + 5 * Unit), Pixels(p.y + 7 * Unit)))

\* rasterize_retained_text
TextPass ==
  Pass("text", CanvasClip, BlackInk, 0, <<>>,
       FlattenSeq([i \in DOMAIN Glyphs |-> GlyphCell(Glyphs[i])]))

\* annotation_box_pixels: the box around the four corners where they are moved.
MarkBox(mark) ==
  LET corners == {Moved(mark.transform, [x |-> x, y |-> y]) :
                    x \in {mark.bounds.left, mark.bounds.right},
                    y \in {mark.bounds.top, mark.bounds.bottom}}
  IN OnCanvas(Around({[x |-> Pixels(Unit * p.x), y |-> Pixels(Unit * p.y)] : p \in corners}))

\* annotation_shaft_pixels: a shaft that leaves the picture is left out.
MarkShaft(mark) ==
  LET Placed(p) == [x |-> Unit * Moved(mark.transform, p).x, y |-> Unit * Moved(mark.transform, p).y]
      ends == <<Placed(mark.shape.from), Placed(mark.shape.to)>>
  IN IF OnPicture(ends[1]) /\ OnPicture(ends[2]) /\ HasLength(InPixels(ends))
     THEN <<InPixels(ends)>> ELSE <<>>

Outline(box) ==
  <<[x |-> box.left, y |-> box.top], [x |-> box.right, y |-> box.top],
    [x |-> box.right, y |-> box.bottom], [x |-> box.left, y |-> box.bottom],
    [x |-> box.left, y |-> box.top]>>

\* rasterize_annotations: texts are filled, the other marks one unit broad.
MarkBoxes(mark) == IF mark.shape.kind = "Text" THEN MarkBox(mark) ELSE <<>>

MarkLines(mark) ==
  IF mark.shape.kind = "Text" THEN <<>>
  ELSE IF mark.shape.kind = "Rectangle"
  THEN [i \in DOMAIN MarkBox(mark) |-> Outline(MarkBox(mark)[i])]
  ELSE MarkShaft(mark)

AnnotationPass ==
  LET marks == line.layout.marks
  IN Pass("annotations", CanvasClip, BlackInk, Pixels(Unit),
          FlattenSeq([i \in DOMAIN marks |-> MarkLines(marks[i])]),
          FlattenSeq([i \in DOMAIN marks |-> MarkBoxes(marks[i])]))

\* The passes in the order in which they are laid over each other.
Passes ==
  <<GridPass>> \o [s \in DOMAIN line.series |-> SeriesPass(s)] \o <<TextPass, AnnotationPass>>

-----------------------------------------------------------------------------
(* The stroker, which is tiny-skia's.  The outline of a line keeps within three *)
(* widths of its points (a mitre ends at two) and, on one axis, goes more than a *)
(* third of one beyond them (half of one across the line's direction); a line  *)
(* that stays within Fine of its start may leave no outline.                   *)
Strokes(pass) == pass.pass = "series" \/ pass.lines # <<>>

StaysAtStart(path) ==
  \A p \in ToSet(path) :
    /\ p.x - path[1].x \in (-Fine) .. Fine
    /\ p.y - path[1].y \in (-Fine) .. Fine

IsFine(pass) == pass.width <= Fine \/ \A path \in ToSet(pass.lines) : StaysAtStart(path)

IsRepresentable(pass) ==
  \A path \in ToSet(pass.lines) : \A p \in ToSet(path) : \A v \in {p.x, p.y} :
    -PathBound <= v - 3 * pass.width /\ v + 3 * pass.width <= PathBound

IsTooWide(pass) == pass.width > 3 * PathBound

\* Mutant of StrokeResults: an outline is filled as far as the filler can.
StrokeResultsUnchecked(pass) == {"mask"} \cup (IF IsFine(pass) THEN {"Internal"} ELSE {})

\* path.stroke and ensure_stroked_path_is_representable; an outline that leaves
\* the floats is none.
StrokeResults(pass) ==
  (IF IsTooWide(pass) THEN {} ELSE {"mask"})
    \cup (IF IsRepresentable(pass) THEN {} ELSE {"CapacityExceeded", "Internal"})
    \cup (IF IsFine(pass) THEN {"Internal"} ELSE {})

\* What comes of making a pass's mask, but for memory.
PassResults(pass) ==
  IF Strokes(pass) /\ pass.width \notin 1 .. LargestFloat THEN {"InvalidInput"}
  ELSE IF pass.lines = <<>> THEN {"mask"}
  ELSE StrokeResults(pass)

-----------------------------------------------------------------------------
(* The file's plan *)

\* logical_to_points: always 72 points to the inch.
Points(parts) == (parts * 72) \div line.sheet.perInch

Page(k) == Points(line.canvas[k] * Unit)

\* pdf_point: the page's y axis points up.
PdfPoint(p) == [x |-> Points(p.x), y |-> Page(2) - Points(p.y)]

PdfPlot ==
  Box(Points(line.plot.x0 * Unit), Page(2) - Points(line.plot.y1 * Unit),
      Points(line.plot.x1 * Unit), Page(2) - Points(line.plot.y0 * Unit))

OnPage(p) ==
  /\ p.x \in 0 .. (line.canvas[1] * Unit) /\ p.y \in 0 .. (line.canvas[2] * Unit)

PdfPathPoints == CurvePoints + GridPoints
PdfSegments ==
  Total([s \in DOMAIN line.series |-> Len(line.series[s])]) + GridPoints \div 2

\* Mutant of ContentEstimate: glyphs are counted but not estimated.
ContentEstimateOfLines ==
  2048 + 64 * PdfPathPoints + 64 * PdfSegments + 256 * Len(line.series)

ContentEstimate ==
  2048 + 64 * PdfPathPoints + 64 * PdfSegments + 256 * Len(line.series)
    + 64 * Len(Glyphs) + (IF Glyphs = <<>> THEN 0 ELSE 64)

\* Catalog, pages, page, contents, background, grid, a state per series, info.
ObjectCount == Len(line.series) + 7
OutputEstimate == ContentEstimate + ObjectCount * (256 + 32) + 4096

\* PdfPlan::new
PdfPlan ==
  IF ~line.sheet.valid \/ ~LayoutIsValid(line.layout) THEN "InvalidInput"
  ELSE IF \E k \in {1, 2} : Page(k) \notin 1 .. (MaxDimension * Unit)
  THEN "CapacityExceeded"
  ELSE IF ~Within(Box(line.plot.x0, line.plot.y0, line.plot.x1, line.plot.y1),
                  Box(0, 0, line.canvas[1], line.canvas[2]))
  THEN "InvalidInput"
  ELSE IF \/ Len(line.series) > MaxPdfSeries
          \/ /\ line.series # <<>>
             /\ Points(line.sheet.style.width) \notin 1 .. (MaxDimension * Unit)
  THEN "CapacityExceeded"
  ELSE IF \E p \in AllPoints : ~OnPage(p) THEN "InvalidInput"
  ELSE IF \/ PdfPathPoints > MaxPathPoints \/ GlyphPoints > MaxPathPoints
          \/ OutputEstimate > MaxOutput
          \/ ContentEstimate + OutputEstimate + 8 * ObjectCount > MaxWork
  THEN "CapacityExceeded"
  ELSE "admitted"

-----------------------------------------------------------------------------
(* The page's content *)

Digits(n) == Min({d \in 1 .. 9 : n < 10 ^ d})

\* Six decimal places, and a sign where there is one.
NumberSize(parts) ==
  IF parts < 0 THEN 8 + Digits((-parts) \div Unit) ELSE 7 + Digits(parts \div Unit)

\* The bytes of an operator with its operands.
Size(o) ==
  CASE o.op \in {"q", "Q", "S"} -> 2
    [] o.op = "gs" -> IF o.series > 0 THEN 6 + Digits(o.series - 1)
                      ELSE IF o.name = "GRID" THEN 9 ELSE 7
    [] o.op \in {"rg", "RG"} -> 3 * 8 + 2 + 4
    [] o.op = "w" -> NumberSize(o.width) + 15
    [] o.op \in {"m", "l"} -> NumberSize(o.at.x) + NumberSize(o.at.y) + 4
    [] o.op = "page" -> 4 + NumberSize(o.width) + NumberSize(o.height) + 1 + 6
    [] o.op \in {"W", "f"} ->
         NumberSize(o.x) + NumberSize(o.y) + NumberSize(o.width) + NumberSize(o.height) + 3
           + (IF o.op = "W" THEN 8 ELSE 6)

SizeOf(ops) == Total([i \in DOMAIN ops |-> Size(ops[i])])

Save == [op |-> "q"]
Restore == [op |-> "Q"]
StrokePath == [op |-> "S"]
UseState(name) == [op |-> "gs", name |-> name, series |-> 0]
UseSeries(s) == [op |-> "gs", name |-> "L", series |-> s]
FillInk(ink) == [op |-> "rg", rgb |-> ink.rgb]
StrokeInk(ink) == [op |-> "RG", rgb |-> ink.rgb]
LineWidth(width) == [op |-> "w", width |-> width]
Rectangle(op, box) ==
  [op |-> op, x |-> box.left, y |-> box.top,
   width |-> box.right - box.left, height |-> box.bottom - box.top]

\* write_path_point for every point of a path.
Trace(path) ==
  [k \in DOMAIN path |-> [op |-> IF k = 1 THEN "m" ELSE "l", at |-> path[k]]] \o <<StrokePath>>

BackgroundOps ==
  <<Save, UseState("BG"), FillInk(line.sheet.background),
    [op |-> "page", width |-> Page(1), height |-> Page(2)], Restore>>

OpenPlot == <<Save, Rectangle("W", PdfPlot)>>

\* write_grid_content: the ticks in the plot, from side to side of it.
GridOps ==
  LET box == PdfPlot
      Upright(v) ==
        IF Points(v) \in box.left .. box.right
        THEN Trace(<<[x |-> Points(v), y |-> box.top], [x |-> Points(v), y |-> box.bottom]>>)
        ELSE <<>>
      Level(v) ==
        LET y == Page(2) - Points(v)
        IN IF y \in box.top .. box.bottom
           THEN Trace(<<[x |-> box.left, y |-> y], [x |-> box.right, y |-> y]>>)
           ELSE <<>>
      lines == FlattenSeq([i \in DOMAIN line.xTicks |-> Upright(line.xTicks[i])])
                 \o FlattenSeq([i \in DOMAIN line.yTicks |-> Level(line.yTicks[i])])
  IN IF ~line.sheet.grid \/ lines = <<>> THEN <<>>
     ELSE <<UseState("GRID"), StrokeInk(GridInk), LineWidth(Unit \div 2)>> \o lines

\* A series of which nothing is visible writes nothing.
SeriesOps(s) ==
  IF line.series[s] = <<>> THEN <<>>
  ELSE <<UseSeries(s), StrokeInk(line.sheet.style.ink),
         LineWidth(Points(line.sheet.style.width))>>
         \o FlattenSeq([i \in DOMAIN line.series[s] |->
                          Trace([k \in DOMAIN line.series[s][i] |-> PdfPoint(line.series[s][i][k])])])

\* text_cell_points: the cell cut at the canvas, then turned up.
TextCell(p) ==
  LET left   == Clamp(p.x, line.canvas[1] * Unit)
      top    == Clamp(p.y, line.canvas[2] * Unit)
      right  == Clamp(p.x + 5 * Unit, line.canvas[1] * Unit)
      bottom == Clamp(p.y + 7 * Unit, line.canvas[2] * Unit)
  IN IF right <= left \/ bottom <= top THEN <<>>
     ELSE <<Rectangle("f", Box(Points(left), Page(2) - Points(bottom),
                               Points(right), Page(2) - Points(top)))>>

\* write_retained_text_outlines
TextOps ==
  LET cells == FlattenSeq([i \in DOMAIN Glyphs |-> TextCell(Glyphs[i])])
  IN IF cells = <<>> THEN <<>> ELSE <<Save, FillInk(BlackInk)>> \o cells \o <<Restore>>

\* Mutant of ContentParts: text is written within the plot's clip.
ContentPartsInPlot ==
  <<BackgroundOps, OpenPlot, GridOps>>
    \o [s \in DOMAIN line.series |-> SeriesOps(s)] \o <<TextOps, <<Restore>>>>

\* build_content: text lies outside the plot and is written after its clip.
ContentParts ==
  <<BackgroundOps, OpenPlot, GridOps>>
    \o [s \in DOMAIN line.series |-> SeriesOps(s)] \o <<<<Restore>>, TextOps>>

-----------------------------------------------------------------------------
(* The file's objects *)

\* Mutant of SeriesObject: the grid's state, which came in before, is forgotten.
SeriesObjectUnshifted(s) == 5 + s

SeriesObject(s) == 6 + s
InfoObject == 7 + Len(line.series)

AlphaState(ink) == [type |-> "ExtGState", alpha |-> ink.alpha]

\* What is written under a number, and which number that is.
Objects ==
  <<[id |-> 1, body |-> [type |-> "Catalog", pages |-> 2]],
    [id |-> 2, body |-> [type |-> "Pages", kid |-> 3]],
    [id |-> 3, body |-> [type |-> "Page", contents |-> 4, background |-> 5, grid |-> 6,
                         series |-> [s \in DOMAIN line.series |-> SeriesObject(s)]]],
    [id |-> 4, body |-> [type |-> "Stream", length |-> SizeOf(pdf.content)]],
    [id |-> 5, body |-> AlphaState(line.sheet.background)],
    [id |-> 6, body |-> AlphaState(GridInk)]>>
    \o [s \in DOMAIN line.series |->
          [id |-> SeriesObject(s), body |-> AlphaState(line.sheet.style.ink)]]
    \o <<[id |-> InfoObject, body |-> [type |-> "Info"]]>>

BodySize(body) ==
  CASE body.type = "Catalog" -> 34
    [] body.type = "Pages" -> 42
    [] body.type = "Page" ->
         44 + NumberSize(Page(1)) + 1 + NumberSize(Page(2)) + 101 + 26
           + Total([s \in DOMAIN body.series |-> 8 + Digits(s - 1) + Digits(body.series[s])])
    [] body.type = "Stream" -> 22 + Digits(body.length) + body.length + 11
    [] body.type = "ExtGState" -> 24 + 8 + 5 + 8 + 4
    [] body.type = "Info" ->
         125 + NumberSize(line.sheet.perInch * Unit) + 16 + NumberSize(line.sheet.dpi * Unit) + 5

\* An object between its header and its footer.
ObjectSize(object) == Digits(object.id) + 7 + BodySize(object.body) + 7

HeaderSize == 20

\* Where the file's next part begins.
Length(file) == HeaderSize + Total([i \in DOMAIN file |-> ObjectSize(file[i])])

\* The cross references with the trailer, and where they begin.
TailSize(offsets, start) ==
  LET entries == Len(offsets) + 1
  IN 8 + Digits(entries) + 20 * entries + 44 + Digits(entries) + Digits(InfoObject)
       + 17 + Digits(start)

-----------------------------------------------------------------------------
(* The calls *)

ExportInit ==
  /\ line = Nothing
  /\ png = IdlePng
  /\ pdf = IdlePdf

Calling == png.stage = "painting" \/ pdf.stage \in {"content", "objects"}

\* resolve_line_frame
Resolve ==
  \E scene \in Scenes, sheet \in Sheets :
    LET layout == FrameLayout(sheet.runs, sheet.live, sheet.stamp)
        v == scene.viewport
    IN
    /\ line = Nothing /\ LayoutValid(v, scene.spec)
    /\ ~IsRefused(AxisTicks(v.minX, v.maxX)) /\ ~IsRefused(AxisTicks(v.minY, v.maxY))
    /\ ~IsRefused(layout)
    /\ line' = LineFrame(scene, sheet, layout)
    /\ UNCHANGED <<png, pdf>>

\* The owner drops the frame and what the sinks made of it.
Release ==
  /\ line # Nothing /\ ~Calling
  /\ line' = Nothing /\ png' = IdlePng /\ pdf' = IdlePdf

\* encode_line_frame_png: the plan, then the pixels.
StartPng ==
  /\ line # Nothing /\ ~Calling /\ png.stage = "idle"
  /\ png' = [png EXCEPT !.stage = IF PngPlan = "admitted" THEN "painting" ELSE PngPlan]
  /\ UNCHANGED <<line, pdf>>

\* The pixels are dropped with the error.
FailedPng(kind) == [stage |-> kind, painted |-> <<>>]

\* One mask made and composited, unless its stroke is refused.
PaintPass ==
  LET pass == Passes[Len(png.painted) + 1]
  IN /\ png.stage = "painting" /\ Len(png.painted) < Len(Passes)
     /\ \E result \in PassResults(pass) :
          png' = IF result = "mask" THEN [png EXCEPT !.painted = Append(@, pass)]
                 ELSE FailedPng(result)
     /\ UNCHANGED <<line, pdf>>

\* to_rgba8 and encode_png
EncodePng ==
  /\ png.stage = "painting" /\ Len(png.painted) = Len(Passes)
  /\ \E done \in {"delivered", "EncodingFailed"} : png' = [png EXCEPT !.stage = done]
  /\ UNCHANGED <<line, pdf>>

FailPng ==
  /\ png.stage = "painting"
  /\ png' = FailedPng("AllocationFailed")
  /\ UNCHANGED <<line, pdf>>

\* encode_line_frame_pdf: the plan, then the content's writer.
StartPdf ==
  /\ line # Nothing /\ ~Calling /\ pdf.stage = "idle"
  /\ pdf' = [pdf EXCEPT !.stage = IF PdfPlan = "admitted" THEN "content" ELSE PdfPlan]
  /\ UNCHANGED <<line, png>>

FailedPdf(kind) == [IdlePdf EXCEPT !.stage = kind]

\* build_content, as one step: nobody sees a part of it.  The writer holds the
\* limit, and the whole its estimate.
WriteContent ==
  LET content == FlattenSeq(ContentParts)
      kept == SizeOf(content) <= MaxOutput /\ SizeOf(content) <= ContentEstimate
  IN /\ pdf.stage = "content"
     /\ pdf' = IF kept THEN [pdf EXCEPT !.stage = "objects", !.content = content]
               ELSE FailedPdf("CapacityExceeded")
     /\ UNCHANGED <<line, png>>

\* The offset is noted, then the object written.
WriteObject ==
  LET object == Objects[Len(pdf.file) + 1]
  IN /\ pdf.stage = "objects" /\ Len(pdf.file) < Len(Objects)
     /\ pdf' = IF Length(Append(pdf.file, object)) <= MaxOutput
               THEN [pdf EXCEPT !.file = Append(@, object),
                                !.offsets = Append(@, Length(pdf.file))]
               ELSE FailedPdf("CapacityExceeded")
     /\ UNCHANGED <<line, png>>

\* write_xref: it has to have an entry for every object that was planned.
FinishPdf ==
  LET start == Length(pdf.file)
  IN /\ pdf.stage = "objects" /\ Len(pdf.file) = Len(Objects)
     /\ pdf' = IF Len(pdf.offsets) # ObjectCount THEN FailedPdf("Internal")
               ELSE IF start + TailSize(pdf.offsets, start) > MaxOutput
               THEN FailedPdf("CapacityExceeded")
               ELSE [pdf EXCEPT !.stage = "delivered"]
     /\ UNCHANGED <<line, png>>

FailPdf ==
  /\ pdf.stage \in {"content", "objects"}
  /\ pdf' = FailedPdf("AllocationFailed")
  /\ UNCHANGED <<line, png>>

ExportNext ==
  \/ Resolve \/ Release
  \/ StartPng \/ PaintPass \/ EncodePng \/ FailPng
  \/ StartPdf \/ WriteContent \/ WriteObject \/ FinishPdf \/ FailPdf

ExportSpec == ExportInit /\ [][ExportNext]_exportVars

-----------------------------------------------------------------------------
(* Properties *)

\* What the inductive proof of FileResolves holds on to: a frame's parts are
\* sequences, a page's content is what the frame asks for, and a file is a prefix
\* of its objects with an offset for each.
WholeFrame(frame) ==
  /\ IsSequence(frame.series)
  /\ \A s \in DOMAIN frame.series :
       /\ IsSequence(frame.series[s])
       /\ \A i \in DOMAIN frame.series[s] : IsSequence(frame.series[s][i])
  /\ IsSequence(frame.xTicks) /\ IsSequence(frame.yTicks)
  /\ IsSequence(frame.layout.runs)
  /\ \A r \in DOMAIN frame.layout.runs : IsSequence(frame.layout.runs[r].glyphs)
  /\ IsSequence(frame.layout.marks)
  /\ {frame.canvas[1], frame.canvas[2], frame.plot.x0, frame.plot.y0,
      frame.plot.x1, frame.plot.y1} \subseteq Int
  /\ frame.sheet \in Sheets

FrameIsWhole == line # Nothing => WholeFrame(line)

FileGrows ==
  /\ DOMAIN pdf = {"stage", "content", "file", "offsets"}
  /\ pdf.stage \in {"content", "objects", "delivered"} => line # Nothing
  /\ pdf.stage \in {"objects", "delivered"} =>
       /\ pdf.content = FlattenSeq(ContentParts)
       /\ Len(pdf.file) \in 0 .. Len(Objects)
       /\ pdf.file = SubSeq(Objects, 1, Len(pdf.file))
       /\ IsSequence(pdf.offsets) /\ Len(pdf.offsets) = Len(pdf.file)
       /\ \A n \in 1 .. Len(pdf.file) : pdf.offsets[n] = Length(SubSeq(pdf.file, 1, n - 1))
  /\ pdf.stage \in {"idle", "content"} => pdf.file = <<>> /\ pdf.offsets = <<>>
  /\ pdf.stage = "delivered" => Len(pdf.file) = Len(Objects)

ExportIInv == FrameIsWhole /\ FileGrows

\* A stroke of a curve or a mark so fine, or for this picture so broad, that it is
\* its own cause to be refused.
MayBeRefused(pass) ==
  /\ pass.pass \in {"series", "annotations"} /\ pass.lines # <<>>
  /\ IsFine(pass) \/ \E k \in {1, 2} : Side(k) * Unit + 3 * pass.width > PathBound

\* What the proof of the next two adds: a sink's stage says what its plan and the
\* frame's strokes say, and nothing is painted but passes of an admitted picture
\* whose strokes have been made.
SinksFollowPlans ==
  /\ line = Nothing => png = IdlePng /\ pdf = IdlePdf
  /\ DOMAIN png = {"stage", "painted"} /\ IsSequence(png.painted)
  /\ png.stage = "painting" \/ png.painted # <<>> =>
       /\ line # Nothing /\ PngPlan = "admitted" /\ ToSet(png.painted) \subseteq ToSet(Passes)
       /\ \A pass \in ToSet(png.painted) : "mask" \in PassResults(pass)
  /\ png.stage \in {"InvalidInput", "CapacityExceeded", "Internal"} =>
       PngPlan # "admitted" \/ \E pass \in ToSet(Passes) : MayBeRefused(pass)
  /\ pdf.stage \in {"content", "objects", "delivered"} => PdfPlan = "admitted"
  /\ pdf.stage \in {"InvalidInput", "CapacityExceeded", "Internal"} => PdfPlan # "admitted"

\* A file that was admitted fails for want of memory alone: what is written keeps
\* within what was planned, so no export is refused when it is half done, and a
\* file is no longer than the estimate.
PlannedFilesSucceed ==
  /\ pdf.stage \in {"InvalidInput", "CapacityExceeded", "Internal"} => PdfPlan # "admitted"
  /\ pdf.stage = "delivered" =>
       LET start == Length(pdf.file)
       IN start + TailSize(pdf.offsets, start) <= OutputEstimate

\* An admitted picture is refused for a stroke of its curves or marks alone, which
\* is so broad that with the picture's side it may pass the bound of paths, or so
\* fine that it may be none: never for the grid, the text or where anything was
\* put.  And none is delivered without a stroke that cannot be drawn: what was
\* painted was no broader than an outline can be, and from what lies on the picture.
StrokesAreDrawnOrRefused ==
  /\ /\ png.stage \in {"InvalidInput", "CapacityExceeded", "Internal"}
     /\ PngPlan = "admitted"
     => \E pass \in ToSet(Passes) : MayBeRefused(pass)
  /\ \A pass \in ToSet(png.painted) :
       /\ pass.lines # <<>> => pass.width \in 1 .. (3 * PathBound)
       /\ \A path \in ToSet(pass.lines) :
            \A p \in ToSet(path) : p.x \in 0 .. CanvasClip.right /\ p.y \in 0 .. CanvasClip.bottom
       /\ \A box \in ToSet(pass.boxes) : Within(box, CanvasClip)

\* Whoever reads a delivered file finds every object: each number belongs to one
\* object, its cross reference points at where that begins, the references from
\* the trailer down reach objects of the right kind, the stream is as long as it
\* says, and every state the content asks for by name is a graphics state.
FileResolves ==
  pdf.stage = "delivered" =>
    LET numbers == 1 .. Len(pdf.offsets)
        At(n) == CHOOSE i \in DOMAIN pdf.file : pdf.file[i].id = n
        Is(n, type) == pdf.file[At(n)].body.type = type
        page == pdf.file[At(3)].body
    IN /\ \A n \in numbers :
            /\ \E i \in DOMAIN pdf.file : pdf.file[i].id = n
            /\ pdf.offsets[n] = Length(SubSeq(pdf.file, 1, At(n) - 1))
       /\ \A i, j \in DOMAIN pdf.file : pdf.file[i].id = pdf.file[j].id => i = j
       /\ Is(1, "Catalog") /\ Is(2, "Pages") /\ Is(3, "Page")
       /\ Is(InfoObject, "Info")
       /\ Is(page.contents, "Stream")
       /\ pdf.file[At(page.contents)].body.length = SizeOf(pdf.content)
       /\ \A o \in ToSet(pdf.content) :
            o.op = "gs" =>
              Is(IF o.series > 0 THEN page.series[o.series]
                 ELSE IF o.name = "GRID" THEN page.grid ELSE page.background,
                 "ExtGState")

\* How a viewer paints a content stream: the graphics state it carries along,
\* the states it saved, the path it is on and what it has painted.
Fresh ==
  [clip |-> Box(0, 0, Page(1), Page(2)), name |-> "none", alpha |-> 255,
   fill |-> "black", stroke |-> "black", width |-> Unit]

AlphaOf(o) ==
  LET page == pdf.file[3].body
      n == IF o.series > 0 THEN page.series[o.series]
           ELSE IF o.name = "GRID" THEN page.grid ELSE page.background
      objects == {object \in ToSet(pdf.file) : object.id = n}
  IN (CHOOSE object \in objects : TRUE).body.alpha

\* Back from the page's axis to the picture's.
Turned(o) == Box(o.x, Page(2) - o.y - o.height, o.x + o.width, Page(2) - o.y)
TurnedPath(path) == [k \in DOMAIN path |-> [x |-> path[k].x, y |-> Page(2) - path[k].y]]

\* A box by two of its corners.
Corners(box) == <<[x |-> box.left, y |-> box.top], [x |-> box.right, y |-> box.bottom]>>

\* The box around a path; of a line parallel to an axis, that line.
Span(path) ==
  LET xs == {p.x : p \in ToSet(path)}
      ys == {p.y : p \in ToSet(path)}
  IN Corners(Box(Min(xs), Min(ys), Max(xs), Max(ys)))

\* The hairlines of the grid have a breadth and a direction of their own in each
\* sink.
Paint(kind, state, shape) ==
  [kind |-> kind, name |-> state.name, clip |-> state.clip, alpha |-> state.alpha,
   shape |-> IF state.name = "GRID" THEN Span(shape) ELSE shape,
   rgb |-> IF kind = "fill" THEN state.fill ELSE state.stroke,
   width |-> IF kind = "fill" \/ state.name = "GRID" THEN 0 ELSE state.width]

View(view, o) ==
  CASE o.op = "q" -> [view EXCEPT !.saved = Append(@, view.now)]
    [] o.op = "Q" -> [view EXCEPT !.now = Last(view.saved), !.saved = Front(@)]
    [] o.op = "gs" -> [view EXCEPT !.now.name = o.name, !.now.alpha = AlphaOf(o)]
    [] o.op = "rg" -> [view EXCEPT !.now.fill = o.rgb]
    [] o.op = "RG" -> [view EXCEPT !.now.stroke = o.rgb]
    [] o.op = "w" -> [view EXCEPT !.now.width = o.width]
    [] o.op = "W" -> [view EXCEPT !.now.clip = Turned(o)]
    [] o.op = "m" -> [view EXCEPT !.path = <<o.at>>]
    [] o.op = "l" -> [view EXCEPT !.path = Append(@, o.at)]
    [] o.op = "S" -> [view EXCEPT !.painted =
                        Append(@, Paint("stroke", view.now, TurnedPath(view.path)))]
    [] o.op = "f" -> [view EXCEPT !.painted = Append(@, Paint("fill", view.now, Corners(Turned(o))))]
    [] o.op = "page" -> [view EXCEPT !.painted =
                           Append(@, Paint("fill", view.now, Corners(Box(0, 0, o.width, o.height))))]

ViewedPage ==
  FoldLeft(View, [now |-> Fresh, saved |-> <<>>, path |-> <<>>, painted |-> <<>>],
           pdf.content).painted

\* A line parallel to an axis, where it is within a clip.
CutLine(path, clip) ==
  [k \in DOMAIN path |->
     [x |-> Max({clip.left, Min({path[k].x, clip.right})}),
      y |-> Max({clip.top, Min({path[k].y, clip.bottom})})]]

\* The picture as a page: the background, then each line and box of its passes.
PaintedPicture ==
  LET Named(p) == CASE p.pass = "grid" -> "GRID" [] p.pass = "series" -> "L" [] OTHER -> "none"
      State(p) == [name |-> Named(p), clip |-> p.clip, alpha |-> p.ink.alpha,
                   fill |-> p.ink.rgb, stroke |-> p.ink.rgb, width |-> p.width]
      Kept(p) == IF p.pass # "grid" THEN p.lines
                 ELSE SelectSeq(p.lines, LAMBDA l :
                        LET cut == CutLine(l, p.clip)
                        IN \/ cut[1].x = l[1].x /\ cut[2].x = l[2].x /\ l[1].x = l[2].x
                           \/ cut[1].y = l[1].y /\ cut[2].y = l[2].y /\ l[1].y = l[2].y)
      Shape(p, l) == IF p.pass = "grid" THEN CutLine(l, p.clip) ELSE l
      Painted(p) == [i \in DOMAIN Kept(p) |-> Paint("stroke", State(p), Shape(p, Kept(p)[i]))]
                      \o [i \in DOMAIN p.boxes |-> Paint("fill", State(p), Corners(p.boxes[i]))]
      background == [Fresh EXCEPT !.name = "BG", !.alpha = line.sheet.background.alpha,
                                  !.fill = line.sheet.background.rgb]
  IN <<Paint("fill", background, Corners(Box(0, 0, Page(1), Page(2))))>>
       \o FlattenSeq([i \in DOMAIN png.painted |->
                        IF png.painted[i].pass = "annotations" THEN <<>>
                        ELSE Painted(png.painted[i])])

\* A picture of one pixel to the point and the page show the same frame: the
\* same lines and boxes in the same order, each in the same place, colour,
\* transparency and clip, and as broad.  Annotations are the picture's only, and
\* the grid's hairlines and the ends of lines each sink's own.
SinksAgree ==
  png.stage = "delivered" /\ pdf.stage = "delivered" /\ line.sheet.dpi = 72 =>
    PaintedPicture = SelectSeq(ViewedPage, LAMBDA paint : HasLength(paint.shape))

\* Whether a position on the picture is within a filled box or on a line.
Inked(boxes, paths, at) ==
  \/ \E box \in ToSet(boxes) :
       /\ box.left < at.x /\ at.x < box.right
       /\ box.top < at.y /\ at.y < box.bottom
  \/ \E path \in ToSet(paths) :
       \E k \in 1 .. (Len(path) - 1) : Between(path[k], path[k + 1], at)

\* The pointer finds what the picture shows: on the ink of an annotation it finds
\* one of the same space, and none whose ink is there too lies above that one; on
\* a glyph of a legend it finds an entry, of which no glyph of an earlier one covers
\* the place, and tells whether that one is hidden.  A scene with annotations of its
\* own shows all of them and nothing of the fixture.
ShownIsFound ==
  png.stage = "delivered" =>
    LET layout == line.layout
        marks == layout.marks
        legend == SelectSeq(layout.runs,
                            LAMBDA run : run.role = "LegendEntry" /\ run.glyphs # <<>>)
        cells == [e \in DOMAIN legend |->
                    FlattenSeq([i \in DOMAIN legend[e].glyphs |->
                      GlyphCell([x |-> Unit * legend[e].glyphs[i].x,
                                 y |-> Unit * legend[e].glyphs[i].y])])]
        hidden == [e \in DOMAIN legend |-> e % 2 = 0]
    IN /\ line.sheet.live # <<>> => {m.id : m \in ToSet(marks)} = DOMAIN line.sheet.live
       /\ \A x \in -1 .. (line.canvas[1] + 1), y \in -1 .. (line.canvas[2] + 1) :
            LET p == [x |-> x, y |-> y]
                at == [x |-> Pixels(Unit * x), y |-> Pixels(Unit * y)]
            IN /\ \A space \in MarkSpaces :
                    LET shown == {i \in DOMAIN marks :
                                    /\ marks[i].space = space
                                    /\ Inked(MarkBoxes(marks[i]), MarkLines(marks[i]), at)}
                        found == HitAnnotation(layout, space, p, line.sheet.stamp)
                    IN shown # {} =>
                         \E i \in DOMAIN marks :
                           /\ found = [hit |-> TRUE, id |-> marks[i].id,
                                       kind |-> marks[i].shape.kind]
                           /\ marks[i].space = space
                           /\ \A j \in shown : \/ marks[j].z < marks[i].z
                                               \/ marks[j].z = marks[i].z /\ j <= i
               /\ LET shown == {e \in DOMAIN legend : Inked(cells[e], <<>>, at)}
                      found == HitLegendEntry(layout, p, {hidden}, line.sheet.stamp)
                  IN shown # {} =>
                       \E e \in DOMAIN legend :
                         /\ found = [hit |-> TRUE, entry |-> e, hidden |-> hidden[e]]
                         /\ \A other \in shown : e <= other
=============================================================================
