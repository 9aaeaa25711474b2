----------------------------- MODULE Annotations -----------------------------
(***************************************************************************)
(* The layout a frame carries and what the pointer finds on it:            *)
(* crates/lumenplot-engine/src, text.rs and scene/annotation_slice.rs.     *)
(*                                                                         *)
(* A layout holds shaped runs of text and retained annotations, stamped    *)
(* with the revisions of the scene it was made for.  A scene without       *)
(* annotations of its own carries a fixture; otherwise its live            *)
(* annotations are mirrored into the layout of every frame.                *)
(*                                                                         *)
(* Coordinates are whole logical units, the finite numbers; what is not    *)
(* one is not finite.  Sums of them never leave the range, so the branches *)
(* for those are left out.  A text is its length in ASCII characters and a *)
(* font is whether it is valid.  A digest is what it is computed from, and *)
(* memory never runs out.                                                  *)
(***************************************************************************)
EXTENDS EngineFrames

CONSTANTS
  FixtureMarks,   \* the annotations of PlotLayout::fixture
  MaxRetained,    \* MAX_RETAINED_ANNOTATIONS
  HitHalfWidth    \* ANNOTATION_LINE_HIT_HALF_WIDTH

ASSUME AnnotationAssumption ==
  /\ MaxRetained \in Nat /\ HitHalfWidth \in Nat
  /\ FixtureMarks \in Seq(ToSet(FixtureMarks))

MarkKinds  == {"Text", "Line", "Arrow", "Rectangle"}
MarkSpaces == {"Data2D", "AxesLogical", "FigureLogical", "DisplayLogical"}
Identity   == <<1, 0, 0, 0, 1, 0>>
NoHit      == [hit |-> FALSE]

Box(left, top, right, bottom) ==
  [left |-> left, top |-> top, right |-> right, bottom |-> bottom]

Encloses(box, p) ==
  box.left <= p.x /\ p.x <= box.right /\ box.top <= p.y /\ p.y <= box.bottom

\* The smallest box around some points.
Around(points) ==
  LET xs == {p.x : p \in points}
      ys == {p.y : p \in points}
  IN Box(Min(xs), Min(ys), Max(xs), Max(ys))

-----------------------------------------------------------------------------
(* Annotations *)

\* A text has a centre and half extents, a rectangle two corners, a line and an
\* arrow the ends of a shaft.
ShapeValid(shape) ==
  \/ /\ shape.kind = "Text"
     /\ {shape.at, shape.half} \subseteq Values
     /\ shape.half.x > 0 /\ shape.half.y > 0
  \/ /\ shape.kind = "Line"
     /\ {shape.from, shape.to} \subseteq Values /\ shape.from # shape.to
  \/ /\ shape.kind = "Arrow"
     /\ {shape.from, shape.to} \subseteq Values /\ shape.head \in Int
     /\ shape.from # shape.to /\ shape.head > 0
  \/ /\ shape.kind = "Rectangle"
     /\ {shape.from, shape.to} \subseteq Values
     /\ shape.from.x < shape.to.x /\ shape.from.y < shape.to.y

\* AnnotationTransform::is_valid
Affine == [1 .. 6 -> Int]

\* AnnotationShape::local_bounds
LocalBounds(shape) ==
  IF shape.kind = "Text"
  THEN Box(shape.at.x - shape.half.x, shape.at.y - shape.half.y,
           shape.at.x + shape.half.x, shape.at.y + shape.half.y)
  ELSE LET box == Around({shape.from, shape.to})
           widened == IF shape.kind = "Arrow" THEN shape.head ELSE 0
       IN Box(box.left - widened, box.top - widened,
              box.right + widened, box.bottom + widened)

\* RetainedAnnotation::new
Retain(id, space, shape, transform, clip, style, z) ==
  IF 0 \in {id, clip, style} \/ ~ShapeValid(shape) \/ transform \notin Affine
  THEN Refused("InvalidInput")
  ELSE [id |-> id, space |-> space, shape |-> shape, transform |-> transform,
        bounds |-> LocalBounds(shape), clip |-> clip, style |-> style, z |-> z]

MarkValid(mark) ==
  /\ 0 \notin {mark.id, mark.clip, mark.style}
  /\ ShapeValid(mark.shape)
  /\ mark.transform \in Affine
  /\ mark.bounds = LocalBounds(mark.shape)

\* AnnotationTransform::apply
Moved(t, p) == [x |-> t[1] * p.x + t[2] * p.y + t[3], y |-> t[4] * p.x + t[5] * p.y + t[6]]

\* transformed_geometry: the box around the moved corners of the stored one.
MarkGeometry(mark) ==
  Around({Moved(mark.transform, [x |-> x, y |-> y]) :
            x \in {mark.bounds.left, mark.bounds.right},
            y \in {mark.bounds.top, mark.bounds.bottom}})

\* distance_to_segment, against the fixed half width of a shaft; a transform may
\* have made a point of it.
NearShaft(p, a, b) ==
  LET dx == b.x - a.x
      dy == b.y - a.y
      along == (p.x - a.x) * dx + (p.y - a.y) * dy
      squared == dx * dx + dy * dy
      across == (p.x - a.x) * dy - (p.y - a.y) * dx
  IN IF squared = 0 \/ along <= 0 THEN Distance(p, a) <= HitHalfWidth * HitHalfWidth
     ELSE IF along >= squared THEN Distance(p, b) <= HitHalfWidth * HitHalfWidth
     ELSE across * across <= HitHalfWidth * HitHalfWidth * squared

\* hit_test: a text and a rectangle by their box, the others by their shaft.
MarkHit(mark, p) ==
  IF mark.shape.kind \in {"Text", "Rectangle"} THEN Encloses(MarkGeometry(mark), p)
  ELSE NearShaft(p, Moved(mark.transform, mark.shape.from),
                 Moved(mark.transform, mark.shape.to))

-----------------------------------------------------------------------------
(* Layouts *)

\* Where a cluster begins in the text never goes back.
ClustersValid(run) ==
  /\ Len(run.clusters) = Len(run.ids)
  /\ \A i \in 1 .. (Len(run.clusters) - 1) : run.clusters[i] <= run.clusters[i + 1]
  /\ \A i \in DOMAIN run.clusters : run.clusters[i] <= run.text

RunValid(run) ==
  /\ run.text > 0
  /\ ClustersValid(run)
  /\ Len(run.ids) = Len(run.glyphs)
  /\ ToSet(run.glyphs) \subseteq Values
  /\ 0 \notin ToSet(run.ids) \cup {run.clip, run.style}
  /\ run.font

\* ShapedRun::new; the glyphs are where they stand.
ShapedRun(role, text, clusters, ids, glyphs, font, clip, style) ==
  LET run == [role |-> role, text |-> text, clusters |-> clusters, ids |-> ids,
              glyphs |-> glyphs, font |-> font, clip |-> clip, style |-> style]
  IN IF RunValid(run) THEN run ELSE Refused("InvalidInput")

\* canonical_digest
Digest(runs, marks) == <<runs, marks>>

\* PlotLayout::from_runs
FromRuns(runs, marks, stamp) ==
  IF runs = <<>> THEN Refused("InvalidInput")
  ELSE IF Len(marks) > MaxRetained THEN Refused("CapacityExceeded")
  ELSE [runs |-> runs, marks |-> marks, stamp |-> stamp, digest |-> Digest(runs, marks)]

Mirrors(mark) ==
  /\ mark.shape.kind \in MarkKinds
  /\ mark.space \in MarkSpaces
  /\ mark.transform = Identity

\* PlotLayout::from_live_parts
FromLiveParts(runs, marks, stamp) ==
  IF \E mark \in ToSet(marks) : ~Mirrors(mark) THEN Refused("InvalidInput")
  ELSE FromRuns(runs, marks, stamp)

\* PlotLayout::fixture
FixtureLayout(runs) == FromRuns(runs, FixtureMarks, [font |-> 0, layout |-> 0])

WithLayoutRevision(layout, revision) ==
  [layout EXCEPT !.stamp = [layout.stamp EXCEPT !.layout = revision]]

\* What SceneState carries: the fixture, stamped anew at every change of data or
\* view.  Nothing changes the revision of the font.
CarriedLayout(runs, revision) ==
  IF IsRefused(FixtureLayout(runs)) THEN FixtureLayout(runs)
  ELSE WithLayoutRevision(FixtureLayout(runs), revision)

IdsAreUnique(marks) == \A i, j \in DOMAIN marks : marks[i].id = marks[j].id => i = j

\* PlotLayout::validate
LayoutIsValid(layout) ==
  /\ layout.runs # <<>>
  /\ \A run \in ToSet(layout.runs) : RunValid(run)
  /\ \A mark \in ToSet(layout.marks) : MarkValid(mark)
  /\ IdsAreUnique(layout.marks)
  /\ layout.digest = Digest(layout.runs, layout.marks)

\* PlotLayout::validate_for_generation
IsOfGeneration(layout, stamp) == layout.stamp = stamp /\ LayoutIsValid(layout)

\* live_rectangle_layout: in the order of the identities.
MirroredMarks(live) ==
  FlattenSeq([id \in 1 .. Max(DOMAIN live) |->
                IF id \in DOMAIN live THEN IF Mirrors(live[id]) THEN <<live[id]>> ELSE <<>>
                ELSE <<>>])

\* What resolve_line_frame gives a frame to carry.
FrameLayout(runs, live, stamp) ==
  LET carried == CarriedLayout(runs, stamp.layout)
  IN IF IsRefused(carried) THEN carried
     ELSE IF DOMAIN live = {}
     THEN IF IsOfGeneration(carried, stamp) THEN carried ELSE Refused("Internal")
     ELSE IF Len(MirroredMarks(live)) > MaxRetained THEN Refused("CapacityExceeded")
     ELSE FromLiveParts(runs, MirroredMarks(live), stamp)

-----------------------------------------------------------------------------
(* The pointer *)

\* Mutant of Topmost: the first of those painted last.
TopmostEarliest(marks, hits) ==
  CHOOSE i \in hits : \A j \in hits : marks[j].z < marks[i].z \/ (marks[j].z = marks[i].z /\ i <= j)

\* The highest paint order, and among equals the later in the layout.
Topmost(marks, hits) ==
  CHOOSE i \in hits : \A j \in hits : marks[j].z < marks[i].z \/ (marks[j].z = marks[i].z /\ j <= i)

\* PlotLayout::hit_annotation
HitAnnotation(layout, space, p, stamp) ==
  LET marks == layout.marks
      hits == {i \in DOMAIN marks : marks[i].space = space /\ MarkHit(marks[i], p)}
  IN IF p = NotFinite THEN Refused("InvalidInput")
     ELSE IF ~IsOfGeneration(layout, stamp) THEN Refused("Internal")
     ELSE IF hits = {} THEN NoHit
     ELSE [hit |-> TRUE, id |-> marks[Topmost(marks, hits)].id,
           kind |-> marks[Topmost(marks, hits)].shape.kind]

\* Every glyph of the fixture is a cell of five by seven units.
GlyphBox(p) == Box(p.x, p.y, p.x + 5, p.y + 7)

\* legend_entry_geometry: for each legend run the box around its cells, and none
\* for one that has no glyphs.
LegendBoxes(layout) ==
  LET entries == SelectSeq(layout.runs,
                           LAMBDA run : run.role = "LegendEntry" /\ run.glyphs # <<>>)
      Corners(p) == {p, [x |-> GlyphBox(p).right, y |-> GlyphBox(p).bottom]}
  IN [e \in DOMAIN entries |-> Around(UNION {Corners(p) : p \in ToSet(entries[e].glyphs)})]

\* PlotLayout::hit_legend_entry: the earliest entry.  The caller may say which
\* entries are hidden: flags has what it says, one for each, or nothing.
HitLegendEntry(layout, p, flags, stamp) ==
  LET boxes == LegendBoxes(layout)
      hits == {e \in DOMAIN boxes : Encloses(boxes[e], p)}
  IN IF p = NotFinite THEN Refused("InvalidInput")
     ELSE IF ~IsOfGeneration(layout, stamp) THEN Refused("Internal")
     ELSE IF \E hidden \in flags : Len(hidden) # Len(boxes) THEN Refused("InvalidInput")
     ELSE IF hits = {} THEN NoHit
     ELSE [hit |-> TRUE, entry |-> Min(hits),
           hidden |-> \E hidden \in flags : hidden[Min(hits)]]
=============================================================================
