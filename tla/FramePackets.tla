---------------------------- MODULE FramePackets ----------------------------
(***************************************************************************)
(* The boundary between the engine and a renderer:                         *)
(* crates/lumenplot-render-api/src/frame.rs and packet.rs.                 *)
(*                                                                         *)
(* A frame is what the engine resolved for one specification: a canvas, a  *)
(* plot rectangle, line series cut into segments, and optionally filled    *)
(* shapes and three-dimensional shapes.  The packet builder checks a frame *)
(* and adds resources and one draw per segment; the packet also names the  *)
(* scene, the work and the device it was made for and is checked against   *)
(* them again before it is painted.                                        *)
(*                                                                         *)
(* Coordinates are whole pixels (FrameSpec takes whole pixels and one      *)
(* logical unit per pixel).  A coordinate that is not finite fails the     *)
(* same test as one outside the canvas, so none is modelled, except in     *)
(* three dimensions, where it means a gap (NotDrawn).                      *)
(***************************************************************************)
EXTENDS Integers, FiniteSetsExt, SequencesExt

CONSTANTS
  MaxDimension,   \* MAX_FRAME_DIMENSION
  MaxPixels,      \* MAX_FRAME_PIXELS
  MaxSeries,      \* MAX_FRAME_SERIES, in the renderer MAX_PACKET_SERIES
  MaxSegments,    \* MAX_PACKET_SEGMENTS, here and in the renderer
  MaxPoints,      \* MAX_PACKET_POINTS, here and in the renderer
  MaxDraws,       \* MAX_PACKET_DRAWS
  MaxResources,   \* MAX_PACKET_RESOURCES
  MaxLineWidth    \* MAX_PACKET_LINE_WIDTH

ASSUME FrameAssumption ==
  /\ {MaxDimension, MaxPixels, MaxSeries, MaxSegments, MaxPoints, MaxDraws,
      MaxResources, MaxLineWidth} \subseteq Nat \ {0}
  /\ MaxSegments <= MaxDraws

NoFillBar == [fills |-> <<>>, bars |-> <<>>, order |-> <<>>]
NoThreeD == [lines |-> <<>>, triangles |-> <<>>, order |-> <<>>]
NoEdge == 0   \* the width of an edge that is not drawn

Check(fails, error) == IF fails THEN error ELSE "Ok"

\* The first of the outcomes that is an error.
FirstError(outcomes) ==
  LET failed == {i \in DOMAIN outcomes : outcomes[i] # "Ok"}
  IN IF failed = {} THEN "Ok" ELSE outcomes[Min(failed)]

-----------------------------------------------------------------------------
(* What the constructors let through *)

Holds(rect, canvas) ==
  /\ 0 <= rect.x0 /\ rect.x0 < rect.x1 /\ rect.x1 <= canvas[1]
  /\ 0 <= rect.y0 /\ rect.y0 < rect.y1 /\ rect.y1 <= canvas[2]

SizeSupported(canvas) ==
  /\ canvas[1] \in 1 .. MaxDimension /\ canvas[2] \in 1 .. MaxDimension
  /\ canvas[1] * canvas[2] <= MaxPixels

\* FrameSpec::new sets no upper bound on the line width, the packet does.
SpecAccepted(spec) ==
  /\ spec.dpi > 0
  /\ SizeSupported(spec.canvas)
  /\ Holds(spec.plot, spec.canvas)
  /\ spec.width > 0

IsPermutation(order, slots) ==
  /\ Len(order) = Cardinality(slots)
  /\ ToSet(order) = slots

PaintSlots(fills, bars) ==
  {[family |-> "Fill", index |-> i] : i \in DOMAIN fills} \cup
  {[family |-> "Bar", index |-> i] : i \in DOMAIN bars}

FillBarAccepted(shapes) ==
  /\ \A i \in DOMAIN shapes.fills : Len(shapes.fills[i].points) >= 3
  /\ IsPermutation(shapes.order, PaintSlots(shapes.fills, shapes.bars))

NotDrawn == [drawn |-> FALSE]

\* A line in space: the segments are the ranges of samples that are drawn.
SpaceLineAccepted(line) ==
  LET Drawn(k) == line.projected[k + 1] # NotDrawn
      Covered == UNION {s.start .. (s.end - 1) : s \in ToSet(line.segments)}
  IN /\ \A i \in DOMAIN line.segments :
          /\ line.segments[i].start < line.segments[i].end
          /\ line.segments[i].end <= Len(line.projected)
          /\ i > 1 => line.segments[i - 1].end <= line.segments[i].start
     /\ Covered = {k \in 0 .. (Len(line.projected) - 1) : Drawn(k)}

ThreeDAccepted(shapes) ==
  /\ \A i \in DOMAIN shapes.lines : SpaceLineAccepted(shapes.lines[i])
  /\ IsPermutation(shapes.order, DOMAIN shapes.triangles)

-----------------------------------------------------------------------------
(* Checking a frame *)

OnCanvas(p, canvas) == p.x \in 0 .. canvas[1] /\ p.y \in 0 .. canvas[2]

AllOnCanvas(points, canvas) == \A i \in DOMAIN points : OnCanvas(points[i], canvas)

GeometryValid(frame) ==
  /\ frame.canvas[1] \in 1 .. MaxDimension /\ frame.canvas[2] \in 1 .. MaxDimension

MetadataValid(frame) ==
  /\ frame.logical = frame.canvas
  /\ Holds(frame.plot, frame.canvas)
  /\ frame.dpi > 0
  /\ frame.width \in 1 .. MaxLineWidth

ThreeDOnCanvas(frame) ==
  /\ \A i \in DOMAIN frame.threeD.lines :
       \A p \in ToSet(frame.threeD.lines[i].projected) \ {NotDrawn} :
         OnCanvas(p, frame.canvas)
  /\ \A i \in DOMAIN frame.threeD.triangles :
       AllOnCanvas(frame.threeD.triangles[i], frame.canvas)

\* The running totals of a walk through the line series, with its first error.
AfterSegment(canvas, total, segment) ==
  IF total.error # "Ok" THEN total
  ELSE IF segment = <<>> THEN [total EXCEPT !.error = "InvalidDrawRange"]
  ELSE IF total.points + Len(segment) > MaxPoints
  THEN [total EXCEPT !.error = "CapacityExceeded"]
  ELSE IF ~AllOnCanvas(segment, canvas)
  THEN [total EXCEPT !.error = "FrameInvalid"]
  ELSE [total EXCEPT !.points = @ + Len(segment)]

AfterSeries(canvas, total, segments) ==
  IF total.error # "Ok" THEN total
  ELSE IF total.segments + Len(segments) > MaxSegments
  THEN [total EXCEPT !.error = "CapacityExceeded"]
  ELSE FoldLeft(LAMBDA t, s : AfterSegment(canvas, t, s),
                [total EXCEPT !.segments = @ + Len(segments)], segments)

Totals(frame) ==
  FoldLeft(LAMBDA t, s : AfterSeries(frame.canvas, t, s),
           [error |-> "Ok", points |-> 0, segments |-> 0], frame.series)

FillPoints(shapes) ==
  FoldLeft(LAMBDA n, fill : n + Len(fill.points), 0, shapes.fills)

FillBarOnCanvas(frame) ==
  /\ \A i \in DOMAIN frame.fillBar.fills :
       AllOnCanvas(frame.fillBar.fills[i].points, frame.canvas)
  /\ \A i \in DOMAIN frame.fillBar.bars :
       LET rect == frame.fillBar.bars[i].rect
       IN /\ OnCanvas([x |-> rect.x0, y |-> rect.y0], frame.canvas)
          /\ OnCanvas([x |-> rect.x1, y |-> rect.y1], frame.canvas)

\* Filled shapes count as primitives of their own and share the points.
FillBarError(frame, linePoints) ==
  FirstError(<<
    Check(~FillBarOnCanvas(frame), "FrameInvalid"),
    Check(Len(frame.fillBar.fills) + Len(frame.fillBar.bars) > MaxSegments,
      "CapacityExceeded"),
    Check(linePoints + FillPoints(frame.fillBar) > MaxPoints, "CapacityExceeded")>>)

FrameError(frame) ==
  LET totals == Totals(frame)
  IN FirstError(<<
       Check(~GeometryValid(frame), "FrameInvalid"),
       Check(frame.canvas[1] * frame.canvas[2] > MaxPixels, "CapacityExceeded"),
       Check(~MetadataValid(frame), "FrameInvalid"),
       Check(frame.text # frame.layout, "FrameInvalid"),
       Check(~ThreeDOnCanvas(frame), "FrameInvalid"),
       Check(Len(frame.series) > MaxSeries, "CapacityExceeded"),
       totals.error,
       FillBarError(frame, totals.points)>>)

-----------------------------------------------------------------------------
(* The packet: resources, draws and the generations it is good for *)

ClipId == [slot |-> 1, generation |-> 1]
StyleId == [slot |-> 2, generation |-> 1]

ResourcesOf(frame) ==
  [clips |-> <<[id |-> ClipId, bounds |-> frame.plot]>>,
   styles |-> <<[id |-> StyleId, width |-> frame.width]>>]

IdsOf(resources) == [i \in DOMAIN resources |-> resources[i].id]

ResourceError(resources, frame) ==
  LET ids == IdsOf(resources.clips) \o IdsOf(resources.styles)
  IN FirstError(<<
       Check(Len(ids) > MaxResources, "CapacityExceeded"),
       Check(\/ \E i \in DOMAIN ids : ids[i].slot = 0 \/ ids[i].generation = 0
             \/ Cardinality(ToSet(ids)) # Len(ids), "InvalidResourceId"),
       Check(\/ resources.clips = <<>> \/ resources.styles = <<>>
             \/ \E i \in DOMAIN resources.clips : ~Holds(resources.clips[i].bounds, frame.canvas)
             \/ \E i \in DOMAIN resources.styles :
                  resources.styles[i].width \notin 1 .. MaxLineWidth,
             "InvalidResourceReference"),
       Check(\/ resources.clips[1].bounds # frame.plot
             \/ resources.styles[1].width # frame.width, "InvalidResourceReference")>>)

DrawsOf(frame) ==
  LET DrawsOfSeries(s) ==
        [g \in DOMAIN frame.series[s] |->
           [series |-> s, segment |-> g, start |-> 0, end |-> Len(frame.series[s][g]),
            clip |-> ClipId, style |-> StyleId]]
  IN FlattenSeq([s \in DOMAIN frame.series |-> DrawsOfSeries(s)])

Precedes(a, b) ==
  \/ a.series < b.series
  \/ a.series = b.series /\ a.segment < b.segment

Exists(frame, draw) ==
  /\ draw.series \in DOMAIN frame.series
  /\ draw.segment \in DOMAIN frame.series[draw.series]

DrawsError(frame, resources, draws) ==
  FirstError(<<
    Check(Len(draws) # Totals(frame).segments, "IncompletePacket"),
    Check(\/ \E i \in DOMAIN draws : ~Exists(frame, draws[i])
          \/ \E i \in 2 .. Len(draws) : ~Precedes(draws[i - 1], draws[i]),
          "InvalidDrawOrder"),
    Check(\E i \in DOMAIN draws :
        \/ draws[i].start >= draws[i].end
        \/ draws[i].end > Len(frame.series[draws[i].series][draws[i].segment]),
      "InvalidDrawRange"),
    Check(\E i \in DOMAIN draws :
        \/ draws[i].clip \notin ToSet(IdsOf(resources.clips))
        \/ draws[i].style \notin ToSet(IdsOf(resources.styles)),
      "InvalidResourceReference")>>)

\* RenderPacket::validate_for_owner
PacketError(packet, owner) ==
  FirstError(<<
    Check(packet.scene # owner.scene, "StaleSceneRevision"),
    Check(packet.work # owner.work, "StaleWorkGeneration"),
    Check(packet.device # owner.device, "StaleDeviceGeneration"),
    FrameError(packet.frame),
    Check(packet.revision # packet.frame.revision, "IncompletePacket"),
    ResourceError(packet.resources, packet.frame),
    DrawsError(packet.frame, packet.resources, packet.draws)>>)

\* RenderPacketBuilder::build: owner is what the builder expects, asked what
\* the caller asks for.
PacketFor(frame, owner) ==
  [frame |-> frame, revision |-> frame.revision, scene |-> owner.scene,
   work |-> owner.work, device |-> owner.device,
   resources |-> ResourcesOf(frame), draws |-> DrawsOf(frame)]

BuildError(frame, owner, asked) ==
  FirstError(<<
    Check(asked.work # owner.work, "StaleWorkGeneration"),
    Check(asked.device # owner.device, "StaleDeviceGeneration"),
    FrameError(frame),
    Check(Totals(frame).segments > MaxDraws, "CapacityExceeded"),
    PacketError(PacketFor(frame, owner), owner)>>)

\* The kinds of failure a caller of SceneHandle::resolve_frame can tell apart.
FrameErrorSeen(error) ==
  CASE error = "Ok" -> "Ok"
    [] error = "CapacityExceeded" -> "CapacityExceeded"
    [] error = "FrameInvalid" -> "InvalidInput"
    [] OTHER -> "EngineRejected"
=============================================================================
