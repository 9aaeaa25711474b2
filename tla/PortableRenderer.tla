-------------------------- MODULE PortableRenderer --------------------------
(***************************************************************************)
(* The portable offscreen renderer, crates/lumenplot-render-wgpu/src/lib.rs *)
(* with the packets it is handed.                                          *)
(*                                                                         *)
(* The renderer keeps a colour target, a vertex buffer and a readback      *)
(* buffer from frame to frame and lets them grow.  One call prepares the   *)
(* triangles of a frame, uploads them, paints in one or more passes, copies *)
(* the frame's part of the target into the readback buffer, waits until    *)
(* that is mapped, copies it out and unmaps it.  Every step of this can    *)
(* fail, and what a failed step leaves behind is kept for the next frame.  *)
(*                                                                         *)
(* The graphics library is external.  Of it the model says: a buffer write *)
(* takes effect before the passes of the next submission and after those   *)
(* of the last one; a submission that uses an object that could not be     *)
(* created, or copies into a buffer that is mapped, is dropped and raises  *)
(* a validation error; an allocation that fails raises a memory error and  *)
(* returns an object all the same.                                         *)
(*                                                                         *)
(* Buffers are counted in triangles (48 bytes) and pixels (4 bytes).       *)
(***************************************************************************)
EXTENDS FramePackets

CONSTANTS
  Frames,         \* the frames that may be built: everything but their number
  MaxTexture,     \* the device's limit on a texture's side
  MaxBuffer,      \* the device's limit on a buffer, in either unit
  MaxTriangles,   \* MAX_VERTEX_BYTES
  RowAlignment,   \* COPY_BYTES_PER_ROW_ALIGNMENT
  MaxSingle,      \* the largest width a 32-bit float holds
  MaxFrames,      \* bound on the number of frames
  MaxGeneration   \* bound on the owner's generations

ASSUME RendererAssumption ==
  {MaxTexture, MaxBuffer, MaxTriangles, RowAlignment, MaxSingle, MaxFrames,
   MaxGeneration} \subseteq Nat \ {0}

IsSequence(s) == s \in Seq(ToSet(s))

\* A FramePacket: series of segments of points, and filled shapes.
IsFrame(f) ==
  /\ {"canvas", "logical", "plot", "dpi", "width", "series", "fillBar"} \subseteq DOMAIN f
  /\ f.canvas \in Int \X Int
  /\ {f.plot.x0, f.plot.x1, f.plot.y0, f.plot.y1} \subseteq Int
  /\ IsSequence(f.series)
  /\ \A segments \in ToSet(f.series) :
       IsSequence(segments) /\ \A points \in ToSet(segments) : IsSequence(points)
  /\ IsSequence(f.fillBar.fills) /\ IsSequence(f.fillBar.bars) /\ IsSequence(f.fillBar.order)
  /\ \A fill \in ToSet(f.fillBar.fills) : IsSequence(fill.points)

\* Every frame was put together by the constructors, whatever the packet says.
ASSUME FramesAreConstructed ==
  \A f \in Frames :
    IsFrame(f) /\ SpecAccepted(f) /\ FillBarAccepted(f.fillBar) /\ ThreeDAccepted(f.threeD)

VARIABLES
  owner,   \* the generations the owner has published: [scene, work, device]
  bound,   \* Renderer.owner_device_generation, Unbound before the first
  lost,    \* Renderer.device_lost
  gpu,     \* the retained objects: [target, vertex, readback, uniform]
  packet,  \* the packet the owner holds, NoPacket when none
  made,    \* how many frames were made
  answer,  \* what the last call returned: [result, frame, picture]
  spoiled  \* history: whether an operation on this renderer failed half-way

vars == <<owner, bound, lost, gpu, packet, made, answer, spoiled>>

Unbound == -1
NoPacket == [work |-> -1]
NoTarget == [w |-> 0, h |-> 0, valid |-> FALSE, paint |-> <<>>]
NoBuffer == [size |-> 0, valid |-> FALSE, data |-> <<>>, held |-> FALSE]
NoUniform == [viewport |-> <<0, 0>>, half |-> 0, colour |-> [line |-> FALSE]]
NoObjects == [target |-> NoTarget, vertex |-> NoBuffer, readback |-> NoBuffer,
              uniform |-> NoUniform]
Nothing == [result |-> "none"]

-----------------------------------------------------------------------------
(* Preparing a frame *)

\* What a triangle belongs to: a shape of the frame numbered n.
Shape(n, family, index, part) ==
  [frame |-> n, family |-> family, index |-> index, part |-> part]

Lines(n) == Shape(n, "Line", 0, "body")

\* All lines share a colour; every filled shape has, for the model, its own.
LineColour == [line |-> TRUE]

Repeat(times, shape) == [k \in 1 .. times |-> shape]

\* Two triangles for every pair of neighbouring points that differ.
PairsApart(points) == {k \in 2 .. Len(points) : points[k] # points[k - 1]}

LineTriangles(frame) ==
  LET OfSegment(s, g) == {<<s, g, k>> : k \in PairsApart(frame.series[s][g])}
      OfSeries(s) == UNION {OfSegment(s, g) : g \in DOMAIN frame.series[s]}
  IN 2 * Cardinality(UNION {OfSeries(s) : s \in DOMAIN frame.series})

\* What the size of the vertices is estimated from before they are made.
LinePairs(frame) ==
  LET OfSeries(segments) == FoldLeft(LAMBDA n, s : n + Len(s) - 1, 0, segments)
  IN FoldLeft(LAMBDA n, s : n + OfSeries(s), 0, frame.series)

RowPitch(width) == ((width + RowAlignment - 1) \div RowAlignment) * RowAlignment

ReadbackSize(frame) == RowPitch(frame.canvas[1]) * frame.canvas[2]

ScissorValid(frame) ==
  /\ frame.plot.x0 \in 0 .. frame.canvas[1] /\ frame.plot.x1 \in 0 .. frame.canvas[1]
  /\ frame.plot.y0 \in 0 .. frame.canvas[2] /\ frame.plot.y1 \in 0 .. frame.canvas[2]
  /\ frame.plot.x0 < frame.plot.x1 /\ frame.plot.y0 < frame.plot.y1

MetadataPreparable(frame) ==
  /\ frame.logical = frame.canvas
  /\ ScissorValid(frame)
  /\ frame.dpi > 0
  /\ frame.width \in 1 .. MaxLineWidth

PrepareError(frame) ==
  LET totals == Totals(frame)
  IN FirstError(<<
       Check(\/ frame.canvas[1] \notin 1 .. MaxTexture
             \/ frame.canvas[2] \notin 1 .. MaxTexture
             \/ frame.canvas[1] * frame.canvas[2] > MaxPixels, "CapacityExceeded"),
       Check(~MetadataPreparable(frame), "InvalidInput"),
       Check(Len(frame.series) > MaxSeries, "CapacityExceeded"),
       Check(totals.error = "CapacityExceeded", "CapacityExceeded"),
       Check(totals.error # "Ok", "InvalidInput"),
       Check(2 * LinePairs(frame) > MaxTriangles, "CapacityExceeded")>>)

\* One fill or bar becomes a draw of its body and, if it has one, of its edge.
Perimeter(points) ==
  2 * Cardinality({k \in DOMAIN points : points[k] # points[(k % Len(points)) + 1]})

ShapeDraws(frame, n, key) ==
  LET isFill == key.family = "Fill"
      shape  == IF isFill THEN frame.fillBar.fills[key.index]
                          ELSE frame.fillBar.bars[key.index]
      body   == IF isFill THEN Len(shape.points) - 2 ELSE 2
      edge   == IF isFill THEN Perimeter(shape.points) ELSE 8
      Draw(part, triangles, width) ==
        [shape |-> Shape(n, key.family, key.index, part),
         triangles |-> triangles, width |-> width]
  IN IF shape.edge = NoEdge THEN <<Draw("body", body, 2)>>
     ELSE <<Draw("body", body, 2), Draw("edge", edge, shape.edge)>>

FillDraws(frame, n) ==
  FlattenSeq([k \in DOMAIN frame.fillBar.order |->
                ShapeDraws(frame, n, frame.fillBar.order[k])])

\* The draws' triangles one after the other, as they come to lie in the buffer.
Vertices(draws) ==
  FlattenSeq([i \in DOMAIN draws |-> Repeat(draws[i].triangles, draws[i].shape)])

Triangles(draws) == Len(Vertices(draws))

FillDrawsError(frame, n) ==
  FirstError(<<
    Check(Len(frame.fillBar.fills) + Len(frame.fillBar.bars) > MaxSegments,
      "CapacityExceeded"),
    Check(Totals(frame).points + FillPoints(frame.fillBar) > MaxPoints,
      "CapacityExceeded"),
    Check(~FillBarOnCanvas(frame), "InvalidInput"),
    Check(\E d \in ToSet(FillDraws(frame, n)) : d.width > MaxSingle, "InvalidInput"),
    Check(Triangles(FillDraws(frame, n)) > MaxTriangles, "CapacityExceeded")>>)

-----------------------------------------------------------------------------
(* The retained objects.  A call carries the objects, the errors raised so   *)
(* far, the error it returns and the fault the environment has in store.    *)

Call(fault) == [gpu |-> gpu, raised |-> {}, error |-> "Ok", fault |-> fault]

Faults == {"none", "target", "vertex", "readback", "timeout", "loss", "mapping",
           "host vertices", "host pixels"}

Raise(c, kind) == [c EXCEPT !.raised = @ \cup {kind}]
Fail(c, kind) == [c EXCEPT !.error = kind]

\* Mutant of Grown: a doubling beyond the maximum is given up, not cut to it.
GrownUncut(required, current, maximum) ==
  LET capacity[k \in 0 .. maximum] ==
        IF k = 0 THEN Max({current, 1})
        ELSE IF 2 * capacity[k - 1] > maximum THEN 0 ELSE 2 * capacity[k - 1]
      enough == {k \in 0 .. maximum : capacity[k] >= required}
  IN IF required = 0 \/ enough = {} THEN 0 ELSE capacity[Min(enough)]

\* The first of the doublings of current that is large enough, 0 if none is.
Grown(required, current, maximum) ==
  LET capacity[k \in 0 .. maximum] ==
        IF k = 0 THEN Max({current, 1}) ELSE Min({2 * capacity[k - 1], maximum})
      enough == {k \in 0 .. maximum : capacity[k] >= required}
  IN IF required = 0 \/ enough = {} THEN 0 ELSE capacity[Min(enough)]

EnsureTarget(c, w, h) ==
  LET t == c.gpu.target
      size == <<Grown(w, t.w, MaxTexture), Grown(h, t.h, MaxTexture)>>
  IN IF c.error # "Ok" \/ (t.w >= w /\ t.h >= h) THEN c
     ELSE IF 0 \in {size[1], size[2]} THEN Fail(c, "CapacityExceeded")
     ELSE [c EXCEPT !.gpu.target = [w |-> size[1], h |-> size[2],
                                    valid |-> c.fault # "target", paint |-> <<>>],
                    !.raised = @ \cup IF c.fault = "target" THEN {"memory"} ELSE {}]

\* which is "vertex" or "readback"
EnsureBuffer(c, which, required) ==
  LET b == c.gpu[which]
      size == Grown(required, b.size, MaxBuffer)
  IN IF c.error # "Ok" \/ (b.size # 0 /\ b.size >= required) THEN c
     ELSE IF size = 0 THEN Fail(c, "CapacityExceeded")
     ELSE [c EXCEPT !.gpu[which] = [size |-> size, valid |-> c.fault # which,
                                    data |-> <<>>, held |-> FALSE],
                    !.raised = @ \cup IF c.fault = which THEN {"memory"} ELSE {}]

\* queue.write_buffer at offset 0: what lies behind the new vertices stays.
WriteVertices(c, data) ==
  LET old == c.gpu.vertex.data
  IN IF c.error # "Ok" \/ data = <<>> THEN c
     ELSE IF ~c.gpu.vertex.valid THEN Raise(c, "validation")
     ELSE [c EXCEPT !.gpu.vertex.data = data \o SubSeq(old, Len(data) + 1, Len(old))]

WriteUniform(c, uniform) ==
  IF c.error # "Ok" THEN c ELSE [c EXCEPT !.gpu.uniform = uniform]

\* A pass paints the triangles from .. from + count - 1 of the vertex buffer
\* inside the scissor, over what is there or over a cleared target.
Uniform(frame, width, colour) ==
  [viewport |-> frame.canvas, half |-> width, colour |-> colour]

Pass(frame, n, clears, from, count) ==
  [frame |-> n, clears |-> clears, from |-> from, count |-> count,
   scissor |-> frame.plot]

Cleared(p, target) == IF p.clears THEN <<[cleared |-> p.frame]>> ELSE target.paint

Painted(p, g) ==
  IF p.count = 0 THEN <<>>
  ELSE <<[what     |-> SubSeq(g.vertex.data, p.from, p.from + p.count - 1),
          uniform  |-> g.uniform,
          scissor  |-> p.scissor,
          over     |-> <<g.target.w, g.target.h>>]>>

\* A submission of at most one pass and, unless the extent is empty, of a copy of
\* so much of the target into the readback buffer.
Usable(c, passes, extent) ==
  /\ c.gpu.target.valid
  /\ \A i \in DOMAIN passes :
       /\ c.gpu.vertex.size # 0 => c.gpu.vertex.valid
       /\ Holds(passes[i].scissor, <<c.gpu.target.w, c.gpu.target.h>>)
  /\ extent # <<0, 0>> =>
       /\ c.gpu.readback.valid /\ ~c.gpu.readback.held
       /\ extent[1] <= c.gpu.target.w /\ extent[2] <= c.gpu.target.h

Submit(c, passes, extent) ==
  LET After(g, p) == [g EXCEPT !.target.paint = Cleared(p, g.target) \o Painted(p, g)]
      painted == IF passes = <<>> THEN c.gpu ELSE After(c.gpu, Head(passes))
  IN IF c.error # "Ok" THEN c
     ELSE IF ~Usable(c, passes, extent) THEN Raise(c, "validation")
     ELSE [c EXCEPT !.gpu = IF extent = <<0, 0>> THEN painted
                            ELSE [painted EXCEPT !.readback.data = painted.target.paint]]

Hold(c) == [c EXCEPT !.gpu.readback.held = TRUE]

\* Mutant of ReadBack: the buffer stays mapped after a frame that succeeded.
ReadBackMapped(c) ==
  IF c.error # "Ok" THEN c
  ELSE IF c.fault = "timeout" THEN Fail(Hold(c), "ReadbackFailed")
  ELSE IF c.fault = "loss" THEN Fail(Hold(c), "DeviceLost")
  ELSE IF c.gpu.readback.held \/ ~c.gpu.readback.valid
  THEN Fail(Raise(c, "validation"), "ReadbackFailed")
  ELSE IF c.fault = "mapping" THEN Fail(c, "ReadbackFailed")
  ELSE IF c.fault = "host pixels" THEN Fail(Hold(c), "OutOfMemory")
  ELSE Hold(c)

\* Waiting for the copy: map, read, unmap.  Only the last exit unmaps.
ReadBack(c) ==
  IF c.error # "Ok" THEN c
  ELSE IF c.fault = "timeout" THEN Fail(Hold(c), "ReadbackFailed")
  ELSE IF c.fault = "loss" THEN Fail(Hold(c), "DeviceLost")
  ELSE IF c.gpu.readback.held \/ ~c.gpu.readback.valid
  THEN Fail(Raise(c, "validation"), "ReadbackFailed")
  ELSE IF c.fault = "mapping" THEN Fail(c, "ReadbackFailed")
  ELSE IF c.fault = "host pixels" THEN Fail(Hold(c), "OutOfMemory")
  ELSE c

-----------------------------------------------------------------------------
(* Painting a frame *)

RenderPrepared(c, frame, n) ==
  LET count == LineTriangles(frame)
      c1 == WriteUniform(c, Uniform(frame, frame.width, LineColour))
      c2 == EnsureTarget(c1, frame.canvas[1], frame.canvas[2])
      c3 == IF count = 0 THEN c2
            ELSE WriteVertices(EnsureBuffer(c2, "vertex", count),
                               Repeat(count, Lines(n)))
      c4 == EnsureBuffer(c3, "readback", ReadbackSize(frame))
      c5 == Submit(c4, <<Pass(frame, n, TRUE, 1, count)>>, frame.canvas)
  IN ReadBack(c5)

\* The passes of the filled shapes, each with its triangles behind those of the
\* earlier ones, and the pass of the lines behind them all.
Passes(frame, n, draws) ==
  LET Before(i) == Triangles(SubSeq(draws, 1, i - 1))
      lines == LineTriangles(frame)
      OfShape(i) == [pass |-> Pass(frame, n, i = 1, Before(i) + 1, draws[i].triangles),
                     uniform |-> Uniform(frame, draws[i].width, draws[i].shape)]
      OfLines == [pass |-> Pass(frame, n, FALSE, Triangles(draws) + 1, lines),
                  uniform |-> Uniform(frame, frame.width, LineColour)]
  IN [i \in DOMAIN draws |-> OfShape(i)] \o (IF lines = 0 THEN <<>> ELSE <<OfLines>>)

\* Mutant of PaintAll: the uniforms of all passes are written before the first.
PaintAllBatched(c, steps) ==
  LET after[i \in 0 .. Len(steps)] ==
        IF i = 0 THEN FoldLeft(LAMBDA d, step : WriteUniform(d, step.uniform), c, steps)
        ELSE Submit(after[i - 1], <<steps[i].pass>>, <<0, 0>>)
  IN after[Len(steps)]

PaintStep(c, step) == Submit(WriteUniform(c, step.uniform), <<step.pass>>, <<0, 0>>)

PaintAll(c, steps) ==
  LET after[i \in 0 .. Len(steps)] ==
        IF i = 0 THEN c ELSE PaintStep(after[i - 1], steps[i])
  IN after[Len(steps)]

\* The loop passes over draws without vertices.
Nonempty(draws) ==
  FlattenSeq([i \in DOMAIN draws |-> IF draws[i].triangles = 0 THEN <<>> ELSE <<draws[i]>>])

RenderPreparedWithFills(c, frame, n, all) ==
  LET draws == Nonempty(all)
      data == Vertices(draws) \o Repeat(LineTriangles(frame), Lines(n))
      c1 == EnsureBuffer(c, "vertex", Len(data))
      c2 == EnsureBuffer(c1, "readback", ReadbackSize(frame))
      c3 == EnsureTarget(c2, frame.canvas[1], frame.canvas[2])
      c4 == PaintAll(WriteVertices(c3, data), Passes(frame, n, draws))
  IN ReadBack(Submit(c4, <<>>, frame.canvas))

Attempt(frame, n, fault) ==
  LET draws == FillDraws(frame, n)
  IN IF Triangles(draws) = 0 THEN RenderPrepared(Call(fault), frame, n)
     ELSE RenderPreparedWithFills(Call(fault), frame, n, draws)

\* What the error scopes make of it.
ResultOf(c) ==
  FirstError(<<
    Check("memory" \in c.raised, "OutOfMemory"),
    Check("validation" \in c.raised, "Internal"),
    c.error>>)

\* The checks before anything is touched.
RenderError(frame, n) ==
  FirstError(<<
    Check(lost, "DeviceLost"),
    PrepareError(frame),
    FillDrawsError(frame, n),
    Check(\/ LineTriangles(frame) + Triangles(FillDraws(frame, n)) > MaxBuffer
          \/ ReadbackSize(frame) > MaxBuffer, "CapacityExceeded")>>)

-----------------------------------------------------------------------------
(* The calls *)

Refuse(result, frame, n, accepted) ==
  /\ answer' = [result |-> result, frame |-> frame, number |-> n, accepted |-> accepted]
  /\ UNCHANGED <<gpu, lost, spoiled>>

\* The frame as the renderer sees it passed all checks of the caller.
Paint(frame, n, fault) ==
  IF RenderError(frame, n) # "Ok" THEN Refuse(RenderError(frame, n), frame, n, TRUE)
  ELSE IF fault = "host vertices" THEN Refuse("OutOfMemory", frame, n, TRUE)
  ELSE LET c == Attempt(frame, n, fault)
           delivered == ResultOf(c) = "Ok"
       IN /\ gpu' = c.gpu
          /\ lost' = (c.error = "DeviceLost")
          /\ spoiled' = (spoiled \/ ~delivered)
          /\ answer' = [result |-> ResultOf(c), frame |-> frame, number |-> n,
                        accepted |-> TRUE,
                        picture |-> IF delivered THEN c.gpu.readback.data ELSE <<>>]

\* RenderPacketBuilder::build through SceneHandle::resolve_render_packet.
Build(frame, asked) ==
  /\ made < MaxFrames
  /\ LET error == BuildError(frame, owner, asked)
     IN /\ packet' = IF error = "Ok" THEN PacketFor(frame, owner) ELSE NoPacket
        /\ answer' = [result |-> FrameErrorSeen(error)]
  /\ made' = made + 1
  /\ UNCHANGED <<owner, bound, lost, gpu, spoiled>>

\* Renderer::render_validated, called by the owner with what it expects now.
RenderValidated(fault) ==
  /\ packet # NoPacket
  /\ LET mine == IF bound = Unbound THEN owner.device = 0 ELSE bound = owner.device
         good == PacketError(packet, owner) = "Ok"
     IN /\ bound' = IF bound = Unbound /\ owner.device = 0 THEN 0 ELSE bound
        /\ IF mine /\ good THEN Paint(packet.frame, made, fault)
           ELSE Refuse("InvalidInput", packet.frame, made, FALSE)
  /\ UNCHANGED <<owner, packet, made>>

\* Renderer::render of a frame from SceneHandle::resolve_frame: lines only.
Render(frame, fault) ==
  /\ made < MaxFrames
  /\ frame.fillBar = NoFillBar /\ FrameError(frame) = "Ok"
  /\ made' = made + 1
  /\ packet' = NoPacket
  /\ Paint(frame, made + 1, fault)
  /\ UNCHANGED <<owner, bound>>

BindDeviceGeneration ==
  /\ bound' = IF bound = Unbound THEN owner.device ELSE bound
  /\ UNCHANGED <<owner, lost, gpu, packet, made, answer, spoiled>>

\* The device-lost callback, at any time between two calls.
LoseDevice ==
  /\ lost' = TRUE
  /\ UNCHANGED <<owner, bound, gpu, packet, made, answer, spoiled>>

\* The owner publishes a newer scene or adopts newer work ...
Publish(part) ==
  /\ owner.scene + owner.work < MaxGeneration
  /\ owner' = [owner EXCEPT ![part] = @ + 1]
  /\ UNCHANGED <<bound, lost, gpu, packet, made, answer, spoiled>>

\* ... and replaces a renderer whose device is lost (Renderer::new).
ReplaceRenderer ==
  /\ lost /\ owner.device < MaxGeneration
  /\ owner' = [owner EXCEPT !.device = @ + 1]
  /\ bound' = Unbound
  /\ lost' = FALSE
  /\ gpu' = NoObjects
  /\ spoiled' = FALSE
  /\ answer' = Nothing
  /\ UNCHANGED <<packet, made>>

Init ==
  /\ owner = [scene |-> 0, work |-> 0, device |-> 0]
  /\ bound = Unbound
  /\ lost = FALSE
  /\ gpu = NoObjects
  /\ packet = NoPacket
  /\ made = 0
  /\ answer = Nothing
  /\ spoiled = FALSE

Asked == [scene : {owner.scene}, work : 0 .. owner.work, device : 0 .. owner.device]

Next ==
  \/ \E frame \in Frames, asked \in Asked : Build(frame, asked)
  \/ \E fault \in Faults : RenderValidated(fault)
  \/ \E frame \in Frames, fault \in Faults : Render(frame, fault)
  \/ BindDeviceGeneration
  \/ LoseDevice
  \/ \E part \in {"scene", "work"} : Publish(part)
  \/ ReplaceRenderer

Spec == Init /\ [][Next]_vars

-----------------------------------------------------------------------------
(* What holds of a renderer *)

\* Retained objects keep to the device's limits.
ObjectsTyped(g) ==
  /\ DOMAIN g = {"target", "vertex", "readback", "uniform"}
  /\ DOMAIN g.target = {"w", "h", "valid", "paint"}
  /\ g.target.w \in 0 .. MaxTexture /\ g.target.h \in 0 .. MaxTexture
  /\ \A which \in {"vertex", "readback"} :
       /\ DOMAIN g[which] = {"size", "valid", "data", "held"}
       /\ g[which].size \in 0 .. MaxBuffer
  /\ IsSequence(g.vertex.data)

TypeOK ==
  /\ owner \in [scene : Nat, work : Nat, device : Nat]
  /\ bound \in Nat \cup {Unbound}
  /\ lost \in BOOLEAN
  /\ ObjectsTyped(gpu)
  /\ packet # NoPacket => "frame" \in DOMAIN packet /\ packet.frame \in Frames
  /\ made \in 0 .. MaxFrames
  /\ spoiled \in BOOLEAN

\* Every retained object was allocated, and the readback buffer is not mapped.
ObjectsUsable(g) ==
  /\ g.target.w # 0 => g.target.valid
  /\ g.vertex.size # 0 => g.vertex.valid
  /\ g.readback.size # 0 => g.readback.valid
  /\ ~g.readback.held

-----------------------------------------------------------------------------
(* What a picture shows *)

Delivered == answer.result = "Ok" /\ "picture" \in DOMAIN answer

Paints == Tail(answer.picture)

\* Where a shape belongs: the filled shapes in paint order, the body of each
\* before its edge, the lines last.
Rank(frame, shape) ==
  IF shape.family = "Line" THEN 2 * Len(frame.fillBar.order)
  ELSE LET place == CHOOSE k \in DOMAIN frame.fillBar.order :
                      /\ frame.fillBar.order[k].family = shape.family
                      /\ frame.fillBar.order[k].index = shape.index
       IN 2 * (place - 1) + (IF shape.part = "edge" THEN 1 ELSE 0)

ExpectedWidth(frame, shape) ==
  IF shape.family = "Line" THEN frame.width
  ELSE IF shape.part = "body" THEN 2
  ELSE IF shape.family = "Fill" THEN frame.fillBar.fills[shape.index].edge
  ELSE frame.fillBar.bars[shape.index].edge

ExpectedShapes(frame, n) ==
  {d.shape : d \in {e \in ToSet(FillDraws(frame, n)) : e.triangles # 0}} \cup
  (IF LineTriangles(frame) = 0 THEN {} ELSE {Lines(n)})

\* The picture begins with the clearing of the frame numbered n.  Every shape of
\* the frame that has an extent is painted once, all its triangles, in its own
\* colour and width, and in order: each edge right after its body, lines on top.
Shows(picture, f, n) ==
  LET paints == Tail(picture)
      ShapeAt(i) == Head(paints[i].what)
  IN /\ Head(picture) = [cleared |-> n]
     /\ {ShapeAt(i) : i \in DOMAIN paints} = ExpectedShapes(f, n)
     /\ \A i \in DOMAIN paints :
          /\ ToSet(paints[i].what) = {ShapeAt(i)}
          /\ paints[i].uniform.colour =
               IF ShapeAt(i) = Lines(n) THEN LineColour ELSE ShapeAt(i)
          /\ paints[i].uniform.half = ExpectedWidth(f, ShapeAt(i))
          /\ paints[i].uniform.viewport = f.canvas
     /\ \A i, j \in DOMAIN paints :
          i < j => Rank(f, ShapeAt(i)) < Rank(f, ShapeAt(j))

\* A delivered picture holds its own frame and nothing older: it begins with
\* this frame's clearing and holds its shapes, each once and in paint order,
\* whatever frames the renderer painted and failed to paint before.
PictureShowsItsFrame ==
  Delivered => Shows(answer.picture, answer.frame, answer.number)

\* The frame does not fit the device or a fixed limit by itself.
TooLarge(frame, n) ==
  \/ \E side \in {1, 2} : frame.canvas[side] > MaxTexture
  \/ ReadbackSize(frame) > MaxBuffer
  \/ 2 * LinePairs(frame) > MaxTriangles
  \/ LineTriangles(frame) + Triangles(FillDraws(frame, n)) > MaxBuffer
  \/ Triangles(FillDraws(frame, n)) > MaxTriangles

\* Growing what is retained never fails on its own: a frame is refused for want of
\* room only if it is itself larger than the device or a fixed limit allows.
RoomIsFound ==
  ("accepted" \in DOMAIN answer /\ answer.accepted /\ answer.result = "CapacityExceeded")
  => TooLarge(answer.frame, answer.number)

\* "The input and descriptor checks above make validation failures programming or
\* data errors": a frame that passed the checks fails validation only on a renderer
\* in which an earlier call failed half-way and left a mapped buffer or an object
\* that was never allocated.
OnlySpoiledRenderersFail ==
  [][answer'.result = "Internal" /\ answer' # answer => spoiled]_vars

\* The inductive invariant: the two above, and what a failure half-way spoils.
IInv ==
  /\ TypeOK
  /\ spoiled \/ ObjectsUsable(gpu)
  /\ PictureShowsItsFrame
  /\ RoomIsFound

\* lib.rs: the frame is expanded into triangles in screen space; line.wgsl: pixels
\* are mapped to normalized device coordinates.  A pixel of the frame is a pixel of
\* the picture: what is painted over a target has that target's size as viewport.
FrameFillsItsPicture ==
  Delivered => \A i \in DOMAIN Paints : Paints[i].uniform.viewport = Paints[i].over
=============================================================================
