# A TLA+ verification project for lumenplot

lumenplot is a plotting engine in Rust with a viewer, a window application and
a Matplotlib backend in Python. This directory holds TLA+ modules that model
its stateful core, TLC configurations that check small instances of them, and
TLAPS proofs of what matters most for every size of the instance. All paths are
relative to the repository.

Contents: [1 Inventory](#1-inventory) · [2 Plan](#2-plan) ·
[3 Modules and the code](#3-modules-and-the-code) ·
[4 Runs, bounds and fairness](#4-runs-bounds-and-fairness) ·
[5 Proofs](#5-proofs) · [6 Findings](#6-findings) ·
[7 What is not modelled](#7-what-is-not-modelled)

## 1 Inventory

How data flows: a **scene** (`lumenplot-engine`) is edited by transactions and
published as immutable snapshots; a snapshot becomes a **frame** and then a
render **packet** (`lumenplot-render-api`); the **runtime session**
(`lumenplot-runtime`) decides whether the packet may be shown, leases its
resources from the **resource cache**, hands it to the **portable renderer**
(`lumenplot-render-wgpu`) and reports the outcome; the **viewer**
(`lumenplot-viewer`) and the **window application** (`lumenplot-window`) own a
scene and a session and translate user and window events into calls. The
Python package `lumenplot_mpl` is a separate consumer: it inspects a Matplotlib
figure and writes an image through the Rust extension.

| Component | State it keeps | Operations | Calls / is called by | What is hard | What makes it correct |
|---|---|---|---|---|---|
| Resource cache (`render-api/src/resources.rs`) | device generation, entries with owner counts, pending submissions, two fence watermarks, a lifetime token | acquire, drop of a lease, submit, complete, invalidate | called by the packet owner; completions come from the backend | leases outliving their lifetime, completions late, repeated or early, counters at their limits, removal while iterating | owner counts are exact; nothing of an old device survives; nothing is retired before its fence |
| Runtime session (`runtime/src/lib.rs`) | lifecycle state, surfaces, work and device generations, revision watermarks, ticket queue, retained frame, fence counter | enter loop, create/resize/suspend/resume/lose/recreate surface, lose/recover device, out of memory, close, begin_submission, submit, submit_frame | called by viewer and window; calls cache and renderer | stale tokens from workers, failures at each of four stages of a publication, recovery that fails half way, exhausted counters | revisions shown never go back; no lease leaks; the queue stays minimal; a renderer only while alive |
| Native transport (`runtime/src/lib.rs`) | a session | delegation | called by the window | – | as the session |
| Scene transactions (`engine/src/scene/{state,transaction,ids,revision}.rs`) | scene state with one revision per component, three identity counters, the staged edits | begin, stage views, scales, grid, series, annotations; commit; abort | called by facade and viewer | order of staged edits, failing edits and commits, identities burned, no-op commits | a revision names one content; identities are never reused; scales always fit both views |
| Series storage (`engine/src/data`) | points, gaps, segments, chunks, chunk revisions | insert, append | called by transactions, frames and LOD | gap merging, runs across chunk and append boundaries, revision exhaustion | an append leaves what one ingestion of everything would; chunks cut the storage without loss |
| Level of detail (`engine/src/lod`) | an immutable summary index | range summary, M4 selection, culling of arbitrary points | its tests; no frame selects points yet | node and block boundaries, bins that fall together, the last bin | summaries equal the plain scan; a bin's extremes survive; no gap is joined |
| Frames, ticks, cursor (`engine/src/{frame,ticks}.rs`); text, bridge, snapshots | none of their own | resolve a line frame, place ticks, inspect the cursor | called by viewer, facade and exports | clipping through corners and along borders, tick steps at the edge of their list | a frame draws the visible part of the curve and no more; ticks, cursor and samples agree |
| Layout and annotation slice (`engine/src/text.rs`, `engine/src/scene/annotation_slice.rs`) | none of their own; a layout is kept by its frame | mirror live annotations into a layout, validate, hit an annotation or a legend entry | called by frames, the pointer's hit tests and exports | marks that overlap, of equal order; the fixture against the scene's own annotations | the pointer names what is painted on top |
| Render packets and frames (`render-api/src/{packet,frame}.rs`) | none | construct, build, validate for an owner | called by the packet owner and the renderer | order of the checks, limits, three generations | an accepted packet is complete and current |
| Portable renderer (`render-wgpu`) | device generation, retained target, vertex, readback and uniform buffers | prepare, render, read back, bind a generation | called by session and window | buffers kept from other frames, growth, error scopes, a readback that times out | a picture shows its frame; room is found when there is any |
| Metal probe (`render-metal`) | none | probe | – | – | – |
| Input routing (`runtime/src/input.rs`) | a focus | normalize host codes, route pointer and keyboard reports | called by hosts; its actions are the viewer's | unknown codes, gestures cut short by a cancel, a lost focus or a repeated report | every report is an action of the viewer or none; a gesture ends on the view it began on |
| Viewer (`viewer/src/lib.rs`) | scene, session, view history, a gesture in progress, the focus | pan, zoom, box, navigate, home, history back and forward, buffer, commit and cancel a gesture, move focus, `scene_mut`, and the session's operations | called by window, facade; each view step is a transaction on the scene | history index against failed transactions, a scene its owner edits too, gestures over a view that moved | history and scene agree; undo brings back what was seen |
| Window application (`window/src`) | session, physical surface, pending condition, next revision | window events, redraw (begin, submit, present), close, the stub program | called by the event loop | events queued behind what the window already is, conditions that latch, close during a redraw | a settled size reaches the surface; a close ends the loop |
| Export (`export/src`) | the output under way | plan, PNG passes, PDF content, objects, cross references | called by facade and benchmarks | estimates against what is written, strokes beyond what the rasterizer takes, object numbers, two sinks of one frame | an admitted file succeeds, an admitted picture shows every stroke or is refused; files resolve; both sinks show one frame |
| Arrays (`python/src/lib.rs`, the bridge in `lumenplot/src/lib.rs`) | the copy of a call's arrays, its segments, a scene of its own | extract, copy, find segments, check again, build, draw | called by Python callers, who may write to the arrays; calls scene and exports | spans worked out from strides and owners, what is read when the lock is gone, three layers with rules of their own | no read leaves its allocation; the picture is of what was held at the call; no layer refuses what another made |
| Python extension (the rest of `python/src`) | pixels of the frame under way | validate, flatten, rasterize strokes and triangles, clip, blend, read back | called by `lumenplot_mpl` | fixed-point cells, clipping, gaps, byte arithmetic | strokes are solid and tight, triangles tile, paint stays in its clip |
| Canvas publication (`python/lumenplot_mpl/backend_{attempt,publication,guards,lifecycle,output,state}.py`) | generation, last diagnostics, a lock | begin attempt, ensure current, write, publish, clear | threads that print the same canvas | check-then-write outside the lock, stale attempts clearing newer diagnostics | diagnostics belong to the latest attempt |
| Drawing adapter (rest of `python/lumenplot_mpl`) | none | inspect artists, accept or refuse | called by publication | breadth, not control | – |
| Benchmarks, scripts | – | – | – | – | – |

PROJECT.json lists the same components with their status, and every hazard at
the line where it bites.

## 2 Plan

In order of importance, with what composes what; everything in it is done.

1. `CacheState` (operators on one cache value) and `ResourceCache` (many leases
   and submissions over it).
2. `EngineSession` (drives `CacheState` through the packet owner) and
   `PublicationGate`, the abstract specification it implements.
3. `SceneTransaction`, and `VersionedScene`, the abstract specification of a
   versioned value it implements.
4. `CanvasPublication`: calls that print one canvas, nested or in threads.
5. `Viewer` (history and gestures over a scene whose transactions are steps)
   and `ViewUndo`, the abstract undo and redo it implements; `InputRouting`
   composes it with the router; `WindowHost`
   composes `EngineSession` with the window, its event loop and its surface,
   under fairness.
6. The way of the data: `SeriesStorage`, extended by `LevelOfDetail`, extended
   by `EngineFrames`, extended by `Annotations`, extended by `Export`.
7. The way to pixels: `FramePackets`, extended by `PortableRenderer`; and for
   Python `AggStroke`, extended by `SoftwareFrame`.
8. `ArrayIngestion`: a caller's arrays on their way through the extension and the
   bridge into the storage of item 6 and its frames.

Items 1 to 5 and 8 have proofs; of item 6 the storage and the files of an export
have, of item 7 the renderer has (section 5). Still worth proving: that a clipped path
is the visible part of its curve, for every curve; and that the summaries of a range
are its scan. Each is a statement about a fold, to be proved as those of the storage
and the renderer are: by the least prefix for which it would fail.

## 3 Modules and the code

Mutants, the definitions named by a comment "Mutant of X", are plausible bugs:
with one of them in place of X, the property it belongs to is violated.

### CacheState, ResourceCache

`CacheState` holds no variables: it defines the value of one cache
(`CacheState` in the code) and, per operation, a `...Refusal` operator (the
checks, in the code's order, giving the error kind or `"Ok"`) and an `...Into`
operator (the effect). A resource is a model value, a key is a resource with a
device generation, the `Rc` that identifies a cache lifetime is a natural
number. `ResourceCache` adds the leases held by callers and one action per
public operation: `Acquire`, `Release` (Drop), `Submit`, `Complete`,
`Invalidate`. Allocation failure and packet validity are inputs of the action.
Only what can go wrong is a property of the run: `IInv`, with the leases' side
of the accounts, is there for the proofs.

### EngineSession, PublicationGate

One action per public operation of `EngineSession` in the code; the session is
`!Send` and never re-entered, so an operation is one step. What the code splits
into helpers is split alike: `CommitWorkGeneration`, `LoseDevice`
(`handle_device_loss`), `ExhaustMemory` (`handle_out_of_memory`),
`PrepareError`/`Leased`/`Committed` (`PacketOwner::prepare`, `commit`),
`FailPublication`/`FailDevice` (the error arms of `submit_frame`). A *fate* is
what the environment decides about one publication: whether the packet builds,
what the renderer answers, whether the commit finds memory. The renderer is the
device generation it is bound to; a frame is a model value, and `Renderable` are
the frames the backend can draw. Four variables are histories, read by no
action's guard except where named: `tokens` (what callers may still hold, so
that any earlier token can be submitted at any time), `configured` (size at the
last configuration), `presented` (the last packet rendered) and `result` (what
the last operation returned).

`PublicationGate` is what a session promises about revisions alone, without
surfaces, tokens, packets or devices. `EngineSession` maps its state to the
gate's phase, `highest` to `requested` and `presented.rev` to `shown`.

### SceneTransaction, VersionedScene

One action per method of `SceneTransaction`, plus `Begin`
(`PlotScene::transaction`), `Commit`, `Abort` (also what dropping does) and
`TakeSnapshot`. A transaction borrows the scene exclusively, so its `base` is
the scene itself and no snapshot is taken while it is open. Maps of the code
(`BTreeMap`) are total functions with a value for "absent". Series are reduced
to what transactions tell apart, their epoch and length; annotations are model
values; a range is a model value that a logarithmic axis accepts or not. What
the code decides about contents is an input of the action: `valid`
(`RetainedAnnotation::new` accepts) and `stored` (`SeriesStorage` accepts: right
topology, no reversal, memory). The counters are those of the code: 0 is
exhausted, and `add_series` allocates in the code's order, so that a failing
step leaves the earlier allocations behind. `Published` computes every component
revision as `SceneState::publish` does; style and font revisions never change
and are left out. `snapshot` is a state some reader holds, `granted` a history
of allocations, `result` the last answer; no guard reads them.

`VersionedScene` is a value with a version and a reader who looks at it. The
refinement says that the version moves by one exactly when the contents change:
a publication of unchanged contents would be no step of `VersionedScene`.

### CanvasPublication

The calls that print one canvas (`render_png`, `print_png`, `print_figure`),
each with its place in the code and its local variables. A step of a call ends
where the lock is released or foreign code may run: `BeginAttempt`
(`begin_attempt`), `EnterStrict`/`LeaveStrict` (`_render_strict` around the
Matplotlib callbacks), `EnterFallback`/`LeaveFallback`
(`_render_hybrid_fallback` around Agg), `Deliver` (`ensure_current`),
`WriteTarget` (`_write_target`, around the caller's writer), `Publish`, `Fail`
(`clear_if_current`, the exception leaves the call), and `RejectRequest` for the
output guards. The variable `nested` is chosen once: when it holds, the calls
run in one thread, call n starts only inside a callback of call n - 1 and only
the innermost one moves; otherwise they are threads that interleave at any step.
The figure is what calls change and restore, its resolution and its canvas.
`output` is the one file all calls with a target write; opening and truncating
it is part of the write. `landed` and `writer` are histories.

### Viewer, ViewUndo

The viewer's own state, its history, its pending gesture and its focus, over
what its steps read of the scene: the canonical view, the viewport, the scales
and whether the revisions are spent. Each view step of the code is one
transaction that stages one view and commits, so it is one action here, and
`Commits` says when that transaction succeeds and changes something; the inside
of a transaction is `SceneTransaction`'s. A step that fails or changes nothing
leaves everything as it was and is a stutter, with two exceptions the code has:
`ApplyHistory` moves the index first, and `BufferPan` keeps bounds that are no
view. `ApplyBounds` is `apply_bounds` (refuse, push, end the gesture) and
`ApplyHistory` is `apply_bounds_without_history_push` after `previous` or
`next`.

Coordinates are integers where the code has `f64`: a pan that leaves the
coordinates stands for one that overflows, and integer division loses what
rounding loses, so that the cases of a failing and of an absorbed step are
there. Both end in `NoView` or in an unchanged view, as in the code.

`SceneMut` is the owner's transaction through `scene_mut`, of which the viewer
hears nothing: any scene whose scales fit its views, or the last revision spent.
`begun` (the view a gesture began on) and `disturbed` (what the owner has
changed) are histories. `AloneSpec` is the viewer without such an owner; only
the proofs use it. What the viewer does with its session is `EngineSession`'s.

`ViewUndo` is undo and redo as a user sees it: past, present, future. `Viewer`
maps the entries before the index, the viewport and the entries after it.

### InputRouting

From a raw report to a step of the viewer. Normalization decodes a code through
the code's tables (what is outside a table is `Unknown`); `RoutePointer` and
`RouteKeyboard` give the action, or a refusal; `Perform` is what the viewer does
with an action (`apply_action`, `apply_keyboard`). Routing is pure, so the
actions of the module are `Perform` over all actions some report leads to
(`apply_action` takes any of them) and over those a key leads to at the present
focus (`HandleKey`). `input.rs` has a `ViewerHistory` of its own, with the same
`push` as the viewer's; only its tests use it, so it is not modelled. Accessibility keys that route to no
action and the `unreachable!` arm for a deferred kind are there as refusals.

### WindowHost

`WindowApp` (the core: a session with one surface, a pending condition, the next
revision, whether it is closed) over `EngineSession`, and its two drivers. The
winit shell is one thread, but a redraw is three steps, `OnRedraw` (begin),
`OnRedrawSubmit` and `OnRedrawPresent`, between which the window system may act:
it changes `pixels` (the live size) at once and queues an event about it.
`transport` is the size the physical surface was configured with;
`OnRedrawPresent` walks through both acquisitions and their retry. `exiting` is
`event_loop.exit()`, `answer` what `run_window` returns; winit's `Destroyed` and
`CloseRequested` reach the same handler and are one event. `WindowSize::new`
rejects a size without an area (`BadSize`) and one above its bound (`OverBound`)
alike, and the core closes for either; but only the first is replaced when the
transport is created and skipped when it presents, the second reaches the
transport. What the graphics library makes of such a size is outside the model.
The stub program (`run_stub`) writes its events first and `RunStub` performs them;
they carry a `WindowSize`, so no rejected size is among them.

The frame counter saturates (`Following`). A failed present ends the loop
without closing the core, and `run_window` then answers `Ok(AlreadyClosed)`: the
model does the same, no document promises otherwise.

### SeriesStorage, LevelOfDetail

A *piece* is what a caller hands in: cells (a point or `NotFinite`) and,
optionally, segments. Normalization refuses ill-formed segments, turns what is
outside them into gaps and refuses reversals in monotone storage. `Insert` and
`Extend` are the actions; `AppendTo` is what an append makes of old and new
samples, the one that brings only gaps included. Chunks are cut as the code cuts
them, each with a revision from a counter that ends. `Filtered` stands for the
code's loops that push what passes a test, and is, like `MergeAdjacentGaps`, a
recursive function, so that it can be proved about. `HoldPoints`, `HoldGaps` and
`HoldChunks` say when points, gaps and chunks hold some samples: the properties
are made of them, and `StorageIInv` is what an append preserves.

`LevelOfDetail` has no variables: block summaries, the tree of pairwise
combinations, the covering nodes of a range, the bins of M4, and the culling of
arbitrary points, all on the storage above. The reference definitions are plain
scans. Integers stand for the finite floats, so that bin boundaries are rounded
and may coincide, as in the code. Nothing outside the part's own tests calls the
selection today: frames draw all points.

### EngineFrames

`ResolveLineFrame` is `resolve_line_frame` for one series: the mapping, the
ticks, the paths, the limits, with the code's order of refusals. `ClipSegment`'s
parametric clipping and `Follow`, which decides whether a piece continues the
open path, are the code's. Display coordinates are counted in parts of
1/`Unit`, ticks in tenths of a data unit, and the instance is chosen so that
each quotient is whole: rounding of `f64` is not modelled, and neither is that a
clipped corner may lie one unit in the last place outside. The comment in
`ticks.rs` that the "10x arm always qualifies" is not literally true (it
may give ten ticks where nine was the test), which harms nothing: the limit is
ten, and `ReadingsAgree` holds.

### Annotations

`FrameLayout` is the layout a frame carries: the fixture, or the scene's own
annotations mirrored by `MirroredMarks` (`live_rectangle_layout`), stamped with
the revisions it was made for and refused when it has too many marks, a repeated
identity or an invalid shape. `HitAnnotation` and `HitLegendEntry` are what the
pointer finds, with the code's order (`Topmost`: the greatest order, and of equal
ones the later in the layout; mirrored marks lie in the order of identities).
`HitLegendEntry` counts only entries with a glyph and passes on which of them its
caller calls hidden. `ShapedRun` and `Retain` are the constructors, with their
checks of clusters, glyphs, clips and styles. `CarriedLayout` is what
`SceneState` carries, stamped anew whenever data or view change, so that the
check of its generation compares two things that are kept apart. Coordinates are
whole logical units, which are the finite numbers of `ShapeValid`, `Affine` and
`RunValid`, and branches for sums that are not finite are left out; a text is its
length, a font is whether it is valid, a digest is what it is computed from.

### FramePackets, PortableRenderer

`FramePackets` is the constructors of frames (`SpecAccepted`, `FillBarAccepted`,
`ThreeDAccepted`, which every frame of the instance passes), the checks of
`FrameError` in the code's order, and the packet: resources, draws, and
`PacketError` against the owner's generations.

`PortableRenderer` has one action per call: `Build`, `RenderValidated`,
`Render`, `BindDeviceGeneration`, `LoseDevice`, `Publish` (the owner moves a
generation) and `ReplaceRenderer`. Inside a render the code's steps are a chain
of operators over what is retained: grow the target and the buffers, upload,
write uniforms, submit passes, copy, map, read, unmap; a *fault* is the step at
which the graphics library fails. wgpu is external; the module's header lists
what is assumed of it. Concave polygons are given triangles by the code's fan
and nothing else, the width of an edge has no bound before it becomes a 32-bit
float, and both are as in the code. `spoiled` is a history: some call on this
renderer failed half way, and left a mapped buffer or an object that was never
allocated. From then on every frame may fail with `Internal`; a caller has to
replace the renderer, and `OnlySpoiledRenderersFail` says that no other renderer
fails so. `Vertices` is the one vertex buffer of a frame with filled shapes, from
whose ranges the passes draw, and `PaintStep` one of its submits.

### AggStroke, SoftwareFrame

`AggStroke` is `agg_line.rs`: the six routes a path command can take
(degenerate rectangles, rings, rectilinear chains, oblique chains, curves,
closed loops, and triangles beside them), each to closed contours; the clipping
of an edge to a box; cover and area of the cells an edge crosses; the sweep of a
row. Lengths are parts of a pixel, with fewer subpixels than the code's 256, and
doubles are rounded down to parts. Two notes from reading: masks of opposite
winding may differ by one level, because of the arithmetic shift of a negative
area; and a comment in `rasterize_closed_curve_loop` swaps the names of the two
orientations, which changes nothing. `StrokesAreSolidAndTight` leaves out loops
that close on themselves and loops no broader than the stroke, where a hole is
legal.

`SoftwareFrame` is `frame.rs`: validation, flattening, the paint of path and
image commands in both blend modes, clip rectangles, read-back and the wrapping
as a PNG. One channel stands for three; decoding sRGB is squaring; tiny-skia is
external. Three notes: in the Agg mode an opaque paint over a translucent pixel
may end one level low; `encode_png` refuses an oversized frame with a
validation error after rasterizing it, although its comment says "before any
allocation"; a broken curve is anchored at its last control point, where a
comment says "the finite end". A clip rectangle that begins above the canvas
keeps its full height after being moved in.

### Export

`Resolve` makes the frame of a constant scene of several series with the
engine's own clipping and tick operators; then each sink runs. PNG: `StartPng`
(plan: dimensions, widths, work and output estimates), `PaintPass` per pass, which
makes a mask or fails for its stroke, `EncodePng` or `FailPng` anywhere. PDF: `StartPdf`, `WriteContent` in one step,
`WriteObject` object by object with its offset, `FinishPdf` (cross references
and trailer) or `FailPdf` anywhere. Bytes are counted and not spelled: an
operator or object is as long as its text, which is what estimates and offsets
are about. A mask is the lines and boxes it is filled from.

A plan admits every width that is a float; the stroke may still be refused, with
the picture half painted. The stroker is tiny-skia's and external: an outline is
taken to keep within three widths of its line (a mitre ends at two) and to go more
than a third of a width beyond it on some axis (half of one across the line), and
between the two `StrokeResults` allows every outcome: the mask, or what
`ensure_stroked_path_is_representable` answers for an outline beyond `PathBound`,
or `Internal` where the outline is no path of floats at all. A stroke that is
finer than `Fine`, or a line shorter than that, may have no outline, which is
`Internal` too. `LargestFloat` is `f32::MAX` in the parts of a pixel the
module counts in.

`SinksAgree` reads the content with a small interpreter of the operators it uses
and compares what is painted, in order, with colour, transparency, clip and
width, at 72 dpi, where points and pixels are one. It leaves out what the two
sinks do differently on purpose or at least visibly: the width of the grid's
hairline; annotations, which only the picture has; line ends, for which the PDF
asks for round caps (`1 J`) and the picture has butt caps, so that two equal
points are a dot in one and nothing in the other; and overlaps of one series
with itself, since the PDF strokes path by path and the picture lays one mask
per series. A rectangle mark partly outside the plot is outlined along the
plot's border in the picture. Only `render_line_png` of the facade reaches a
sink from outside; the PDF sink is private to its crate and its tests.

### ArrayIngestion

One call of the extension's `render_line_png`: `CallNative` up to the point where
it gives up the interpreter lock (arguments, both arrays, segments, the checks of
the bridge's constructors and of `validate_request`, in the code's order, as
`Verdict`), `BuildScene` (a scene of its own with one series, by `SeriesStorage`'s
`Insert`), `DrawFrame` (by `EngineFrames`'s `ResolveLineFrame`, then the sink with
whatever it says) and `ReturnToPython`. `Write` is another thread that writes to
an array, at any moment the call does not hold the lock. An array is a view:
pointer, stride, length, element type and the chain of its owners, as NumPy and
the code describe it; `memory` has the values at the addresses that are
allocated. `ReachableSpan` is the code's checked arithmetic against the owner at
the end of the chain: `Extent` saturates for an array, as the code does, and every
other operation refuses what does not fit a `usize`. Values are whole numbers, NaN
or infinite. What lies between the lines of Python's argument parsing is one
input, `arguments`. NumPy's alignment flag is external (`IsAligned`).

### Models that share a run

`MCMatplotlib` puts the canvas and the extension's rasterizers into one run,
`MCExport` the storage, the exports and the arrays of `MCArrayIngestion`. No
variable of one would change under another, except the storage, which a call on
arrays takes for its own scene; so a part acts only while the others rest, and a
call begins only when there is no storage: states add up instead of multiplying
and each part's behaviours are the same as alone.

## 4 Runs, bounds and fairness

| Run | Instance | Shows |
|---|---|---|
| `cache` | two lease handles, two resources, two device generations, fences 0..2, at most 3 owners of a key and 2 submissions, two invalidations | Owners are counted exactly, nothing of an old device survives, nothing is retired before its fence. Two leases of the same key and an invalidation between any two of their calls are there; three owners are needed to reach the limit with two leases and a submission. |
| `session` | two interchangeable surfaces, two sizes, two revisions, a good and a bad frame, generations 0..2, three fences, two tickets | The queue holds only what is newest, a fresh token has its ticket, leases end with their operation, commits are admissible, what is drawable is ready, the session implements the gate. Two generations beyond the first allow loss, recovery and a second loss, and reach the exhaustion of each counter; three fences allow two commits and the exhaustion of the third. |
| `scene` | one axis, a range that fits a logarithmic axis and one that does not, two series identities but one epoch, one annotation, revisions 0..2 | Equal revisions mean equal contents, identities are granted once, the refinement of `VersionedScene`. Identities, epochs, capacity and revisions all run out, between edits, deletes, aborts and failed commits. |
| `canvas` | three calls nested, or two threads (`ThreadsInPairs`), three attempts, two resolutions, hybrid mode; a list of strokes, loops and triangles with every width and clip; frames of paths and images in both blend modes | Diagnostics are those of the newest delivery, older failures withdraw nothing, the figure is given back. Clipping only cuts, strokes are solid and tight, triangles tile (the three parts of `MasksAreExact`), gaps are not bridged, every paint is an overlay and stays in its clip (`PaintIsOverlay`). Three attempts allow one to be overtaken and a third to follow both. |
| `input` | one axis, coordinates -1, 0, 2 and 3, a pan by half the span, a history of three, every code of every table and one past it | Gestures end on the view they began on, undo and redo work while undisturbed. Of the six ranges one fits a logarithmic axis, so the owner's change of scales makes remembered views unacceptable; with three entries the oldest is dropped and a new view can cut off two. |
| `data` | twelve pieces with ties, duplicates, gaps at both ends, ill-formed segments and values that are not finite; up to 10 samples, chunks of 8, blocks of 2, revisions to 8; three viewports, three specifications; 3000 tick ranges; scenes of up to three series, one of them with a line of the smallest length there is, and strokes from the finest width to one beyond the largest float; eighteen views into three doubles and three floats, forwards, backwards, with a stride of zero, empty, one element beyond either end, without an owner that can be told, in six requests, one of them good, with one element differing from what was there at first | Storage and chunks keep the source, summaries are scans, the selection keeps the first, the last and the extremes of each bin and bridges nothing (`SelectionKeepsTheCurve`), frames draw the visible curve, ticks, cursor and samples agree; admitted files succeed (`PlannedFilesSucceed`), an admitted picture is refused for a stroke of its own alone and never delivered without one that cannot be drawn (`StrokesAreDrawnOrRefused`), files resolve, both sinks show one frame, and the pointer names what is painted on top (`ShownIsFound`, at every unit of the canvas and one beyond it). Of a caller's arrays only what lies in its allocation is read and what lies in it is not refused (`ReadsStayInside`), the picture is of what they held when they were passed (`DrawsWhatWasHeld`), and no layer refuses what another made of good input (`LayersAgree`): lengths reach the limit of points and pass it, segments and points those of a frame, and a single write at every address and moment is enough to tell a copy from a second look. |
| `window` | one window of two sizes, a size above the bound and the minimized one, two queued events, a frame counter of two values, generations 0..3 | Skips never latch, a settled size reaches the surface, a close is honoured, under fairness. Three resizes succeed one after the other before the generations run out; two queued events let the window change while an older change is still to be delivered. |
| `frames` | eight frames of lines, fills and bars, sides up to 6 on a device that takes 5, two frames in a row, one change of generation | A picture shows its frame and nothing else, room is found, only spoiled renderers fail, with a fault at any step. Two frames suffice for one to meet what the other left. |
| `failed_submission`, `stale_write`, `minimized_window`, `stretched_target` | as `session` with one surface, two threads, `window`, `frames` | The disagreements of section 6. |

`MCEngineSession` and `MCSceneTransaction` have a VIEW that drops `result`: no
operation reads it, and the properties of the runs that use the view do not
speak of it. `MCWindowHost` has one that drops `result`, `tokens` and the sizes the
core and its session keep: no step of the loop reads them, for the size presented is
the window's own. `MCInputRouting` has one that drops `focus`, likewise, and a
constraint, `OneHome`, that explores one canonical view and checks the states of
the others; only the home step reads the canonical view.

Bounds. `Coordinates` stands for the finite `f64`, `PanParts` for the tenth of the
span a pan moves by, `HistoryLimit` for the 64 of `VIEWER_HISTORY_LIMIT`;
`MaxGeneration` stands for `u64::MAX` (the code stops there too, so exhaustion is
modelled and not cut off), `MaxFence` for the last fence sequence, `MaxOwners`
for `usize::MAX`, `MaxPendingSubmissions`, `MaxPendingWork` and `MaxAnnotations`
for the constants of the code, `LastSeriesId`, `LastEpoch`, `LastAnnotationId`,
`MaxRevision`, `LastRevision` and `MaxSourceLen` for `u64::MAX` again, with the
code's behaviour there. `MaxPointsPerChunk`, `BlockSize`, `PointsPerBin`, the
`Max...` of frames, packets, renderer and exports, `Scale`, `MaxCells` and
`SnapLimit` are constants of the code made small, so that the limits are met.
`LargestFloat` is 6480 parts, as little as `StrokeAssumption` leaves for the
largest picture (`MaxDimension` and three pixels for the width of the grid within
a quarter of it, where the code has 16384 within 2^126), so that strokes within a
picture, beyond the bound of paths and beyond the largest float are all met; `Fine`
is one part, where tiny-skia has 1/4096 of a pixel.
`Word` stands for the largest `usize`, `MaxPoints` and `MaxSourcePoints` for the
limits of the extension and the bridge.
`MaxInvalidations`, `MaxSequence`, `MaxEvents`, `MaxFrames`, `MaxWritten` and the
`MaxGeneration` of `CanvasPublication` and `PortableRenderer` exist for model
checking alone.

Fairness is assumed in `WindowHost` only, where the event loop justifies it:
winit delivers what is queued before it waits and hands out a redraw that was
asked for in the same iteration, so neither starves the other (strong fairness
of `Deliver` and `HandleRedraw`), a loop told to exit ends (`Finish`), and
start-up proceeds (weak fairness of `Open`). The window system, the user and
the author of a stub program owe nothing. All other hosts may legally stop at
any time, and every other property is a safety property. Deadlock is checked
except where the system ends: a loop that has ended, a storage at its length
limit, frames used up.

## 5 Proofs

`EngineSession_proofs` proves, for every number of surfaces, sizes, revisions,
frames, generations and fences, from `CacheAssumption` and `SessionAssumption`
alone, that each invariant of the run `session` holds (`QueueIsMinimal`,
`FreshTokensAreHonoured`, `NoLeaseLeaks`, `CommitsAreAdmissible`,
`ActiveSurfacesAreReady`), that the session is typed, that revisions shown never
overtake those requested, that a renderer is current and that surfaces fall with
the device (`TypeCorrect`, `RevisionsNeverOvertake`, `RendererIsCurrent`,
`SurfacesAreSound`), and that the session implements
the gate (`SessionImplementsGate`).

The argument: `IInv` is inductive. It strengthens the invariants in two places.
`FreshTokenHasTicket` speaks of running sessions, but a session may be lost,
keep its tokens and be recovered: `TicketsKept` says it of every state from
which the session can run again, and it needs `TokensBehind` (no token is ahead
of the session, and the work generation of a token determines its device) to
survive a step that raises a generation. `NoLeaseOutlivesItsOperation` and
`CommitIsAdmissible` follow from `Quiet`, which also bounds the fences the
cache has seen. The proof that a step preserves `IInv` has one lemma per
operation; the operations of the packet owner rest on lemmas about
`CacheState` (lease then drop is a no-op on owners, lease, submit and complete
leave a quiet cache). The refinement shows that each operation maps to a step
of the gate or a stutter, under `IInv`.

`SceneTransaction_proofs` proves, for all axes, ranges, annotations and limits,
from `SceneAssumption` alone, every property of the run `scene`, and beyond it
that scales always fit both views, that the dead stay dead and that component
revisions stay behind the scene's. Its `IInv` strengthens the properties in four
places. That identities are granted once needs `GrantsFollowCounters`: what lies
at or beyond a counter was never granted, and an exhausted counter lies beyond
everything. That the dead stay dead needs `AnnotationsGranted`: nothing is
committed or staged without a grant. `RevisionsNameContents` compares a snapshot
with the scene, and is inductive only with `SnapshotBehindScene`: the snapshot's
revisions are not ahead, so one that moves now differs from it. The refinement
needs `StagedSeriesGrow`: a series is marked as changed without being compared,
so "the version moves only with the contents" holds because staging a series
always makes it longer than the one in the scene. The proof has one lemma per
group of operations, and a last theorem that maps each step to a step of
`VersionedScene` or a stutter.

`CanvasPublication_proofs` proves the three properties of the run `canvas` that
are about the canvas, for any number of calls, resolutions and attempts. `IInv`
adds to the diagnostics what they rest on: each running call has a generation of
its own, at most the current one, and has delivered by the time it publishes.
`NInv` is about nested calls: the calls around the innermost one are in
callbacks, and each call found the figure as the next one around it that renders
had made it. So whichever call returns leaves the figure to the next one as it
was, which a statement about the figure alone could not carry through a step.

`Viewer_proofs` proves the viewer's properties, for all axes, sets of integers
as coordinates, pan parts and history limits, from `ViewerAssumption` alone,
among them that the history stays usable, whatever the owner does.
`HistoryFollowsScene` is not inductive: a step back moves the index whether or
not the scene accepts the entry. `IInv` adds `EntriesFit` (as long as the owner
leaves view, scales and revisions alone, every entry fits its scales and a
revision is left), and with it that neighbours of the history differ, so that a
step along it is always accepted and always a change. The refinement maps each
undisturbed step to a visit, a step back, a step forward or a stutter, and a
viewer alone with its scene implements `ViewUndo` outright; its lemmas are about
the sequences on both sides of the index when `push` cuts off the tail and drops
the oldest entry. The module also proves that `InputRouting` implements `Viewer`
for every code, key and limit (`InputImplementsViewer`): only gestures with an
axis are routed, a gesture on an axis the plot lacks changes nothing, and every
other report is one of the viewer's own steps. So the viewer's invariant and its
undo hold under input (`InputKeepsViewerSound`, `RoutedInputUndoes`).

`ResourceCache_proofs` proves, for every number of keys, leases and fences, that
owners are counted, that nothing of an old device is left and that no submission
is retired before a completion covers its fence. `OwnersCounted` is about the
leases of the current lifetime; a lease of an older one may still be dropped,
and must not be counted when its identity is met again, so `IInv` says whose
device each lease is of. It also says that fences in flight were handed out by
this lifetime, which makes an accepted submission a new one.

`EngineSession_proofs` also shows that every step of a `WindowHost` is one
operation of the session or an answer that leaves the session alone, so what it
proves of sessions holds of one driven by a window (`WindowDrawsWhatIsReady`,
`WindowImplementsGate`). A redraw is three steps with the window system between
them: the invariant says that the token begun is the token submitted. On top of
it, a skip is only ever due to a condition noted since the last submission
(`NotesNeverLatch`), and the window counts as closed only if its session is.

`Export_proofs` proves, for all scenes, sheets and sizes, that a document under
way is a prefix of the objects its content asks for, with an offset for each one
written (`FilesGrowInOrder`), and hence that every reference of a delivered
document resolves and every offset is where its object begins. The frame has to
be whole for that, so the proof also follows the clipping of curves and the
choice of ticks into `EngineFrames`. It needs the refusal of a frame whose axis
admits no ticks, a guard of `Resolve` that no run reaches.

It also proves, with `SinksFollowPlans` as what the steps keep, what becomes of an
admitted export. An admitted file fails for want of memory alone
(`AcceptedFilesSucceed`), which is a count. Every operator is at most 64 bytes long,
because an admitted page gives each of its numbers five digits before the point; a
page has no more of them than points, segments and glyphs and a few for each series,
and for each of these the estimate has 64 bytes or more. What it has for objects
covers the list of states the page carries for its series, and what is left over
the digits of the cross references: so neither the content, nor an object, nor the
tail is refused by the writer that checks it again. The assumptions on the limits
are those of the code, sides below 10^5 (`MAX_DIMENSION` is 16384) and files below
10^9 bytes (`MAX_OUTPUT_BYTES` is 67108864). That resolutions are below 10^9 too is
a bound of the model, whose `Digits` counts to nine; the two numbers of the
document's information are the only ones it is about, and the estimate has room for
the 309 digits of any double.

An admitted picture may still be refused half way, for a stroke of a curve or a mark
that with the picture's side passes the bound of paths or is so fine that it has no
outline; and for nothing else, and it shows nothing that lies beside it
(`AdmittedPicturesArePainted`). This is geometry: grid lines end at the sides of the
picture, curves were looked at by the plan, glyphs and the moved boxes of
annotations are cut at the canvas, and a shaft that leaves it is left out; so an
outline that leaves the bound does so by its width, never by its place. That the
grid is not refused needs two facts: its lines run the height or the width of the
plot, and flattened to pixels they are a pixel long at least, which is no
fine thing (`StrokeAssumption`).

`SeriesStorage_proofs` proves that, however samples arrive, the storage holds
each valid one once, at its index, and as gaps and segments exactly the maximal
runs of missing and of valid samples (`StorageFollowsSource`, by the invariant
`StorageIInv`: gaps apart, points in order, segments those of the points); and
that the chunks hold the points end to end, each in its segment and between its
gaps, and agree on which segments continue (`ChunksFollowStorage`). Both are for
all pieces, limits and sequences of accepted and refused calls.

The same module proves what the run `data` checks of arrays, for all views,
owners, requests, values and writes. Of the constants it takes what `IngestAssumption`
says: an allocation ends within the address space, an aligned element within one
has a value, and the extension's limit of points is neither above the bridge's nor
above the storage's revisions. `IngestIInv` keeps of a call under way what was
accepted of it and that its columns were made of the memory of that moment, which
no write can change; of a call that ended it keeps the reason, and of a refused
span that some array was not reachable. The properties do not carry themselves:
`DrawsWhatWasHeld` speaks of the series alone and needs to know which columns will
be inserted, `LayersAgree` needs the acceptance itself. From it follow, by lemmas
of their own: the span arithmetic says exactly that the first and the last element
lie in the allocation, and all others lie between them, with the sign of the
stride deciding which is which (`ReadsAreBounded`); the scan for segments, a
recursive function over the pairs, leaves the maximal runs of finite pairs, which
is what the bridge asks for and what the storage calls a valid piece; the gaps the
bridge writes fall outside them; and so the columns are those the storage takes
without complaint and holds sample by sample (`DrawnIsWhatWasHeld`,
`LayersNeverDisagree`).

`PortableRenderer_proofs` proves, for all frames, limits of the device, faults and
sequences of calls, from `RendererAssumption` and `FramesAreConstructed` (frames
are what the constructors accept), that a delivered picture shows its own frame
(`PicturesShowTheirFrames`), that a frame is refused for want of room only if it
is itself too large (`RoomIsAlwaysFound`), and that a call fails validation only
on a renderer on which an earlier one failed half way
(`ValidationFailsOnlyWhenSpoiled`). `IInv` adds to the promises what the next call
builds on: sizes within the device's limits, and, unless the renderer is spoiled,
objects that are allocated and not mapped. The argument follows a call: each step
leaves the limits kept and raises nothing but an exhausted memory as long as it
began on usable objects; the upload puts the triangles of all shapes end to end,
and each pass finds its own at the place where the upload put them; so the target
is the frame's clearing followed by one paint per shape. That the paints are in
order, each shape once, rests on what the constructors check: an order of fills
and bars without a repetition that names each of them.

The last three modules are about recursive functions: the filter of valid samples,
the merge of adjacent gaps, the scan for segments, the walk along them, the sums of
lengths, the concatenation of draws and the sequence of passes. No
theorem can take an operator as a parameter, so the library's induction theorems
cannot be used; instead each recursion has a proof of its own by the least
counterexample (`LeastNatural`, from the well-foundedness of the naturals).

Only model-checked:

* liveness (`CloseIsHonoured`, `SettledSizeReachesSurface`), and everything about
  ENABLED, which are out of the prover's reach;
* `AggStroke` and `SoftwareFrame`, which declare RECURSIVE operators; tlapm has no
  SMT backend for a module that does;
* the levels of detail (`SummaryIsScan`, `SelectionKeepsTheCurve`): their
  definitions rest on powers and on `SelectSeq`, for which the prover has no laws;
* what the frames and the sinks compute: `PathsAreVisibleCurve`, `ReadingsAgree`,
  `ShownIsFound`, `SinksAgree`. Nothing rules out proofs of the first few by the
  method above; that of the last would follow a whole rendering through an
  interpreter.

## 6 Findings

* `submit_frame` is documented as "an all-or-nothing packet publication path",
  and `submit` says "A failed submission must not mutate the runtime's observed
  revision." A publication that fails while its packet is prepared, rendered or
  committed has already advanced `latest_scene_revision` and cleared the
  surface's pending reconfiguration (run `failed_submission`).
* API 0005 section 2 says "A stale attempt (generation superseded) must not
  overwrite newer output." The check and the write are two steps, and the lock
  is held during neither, so an attempt superseded in between overwrites the
  newer output and only then fails (run `stale_write`; in one thread the same
  happens when a writer prints the canvas again).
* `present.rs` says a minimized, zero-area window "reports a suspend skip" and
  `surface.rs` that it "maps to a skip in the caller". On the way there the
  `Resized` handler has turned the zero area into a close (run
  `minimized_window`).
* The portable renderer expands a frame into triangles in screen space, and the
  shader maps pixels to normalized device coordinates by the frame's size. The
  target may be larger, retained from an earlier frame or rounded up to a
  doubling; no pass sets a viewport, and normalized coordinates span the target: the frame is stretched over it and its corner
  copied out (run `stretched_target`).

Two more that no run repeats. ADR 0005 says device loss "rebuilds from the latest
retained CPU Scene/data and valid semantic state"; `prepare` retains a frame
before it is known to render, and when the backend rejects that frame, every
`recover_device` after a loss replays it and fails. `_resolve_dpi` says
"`dpi='figure'` resolves to the figure's original DPI"; inside a callback of a
drawing attempt it resolves to that attempt's temporary resolution. Both models
behave so.

Not a disagreement with any text, but worth knowing: `apply_history_previous`
and `apply_history_next` move the index before the transaction that displays
the entry. When the scene refuses it, because its owner made an axis
logarithmic through `scene_mut` since, the step returns an error with the index
moved: the history no longer points at the view on display, and the next view
step cuts off an entry the user never left. This is why `HistoryFollowsScene`
and `UndoUndisturbed` speak of an owner who changes neither view nor scales.

Further hazards no property is about: recovery sets every surface to active,
those suspended before the loss included; a scene owner that restarts at a lower
revision is dropped as stale for ever, since the watermark survives recovery;
two threads that print one figure may leave it at each other's resolution (the
lock covers the publication state only); a refused request clears diagnostics
without asking whose they are. No document promises otherwise, and the models
contain each of them.

## 7 What is not modelled

Of the modelled components: failures of `try_reserve` in the ticket queue and in
the series storage (they return before any change), the queue's counters of
cancelled and dropped work, `ensure_owner` and the guard against re-entered
pumping (the type system and the single owner make them unreachable in one
thread), exhaustion of surface identities, a lease handed to another cache, the
per-packet resource limit; the router's `state_scope`, and the gesture buffer
and pointer-motion report of `input.rs`, which only tests use; the stub's report
counters and `present_offscreen`; the renderer's unused surface hand-off.

Components left out: the fonts and glyphs of the fixture (`text.rs` shapes no other
text), the engine's bridge to packets, the native transport
wrapper and the facade's public types (they delegate and translate errors), the Metal probe
(no state), the extraction of Python dictionaries, the drawing adapter of
`lumenplot_mpl` (a pure inspection of artists), benchmarks and repository
tooling. Rounding of `f64` is modelled nowhere except where a module's header
says how integers stand for it.
