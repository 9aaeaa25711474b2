--------------------------- MODULE ArrayIngestion ---------------------------
(***************************************************************************)
(* A Python caller's two NumPy arrays on their way to a picture:           *)
(* crates/lumenplot-python/src/lib.rs (render_line_png) and the bridge of  *)
(* crates/lumenplot/src/lib.rs.                                            *)
(*                                                                         *)
(* While the interpreter lock is held the arrays are examined and copied   *)
(* and the runs of finite pairs are found.  The lock is then given up: the *)
(* picture is made of the copy while other threads write to the arrays.    *)
(* The bridge checks once more what the extension found, and the engine    *)
(* what the bridge hands on.                                               *)
(*                                                                         *)
(* An array is a view: elements at ptr, ptr + stride, ... of an allocation *)
(* at the end of the chain of its owners.  Addresses are numbers up to     *)
(* Word; memory maps the address of an element to its value.               *)
(***************************************************************************)
EXTENDS EngineFrames

CONSTANTS
  Arrays,          \* what a caller may pass for x and y
  Requests,        \* the other arguments: geometry, style and resolution
  FirstMemory,     \* what is in memory at first
  Scribbles,       \* what other threads write to it
  MaxWritten,      \* the bound on elements that differ from FirstMemory
  Word,            \* the largest usize
  Alignment,       \* align_of::<f64>()
  MaxPoints,       \* MAX_POINTS of the extension
  MaxSourcePoints  \* MAX_SOURCE_POINTS of the bridge

VARIABLES
  memory,  \* the values of the elements that are allocated, by address
  call     \* the call in progress

ingestVars == <<memory, call>>

NoCall == [stage |-> "idle"]

Number(n) == [number |-> n]
NaN == [nan |-> TRUE]
Infinite == [infinite |-> TRUE]
IsFinite(value) == "number" \in DOMAIN value

Doubles == [number : Int] \cup {NaN, Infinite}
Owners == [ndarray : BOOLEAN, nbytes : BOOLEAN, buffer : BOOLEAN,
           ptr : Nat, itemsize : Nat, size : Nat]
Arguments == [arguments : {"ok", "type"}, finite : BOOLEAN,
              viewport : [minX : Int, maxX : Int, minY : Int, maxY : Int],
              canvas : Int \X Int, plot : [x0 : Int, y0 : Int, x1 : Int, y1 : Int],
              perInch : Int, width : Int, dpi : Int]
Views == [exact : BOOLEAN, ndim : Nat, length : Nat, ptr : Nat, stride : Int,
          dtype : {"f64", "f32", "other"}, shared : BOOLEAN, owners : Seq(Owners)]

-----------------------------------------------------------------------------
(* The allocation under a view *)

ItemSize(a) == IF a.dtype = "f32" THEN 4 ELSE 8

\* The view as the owner of its own elements.
Self(a) == [ndarray |-> TRUE, nbytes |-> TRUE, buffer |-> TRUE,
            ptr |-> a.ptr, itemsize |-> ItemSize(a), size |-> a.length]

\* resolve_root_extent walks along `base` to the end.
Root(a) == Last(<<Self(a)>> \o a.owners)

Resolvable(a) ==
  /\ \A o \in ToSet(a.owners) : o.ndarray \/ o.nbytes
  /\ Root(a).ndarray \/ (Root(a).buffer /\ Root(a).size > 0)

\* saturating_mul for an array, the buffer's length in bytes for another owner.
Extent(owner) ==
  IF owner.ndarray THEN Min({owner.itemsize * owner.size, Word}) ELSE owner.size

\* Mutant of Ahead: one step too many, the end as of a slice.
AheadOfEnd(a) == IF a.length > 1 /\ a.stride > 0 THEN a.length * a.stride ELSE 0

\* How far the elements reach below the first one, and above it.
Back(a) == IF a.length > 1 /\ a.stride < 0 THEN (a.length - 1) * (-a.stride) ELSE 0
Ahead(a) == IF a.length > 1 /\ a.stride > 0 THEN (a.length - 1) * a.stride ELSE 0

\* Every operation is checked: what does not fit a usize is refused.
SpanFits(a) ==
  LET end == a.ptr + Ahead(a) + ItemSize(a)
  IN /\ Back(a) <= Word /\ end <= Word
     /\ a.ptr - Back(a) >= Root(a).ptr
     /\ end - Root(a).ptr <= Extent(Root(a))

ReachableSpan(a) ==
  /\ Resolvable(a)
  /\ a.ptr # 0 /\ Root(a).ptr # 0
  /\ IF a.length = 0 THEN a.ptr % Alignment = 0 ELSE SpanFits(a)

\* The bytes of the element k of a view lie in its allocation.
ElementInside(a, k) ==
  LET at == a.ptr + k * a.stride
  IN Root(a).ptr <= at /\ at + ItemSize(a) <= Root(a).ptr + Extent(Root(a))

\* NumPy's flag: an empty array has it wherever it points.
IsAligned(a) ==
  \/ a.length = 0
  \/ /\ a.ptr % ItemSize(a) = 0
     /\ a.length > 1 => a.stride % ItemSize(a) = 0

ASSUME IngestAssumption ==
  /\ Word \in Nat /\ Alignment \in Nat \ {0}
  /\ MaxPoints \in Nat /\ MaxSourcePoints \in Nat
  /\ MaxPoints <= MaxSourcePoints /\ MaxPoints <= LastRevision
  /\ \A a \in Arrays :   \* an allocation ends within the address space
       /\ a.ptr <= Word
       /\ Resolvable(a) => Root(a).ptr + Extent(Root(a)) <= Word
       /\ IsAligned(a) =>   \* and everything in it has a value
            \A k \in 0 .. (a.length - 1) :
              ElementInside(a, k) => a.ptr + k * a.stride \in DOMAIN FirstMemory
  /\ FirstMemory \in [DOMAIN FirstMemory -> Doubles]
  /\ Arrays \subseteq Views /\ Requests \subseteq Arguments
  /\ Scribbles \subseteq Doubles

-----------------------------------------------------------------------------
(* Copying an array *)

\* The elements in their logical order.
Elements(a, in) == [k \in 1 .. a.length |-> in[a.ptr + (k - 1) * a.stride]]

\* copy_array: why it is refused, "copied" otherwise.
CopyVerdict(a, in) ==
  IF ~a.exact \/ a.ndim # 1 THEN "kind"
  ELSE IF a.length > MaxPoints THEN "limit"
  ELSE IF ~IsAligned(a) THEN "alignment"
  ELSE IF ~ReachableSpan(a) THEN "span"
  ELSE IF a.dtype = "other" THEN "kind"
  ELSE IF a.shared THEN "borrow"
  ELSE IF Infinite \in ToSet(Elements(a, in)) THEN "infinite"
  ELSE "copied"

FinitePair(x, y, k) == IsFinite(x[k]) /\ IsFinite(y[k])

\* valid_segments: where a run begins is remembered until it ends.
TakePair(at, finite, k) ==
  IF finite THEN IF at.open THEN at ELSE [at EXCEPT !.open = TRUE, !.start = k - 1]
  ELSE IF at.open
  THEN [at EXCEPT !.open = FALSE,
                  !.segments = Append(@, [start |-> at.start, end |-> k - 1])]
  ELSE at

Scan(x, y) ==
  LET scan[k \in 0 .. Len(x)] ==
        IF k = 0 THEN [open |-> FALSE, start |-> 0, segments |-> <<>>]
        ELSE TakePair(scan[k - 1], FinitePair(x, y, k), k)
  IN scan[Len(x)]

\* Mutant of ValidSegments: a run that lasts to the end is lost.
ValidSegmentsClosed(x, y) == Scan(x, y).segments

ValidSegments(x, y) ==
  LET end == Scan(x, y)
  IN IF end.open
     THEN Append(end.segments, [start |-> end.start, end |-> Len(x)]) ELSE end.segments

-----------------------------------------------------------------------------
(* The bridge's own checks *)

GeometryValid(r) ==
  /\ r.finite
  /\ r.viewport.minX < r.viewport.maxX /\ r.viewport.minY < r.viewport.maxY
  /\ r.canvas[1] > 0 /\ r.canvas[2] > 0
  /\ 0 <= r.plot.x0 /\ r.plot.x0 < r.plot.x1 /\ r.plot.x1 <= r.canvas[1]
  /\ 0 <= r.plot.y0 /\ r.plot.y0 < r.plot.y1 /\ r.plot.y1 <= r.canvas[2]
  /\ r.perInch > 0

StyleValid(r) == r.finite /\ r.width > 0

\* validate_request: the segments are in order, and exactly what is finite is in
\* one of them.
SegmentsMatch(x, y, segments) ==
  LET Before(i) == IF i = 1 THEN 0 ELSE segments[i - 1].end
      AnyFinite(start, end) == \E k \in (start + 1) .. end : FinitePair(x, y, k)
      AllFinite(start, end) == \A k \in (start + 1) .. end : FinitePair(x, y, k)
  IN /\ \A i \in DOMAIN segments :
          /\ segments[i].start < segments[i].end /\ segments[i].end <= Len(x)
          /\ i > 1 => segments[i].start > Before(i)
          /\ ~AnyFinite(Before(i), segments[i].start)
          /\ AllFinite(segments[i].start, segments[i].end)
     /\ ~AnyFinite(Before(Len(segments) + 1), Len(x))

RequestValid(x, y, segments, r) ==
  /\ Len(x) = Len(y) /\ Len(x) <= MaxSourcePoints
  /\ r.finite /\ r.dpi > 0
  /\ Infinite \notin ToSet(x) \cup ToSet(y)
  /\ SegmentsMatch(x, y, segments)

\* normalize_gaps: what is in no segment is NaN, one of a pair that is finite too.
NormalizeGaps(values, segments) ==
  [k \in DOMAIN values |->
     IF \E i \in DOMAIN segments : segments[i].start < k /\ k <= segments[i].end
     THEN values[k] ELSE NaN]

\* The columns as the engine's series input takes them.
Columns(x, y, segments) ==
  LET xs == NormalizeGaps(x, segments)
      ys == NormalizeGaps(y, segments)
  IN [cells    |-> [k \in DOMAIN xs |->
                      IF FinitePair(xs, ys, k)
                      THEN [x |-> xs[k].number, y |-> ys[k].number] ELSE NotFinite],
      segments |-> segments]

-----------------------------------------------------------------------------
(* The engine's constructors *)

\* Viewport::from_bounds
ViewportValid(r) ==
  r.finite /\ r.viewport.minX < r.viewport.maxX /\ r.viewport.minY < r.viewport.maxY

\* LogicalSize, LogicalRect, LineStyle and LineFrameSpec::new
FrameSpecValid(r) ==
  /\ r.finite
  /\ r.canvas[1] > 0 /\ r.canvas[2] > 0
  /\ r.plot.x0 < r.plot.x1 /\ r.plot.y0 < r.plot.y1
  /\ r.width > 0 /\ r.perInch > 0
  /\ r.plot.x0 >= 0 /\ r.plot.y0 >= 0
  /\ r.plot.x1 <= r.canvas[1] /\ r.plot.y1 <= r.canvas[2]

-----------------------------------------------------------------------------
(* The call *)

IngestInit ==
  /\ Init
  /\ memory = FirstMemory
  /\ call = NoCall

\* Another thread writes to an array: whenever the call does not hold the lock.
Write ==
  \E at \in DOMAIN memory, value \in Scribbles :
    /\ Cardinality({a \in DOMAIN memory \ {at} : memory[a] # FirstMemory[a]}) < MaxWritten
    /\ memory' = [memory EXCEPT ![at] = value]
    /\ UNCHANGED <<vars, call>>

\* The reason stands for the error's code and message, which differ from kind to
\* kind of the engine's errors.
Ended(x, y, reason) ==
  [stage |-> "ended", reason |-> reason, x |-> x, y |-> y]

\* What the extension and the bridge say of the arguments, in their order.
Verdict(x, y, r) ==
  LET xs == Elements(x, memory)
      ys == Elements(y, memory)
      segments == ValidSegments(xs, ys)
  IN IF r.arguments # "ok" THEN r.arguments
     ELSE IF CopyVerdict(x, memory) # "copied" THEN CopyVerdict(x, memory)
     ELSE IF CopyVerdict(y, memory) # "copied" THEN CopyVerdict(y, memory)
     ELSE IF x.length # y.length THEN "lengths"
     ELSE IF ~GeometryValid(r) \/ ~StyleValid(r) THEN "geometry"
     ELSE IF r.dpi <= 0 THEN "dpi"
     ELSE IF ~RequestValid(xs, ys, segments, r) THEN "segments"
     ELSE "accepted"

\* render_line_png up to detach: one step, the lock is held.  Copying may run out
\* of memory from the first array on.
CallNative(x, y, r) ==
  LET xs == Elements(x, memory)
      ys == Elements(y, memory)
  IN /\ call.stage = "idle"
     /\ \/ /\ Verdict(x, y, r) # "accepted"
           /\ call' = Ended(x, y, Verdict(x, y, r))
        \/ /\ r.arguments = "ok" /\ CopyVerdict(x, memory) \in {"copied", "infinite"}
           /\ call' = Ended(x, y, "AllocationFailed")
        \/ /\ Verdict(x, y, r) = "accepted"
           /\ call' = [stage |-> "detached", x |-> x, y |-> y, seen |-> memory, request |-> r,
                       columns |-> Columns(xs, ys, ValidSegments(xs, ys))]
     /\ UNCHANGED <<vars, memory>>

\* Mutant of BuildScene: the arrays are read when the lock is gone.
BuildSceneInPlace ==
  /\ call.stage = "detached"
  /\ LET xs == Elements(call.x, memory)
         ys == Elements(call.y, memory)
     IN Insert("ArbitraryXY", Columns(xs, ys, ValidSegments(xs, ys)))
  /\ call' = IF outcome' # "ok" THEN Ended(call.x, call.y, outcome')
             ELSE [call EXCEPT !.stage = "built"]
  /\ UNCHANGED memory

\* Without the lock: a scene of its own with one series.  A refusal of the
\* engine ends the call.
BuildScene ==
  /\ call.stage = "detached"
  /\ \/ /\ ~ViewportValid(call.request)
        /\ call' = Ended(call.x, call.y, "InvalidInput")
        /\ UNCHANGED vars
     \/ /\ ViewportValid(call.request)
        /\ Insert("ArbitraryXY", call.columns)
        /\ call' = IF outcome' # "ok" THEN Ended(call.x, call.y, outcome')
                   ELSE IF ~FrameSpecValid(call.request)
                   THEN Ended(call.x, call.y, "InvalidInput")
                   ELSE [call EXCEPT !.stage = "built"]
     \/ /\ call' = Ended(call.x, call.y, "AllocationFailed")
        /\ UNCHANGED vars
  /\ UNCHANGED memory

\* resolve_line_frame, then the PNG sink with whatever it says.
DrawFrame ==
  LET frame == ResolveLineFrame(call.request.viewport, Linear, call.request)
  IN /\ call.stage = "built"
     /\ \/ /\ IsRefused(frame)
           /\ call' = Ended(call.x, call.y, frame.error)
        \/ /\ ~IsRefused(frame)
           /\ \E result \in {"delivered", "sink"} : call' = Ended(call.x, call.y, result)
     /\ UNCHANGED <<vars, memory>>

\* The exception or the bytes are handed to the caller; the scene is gone.
ReturnToPython ==
  /\ call.stage = "ended"
  /\ call' = NoCall
  /\ storage' = NoStorage /\ outcome' = "ok" /\ source' = <<>> /\ chunked' = {}
  /\ UNCHANGED memory

IngestNext ==
  \/ \E x, y \in Arrays, r \in Requests : CallNative(x, y, r)
  \/ Write \/ BuildScene \/ DrawFrame \/ ReturnToPython

IngestSpec == IngestInit /\ [][IngestNext]_<<vars, ingestVars>>

-----------------------------------------------------------------------------
(* Properties *)

Inside(a) == \A k \in 0 .. (a.length - 1) : ElementInside(a, k)

\* No read leaves the allocation, and no array is refused that stays in it: what
\* has been copied lay within the allocation with every byte, and one whose span
\* was refused has an element outside, an owner that cannot be told, a null
\* pointer or, being empty, a pointer no slice may have.
ReadsStayInside ==
  /\ call.stage \in {"detached", "built"} => Inside(call.x) /\ Inside(call.y)
  /\ call.stage = "ended" /\ call.reason = "span" =>
       \E a \in {call.x, call.y} :
         \/ ~Inside(a) \/ ~Resolvable(a) \/ a.ptr = 0 \/ Root(a).ptr = 0
         \/ a.length = 0 /\ a.ptr % Alignment # 0

\* The series holds what the arrays held when they were passed, pair by pair in
\* their logical order with a gap wherever one of a pair was not finite, whatever
\* has been written to them since.
DrawsWhatWasHeld ==
  call.stage = "built" =>
    LET xs == Elements(call.x, call.seen)
        ys == Elements(call.y, call.seen)
    IN source = [k \in 1 .. call.x.length |->
                   IF FinitePair(xs, ys, k) THEN [x |-> xs[k].number, y |-> ys[k].number]
                   ELSE Absent]

\* The three layers agree on what is valid: the bridge accepts the segments that
\* the extension found, and the engine the columns, the geometry and the style
\* that the bridge accepted; only a limit of the frame can refuse them, so that no
\* caller is told of an error in what a layer below made of good input.
LayersAgree ==
  call.stage = "ended" =>
    call.reason \notin {"segments", "InvalidInput", "NonFiniteCanonical", "TopologyViolation",
                        "UnsupportedCapability", "RevisionExhausted"}

\* What every step of a call keeps, so that the properties hold: while it is
\* under way, what was accepted of the arguments, and the columns made of what was
\* in memory then; and of a call that ended, that the reason is one of those that
\* its caller is to hear of.
IngestIInv ==
  /\ memory \in [DOMAIN FirstMemory -> Doubles]
  /\ call.stage \in {"idle", "detached", "built", "ended"}
  /\ call.stage \in {"idle", "detached"} => storage = NoStorage /\ source = <<>>
  /\ call.stage \in {"detached", "built"} =>
       /\ "stage" \in DOMAIN call
       /\ call.x \in Arrays /\ call.y \in Arrays /\ call.request \in Requests
       /\ call.seen \in [DOMAIN FirstMemory -> Doubles]
       /\ CopyVerdict(call.x, call.seen) = "copied"
       /\ CopyVerdict(call.y, call.seen) = "copied"
       /\ call.x.length = call.y.length
       /\ GeometryValid(call.request) /\ StyleValid(call.request)
       /\ LET xs == Elements(call.x, call.seen)
              ys == Elements(call.y, call.seen)
          IN call.columns = Columns(xs, ys, ValidSegments(xs, ys))
  /\ call.stage = "built" => source = Samples(call.columns)
  /\ call.stage = "ended" =>
       /\ call.reason \in {"type", "kind", "limit", "alignment", "span", "borrow", "infinite",
                           "lengths", "geometry", "dpi", "AllocationFailed",
                           "CapacityExceeded", "delivered", "sink"}
       /\ call.reason = "span" =>
            \E a \in {call.x, call.y} : a \in Arrays /\ ~ReachableSpan(a)
=============================================================================
