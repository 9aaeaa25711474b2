---------------------------- MODULE SeriesStorage ----------------------------
(***************************************************************************)
(* One data series of the engine: crates/lumenplot-engine/src/data.        *)
(*                                                                         *)
(* A caller hands in columns of samples and, optionally, the segments in   *)
(* which they are valid (SeriesInput::from_owned_xy).  Everything outside   *)
(* the segments becomes a gap.  The storage keeps the valid points, the     *)
(* gaps, the logical segments (maximal runs of consecutive source indices) *)
(* and the points cut into chunks of a fixed size, every chunk with a       *)
(* revision of its own.  An append joins new samples to the old ones and    *)
(* cuts everything anew, unless it brings only gaps.                        *)
(*                                                                         *)
(* Positions are half-open ranges counted from zero, as in the code; the    *)
(* k-th element of a TLA+ sequence is the code's element k - 1.             *)
(***************************************************************************)
EXTENDS Integers, FiniteSetsExt, SequencesExt

CONSTANTS
  Pieces,             \* what a caller may hand in: [cells], or [cells, segments]
  MaxSourceLen,       \* the largest source length (u64::MAX in the code)
  MaxPointsPerChunk,  \* MAX_POINTS_PER_CHUNK
  LastRevision        \* the largest chunk revision (u64::MAX in the code)

ASSUME SeriesAssumption ==
  /\ MaxSourceLen \in Nat
  /\ MaxPointsPerChunk \in Nat \ {0}
  /\ LastRevision \in Nat \ {0}

VARIABLES
  storage,  \* the SeriesStorage, NoStorage before the series is inserted
  outcome,  \* "ok", or the SceneErrorKind of the last refusal
  source,   \* history: the samples accepted so far, Absent where there is none
  chunked   \* history: every chunk that was ever part of the storage

vars == <<storage, outcome, source, chunked>>

NoStorage == [topology |-> "none"]
NotFinite == [finite |-> FALSE]   \* a sample with a NaN or an infinity
Absent == [present |-> FALSE]

Topologies == {"MonotonicX", "ArbitraryXY"}

Refused(kind) == [error |-> kind]
IsRefused(r) == "error" \in DOMAIN r

Values == [x : Int, y : Int]
Ranges == [start : Nat, end : Nat]

ASSUME PieceAssumption ==
  \A piece \in Pieces :
    /\ piece.cells \in Seq(Values \cup {NotFinite})
    /\ "segments" \in DOMAIN piece => piece.segments \in Seq(Ranges)

-----------------------------------------------------------------------------
(* Normalising the caller's columns *)

SegmentsOf(piece) ==
  IF "segments" \in DOMAIN piece THEN piece.segments
  ELSE IF piece.cells = <<>> THEN <<>>
  ELSE <<[start |-> 0, end |-> Len(piece.cells)]>>

WellFormed(len, segments) ==
  \A i \in DOMAIN segments :
    /\ segments[i].start < segments[i].end
    /\ segments[i].end <= len
    /\ i > 1 => segments[i].start > segments[i - 1].end

\* The elements of a sequence that belong to a set, in their order.
Filtered(s, set) ==
  LET taken[i \in 0 .. Len(s)] ==
        IF i = 0 THEN <<>>
        ELSE IF s[i] \in set THEN Append(taken[i - 1], s[i]) ELSE taken[i - 1]
  IN taken[Len(s)]

\* The numbers from 0 to n that belong to a set, in ascending order.
Ascending(n, set) == Filtered([k \in 1 .. (n + 1) |-> k - 1], set)

Positions(len, segments) ==
  Ascending(len, UNION {s.start .. (s.end - 1) : s \in ToSet(segments)})

NonEmptyRanges(ranges) == Filtered(ranges, {r \in ToSet(ranges) : r.start < r.end})

GapsBetween(len, segments) ==
  LET ends   == <<0>> \o [i \in DOMAIN segments |-> segments[i].end]
      starts == [i \in DOMAIN segments |-> segments[i].start] \o <<len>>
  IN NonEmptyRanges([i \in DOMAIN ends |-> [start |-> ends[i], end |-> starts[i]]])

\* The first sample that may not be stored, 0 when there is none.
FirstOffender(topology, cells) ==
  LET Offends(k) ==
        \/ cells[k] = NotFinite
        \/ /\ topology = "MonotonicX"
           /\ k > 1 /\ cells[k - 1] # NotFinite
           /\ cells[k].x < cells[k - 1].x
      offenders == {k \in DOMAIN cells : Offends(k)}
  IN IF offenders = {} THEN 0 ELSE Min(offenders)

Normalize(topology, piece) ==
  LET len       == Len(piece.cells)
      segments  == SegmentsOf(piece)
      positions == Positions(len, segments)
      samples   == [k \in DOMAIN positions |-> piece.cells[positions[k] + 1]]
      offender  == FirstOffender(topology, samples)
  IN IF ~WellFormed(len, segments) THEN Refused("InvalidInput")
     ELSE IF offender # 0
     THEN Refused(IF samples[offender] = NotFinite THEN "NonFiniteCanonical"
                                                   ELSE "TopologyViolation")
     ELSE [topology  |-> topology,
           sourceLen |-> len,
           points    |-> [k \in DOMAIN positions |->
                            [source |-> positions[k],
                             x |-> samples[k].x, y |-> samples[k].y]],
           gaps      |-> GapsBetween(len, segments)]

-----------------------------------------------------------------------------
(* Cutting points into segments and chunks *)

BoundsOf(points) ==
  LET xs == {p.x : p \in ToSet(points)}
      ys == {p.y : p \in ToSet(points)}
  IN [minX |-> Min(xs), maxX |-> Max(xs), minY |-> Min(ys), maxY |-> Max(ys)]

\* Rust's slice points[start..end]
Slice(points, start, end) == SubSeq(points, start + 1, end)

BuildSegments(points) ==
  LET n     == Len(points)
      cuts  == {0, n} \cup
               {k \in 1 .. (n - 1) : points[k + 1].source - points[k].source # 1}
      order == Ascending(n, cuts)
  IN [i \in 1 .. (Len(order) - 1) |->
        [pointStart  |-> order[i],
         pointEnd    |-> order[i + 1],
         sourceStart |-> points[order[i] + 1].source,
         sourceEnd   |-> points[order[i + 1]].source + 1,
         bounds      |-> BoundsOf(Slice(points, order[i], order[i + 1]))]]

SegmentsOfPoints(points) == IF points = <<>> THEN <<>> ELSE BuildSegments(points)

ChunkCount(points) == (Len(points) + MaxPointsPerChunk - 1) \div MaxPointsPerChunk

\* Mutant of Clip: a part begins where its segment does.
ClipOpen(range, start, end) == [start |-> range.start,
                                end   |-> Min({range.end, end})]

Clip(range, start, end) == [start |-> Max({range.start, start}),
                            end   |-> Min({range.end, end})]

\* The part of the logical segment i that lies in points[start..end].
PieceOf(points, segments, i, start, end) ==
  LET c == Clip([start |-> segments[i].pointStart,
                 end   |-> segments[i].pointEnd], start, end)
  IN [logical     |-> i,
      globalStart |-> c.start,
      globalEnd   |-> c.end,
      localStart  |-> c.start - start,
      localEnd    |-> c.end - start,
      sourceStart |-> IF c.start < c.end THEN points[c.start + 1].source ELSE 0]

PiecesOf(points, segments, start, end) ==
  LET parts == [i \in DOMAIN segments |-> PieceOf(points, segments, i, start, end)]
  IN Filtered(parts, {p \in ToSet(parts) : p.globalStart < p.globalEnd})

ChunkAt(points, gaps, segments, start, revision) ==
  LET end         == Min({start + MaxPointsPerChunk, Len(points)})
      pieces      == PiecesOf(points, segments, start, end)
      sourceStart == points[start + 1].source
      sourceEnd   == points[end].source + 1
  IN [pointStart  |-> start,
      points      |-> [k \in 1 .. (end - start) |->
                         [x |-> points[start + k].x, y |-> points[start + k].y]],
      pieces      |-> pieces,
      gaps        |-> NonEmptyRanges([g \in DOMAIN gaps |->
                                        Clip(gaps[g], sourceStart, sourceEnd)]),
      sourceStart |-> sourceStart,
      sourceEnd   |-> sourceEnd,
      continuesBefore |-> \E p \in ToSet(pieces) :
                            p.globalStart > segments[p.logical].pointStart,
      continuesAfter  |-> \E p \in ToSet(pieces) :
                            p.globalEnd < segments[p.logical].pointEnd,
      bounds      |-> BoundsOf(Slice(points, start, end)),
      revision    |-> revision]

NextRevision(first, count) ==
  IF count = 0 THEN first
  ELSE IF first + count - 1 = LastRevision THEN 0
  ELSE first + count

FromParts(topology, len, points, gaps, first) ==
  LET segments == SegmentsOfPoints(points)
      count    == ChunkCount(points)
  IN IF count > 0 /\ (first = 0 \/ first + count - 1 > LastRevision)
     THEN Refused("RevisionExhausted")
     ELSE [topology     |-> topology,
           sourceLen    |-> len,
           points       |-> points,
           gaps         |-> gaps,
           segments     |-> segments,
           chunks       |-> [c \in 1 .. count |->
                               ChunkAt(points, gaps, segments,
                                       (c - 1) * MaxPointsPerChunk, first + c - 1)],
           bounds       |-> IF points = <<>> THEN Absent ELSE BoundsOf(points),
           nextRevision |-> NextRevision(first, count)]

-----------------------------------------------------------------------------
(* Joining new samples to old ones *)

\* Mutant of MergeGap: the gap at the join stays cut in two.
MergeGapNever(merged, gap) == Append(merged, gap)

MergeGap(merged, gap) ==
  IF merged # <<>> /\ Last(merged).end = gap.start
  THEN [merged EXCEPT ![Len(merged)].end = gap.end]
  ELSE Append(merged, gap)

MergeAdjacentGaps(gaps) ==
  LET merged[g \in 0 .. Len(gaps)] ==
        IF g = 0 THEN <<>> ELSE MergeGap(merged[g - 1], gaps[g])
  IN merged[Len(gaps)]

ShiftPoints(points, offset) ==
  [k \in DOMAIN points |-> [points[k] EXCEPT !.source = @ + offset]]

ShiftGaps(gaps, offset) ==
  [g \in DOMAIN gaps |-> [start |-> gaps[g].start + offset,
                          end   |-> gaps[g].end + offset]]

JoinsBackwards(old, new) ==
  /\ old.topology = "MonotonicX"
  /\ old.points # <<>> /\ new.points # <<>>
  /\ Head(new.points).x < Last(old.points).x

AppendTo(old, new) ==
  LET len    == old.sourceLen + new.sourceLen
      points == old.points \o ShiftPoints(new.points, old.sourceLen)
      gaps   == MergeAdjacentGaps(old.gaps \o ShiftGaps(new.gaps, old.sourceLen))
  IN IF new.topology # old.topology THEN Refused("TopologyViolation")
     ELSE IF new.sourceLen = 0 THEN old
     ELSE IF len > MaxSourceLen THEN Refused("CapacityExceeded")
     ELSE IF JoinsBackwards(old, new) THEN Refused("TopologyViolation")
     ELSE IF new.points = <<>>
     THEN [old EXCEPT !.sourceLen = len, !.gaps = gaps]
     ELSE FromParts(old.topology, len, points, gaps, old.nextRevision)

-----------------------------------------------------------------------------
(* The series as the transactions that insert and extend it see it *)

Samples(piece) ==
  LET valid == ToSet(Positions(Len(piece.cells), SegmentsOf(piece)))
  IN [k \in DOMAIN piece.cells |->
        IF k - 1 \in valid THEN piece.cells[k] ELSE Absent]

\* Store a result, or report the refusal and keep what there was.
Settle(result, piece) ==
  IF IsRefused(result)
  THEN outcome' = result.error /\ UNCHANGED <<storage, source, chunked>>
  ELSE /\ storage' = result
       /\ outcome' = "ok"
       /\ source' = source \o Samples(piece)
       /\ chunked' = chunked \cup ToSet(result.chunks)

Insert(topology, piece) ==
  LET new == Normalize(topology, piece)
  IN /\ storage = NoStorage
     /\ Settle(IF IsRefused(new) THEN new
               ELSE FromParts(topology, new.sourceLen, new.points, new.gaps, 1),
               piece)

Extend(topology, piece) ==
  LET new == Normalize(topology, piece)
  IN /\ storage # NoStorage
     /\ Settle(IF IsRefused(new) THEN new ELSE AppendTo(storage, new), piece)

Init ==
  /\ storage = NoStorage
  /\ outcome = "ok"
  /\ source = <<>>
  /\ chunked = {}

Next ==
  \E topology \in Topologies, piece \in Pieces :
    Insert(topology, piece) \/ Extend(topology, piece)

Spec == Init /\ [][Next]_vars

-----------------------------------------------------------------------------
Stored == storage # NoStorage

\* A range [start, end) of source positions at which P holds and which cannot
\* be made longer.
IsMaximalRun(r, positions) ==
  /\ r.start < r.end
  /\ (r.start .. (r.end - 1)) \subseteq positions
  /\ r.start - 1 \notin positions /\ r.end \notin positions

RunsOf(positions) ==
  {r \in [start : positions, end : {p + 1 : p \in positions}] :
     IsMaximalRun(r, positions)}

AreRunsOf(ranges, positions) ==
  /\ ToSet(ranges) = RunsOf(positions)
  /\ \A i \in 1 .. (Len(ranges) - 1) : ranges[i].start < ranges[i + 1].start

\* The positions of the samples that are there, and of those that are not.
Valid(samples) == {k \in 0 .. (Len(samples) - 1) : samples[k + 1] # Absent}
Missing(samples) == (0 .. (Len(samples) - 1)) \ Valid(samples)

\* However the samples arrived, in one call or in many, the storage holds
\* exactly what was accepted: each valid sample once and at its own index, and
\* as gaps and as logical segments the maximal runs of missing and of valid
\* samples (SeriesStorage::append joins runs that meet at the junction).
StorageHoldsSource ==
  Stored =>
    /\ storage.sourceLen = Len(source)
    /\ Len(storage.points) = Cardinality(Valid(source))
    /\ \A p \in ToSet(storage.points) :
         p.source \in Valid(source) /\ source[p.source + 1] = [x |-> p.x, y |-> p.y]
    /\ AreRunsOf(storage.gaps, Missing(source))
    /\ AreRunsOf([i \in DOMAIN storage.segments |->
                     [start |-> storage.segments[i].sourceStart,
                      end   |-> storage.segments[i].sourceEnd]], Valid(source))

\* The points of some samples: the valid ones, each at its index, in their order.
HoldPoints(points, samples) ==
  /\ points \in Seq([source : Nat, x : Int, y : Int])
  /\ \A i, j \in DOMAIN points : i < j => points[i].source < points[j].source
  /\ \A k \in DOMAIN points :
       samples[points[k].source + 1] = [x |-> points[k].x, y |-> points[k].y]
  /\ {points[k].source : k \in DOMAIN points} = Valid(samples)

\* Ranges that have something between any two of them.
Apart(ranges) == \A i, j \in DOMAIN ranges : i < j => ranges[i].end < ranges[j].start

NotEmpty(ranges) == \A i \in DOMAIN ranges : ranges[i].start < ranges[i].end

Covered(ranges) == UNION {ranges[i].start .. (ranges[i].end - 1) : i \in DOMAIN ranges}

HoldGaps(gaps, samples) ==
  /\ gaps \in Seq(Ranges)
  /\ NotEmpty(gaps)
  /\ Apart(gaps)
  /\ Covered(gaps) = Missing(samples)

Fields == {"topology", "sourceLen", "points", "gaps", "segments", "chunks", "bounds",
           "nextRevision"}

\* What every append keeps, so that StorageHoldsSource holds: gaps are apart, so
\* that those that meet at a junction have been joined, and points are in order.
StorageIInv ==
  /\ source \in Seq(Values \cup {Absent})
  /\ ~Stored => source = <<>>
  /\ Stored =>
       /\ DOMAIN storage = Fields
       /\ storage.sourceLen = Len(source)
       /\ HoldPoints(storage.points, source)
       /\ HoldGaps(storage.gaps, source)
       /\ storage.segments = SegmentsOfPoints(storage.points)

\* One chunk: its pieces keep every point in its logical segment and at its source
\* index, and the gaps between its first and its last point are all in it.
HoldChunk(c, points, segments) ==
  LET SourceAt(p, k) == p.sourceStart + k - p.localStart
  IN /\ \A k \in DOMAIN c.points :
          \E p \in ToSet(c.pieces) :
            LET point == points[c.pointStart + k]
                whole == segments[p.logical]
            IN /\ p.localStart < k /\ k <= p.localEnd
               /\ point = [source |-> SourceAt(p, k - 1),
                           x |-> c.points[k].x, y |-> c.points[k].y]
               /\ whole.sourceStart <= point.source
               /\ point.source < whole.sourceEnd
     /\ UNION {g.start .. (g.end - 1) : g \in ToSet(c.gaps)}
          = (c.sourceStart .. (c.sourceEnd - 1)) \ {p.source : p \in ToSet(points)}

HoldChunks(chunks, points, segments) ==
  LET End(i) == chunks[i].pointStart + Len(chunks[i].points)
  IN /\ \A i \in DOMAIN chunks : HoldChunk(chunks[i], points, segments)
     /\ \A i \in 1 .. (Len(chunks) - 1) :
          /\ chunks[i + 1].pointStart = End(i)
          /\ chunks[i].continuesAfter = chunks[i + 1].continuesBefore
     /\ chunks = <<>> <=> points = <<>>
     /\ chunks # <<>> => chunks[1].pointStart = 0 /\ End(Len(chunks)) = Len(points)

\* The chunks cut the storage and lose nothing: end to end they hold its points,
\* each in its segment and with the gaps around it; and a chunk continues after
\* exactly when the next one continues before.
ChunksHoldStorage ==
  Stored => HoldChunks(storage.chunks, storage.points, storage.segments)

=============================================================================
