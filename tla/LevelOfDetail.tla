---------------------------- MODULE LevelOfDetail ----------------------------
(***************************************************************************)
(* What of a series is drawn: crates/lumenplot-engine/src/lod.             *)
(*                                                                         *)
(* Every chunk piece has an index of block summaries (first, last, lowest  *)
(* and highest point) with a tree of pairwise combined summaries over the  *)
(* full blocks.  A monotone series with too many visible points is reduced *)
(* to the four points of every bin and logical segment, read from that     *)
(* index; a small one, one with a logarithmic axis and one with arbitrary  *)
(* points are kept whole, cut where a point has no place on a log axis.    *)
(*                                                                         *)
(* Integers stand for the finite floats: an interpolated bin boundary is   *)
(* rounded to one of them, and neighbouring boundaries may fall together.  *)
(***************************************************************************)
EXTENDS SeriesStorage

CONSTANTS
  BlockSize,     \* points of a summary block (256)
  PointsPerBin,  \* up to so many visible points per bin nothing is reduced (4)
  Viewports,     \* what may be looked at: [minX, maxX, minY, maxY]
  MaxBins        \* the largest number of bins asked for

ASSUME LodAssumption ==
  /\ BlockSize \in Nat \ {0}
  /\ PointsPerBin \in Nat \ {0}
  /\ MaxBins \in Nat

Scales == {"Linear", "Log10"}
AxisScales == [x : Scales, y : Scales]

-----------------------------------------------------------------------------
(* The summary index *)

SummaryOf(p) == [first |-> p, last |-> p, minY |-> p, maxY |-> p]

\* Of two equally low (or high) points the one with the smaller source wins.
Combine(a, b) ==
  [first |-> a.first,
   last  |-> b.last,
   minY  |-> IF \/ b.minY.y < a.minY.y
                \/ b.minY.y = a.minY.y /\ b.minY.source < a.minY.source
             THEN b.minY ELSE a.minY,
   maxY  |-> IF \/ b.maxY.y > a.maxY.y
                \/ b.maxY.y = a.maxY.y /\ b.maxY.source < a.maxY.source
             THEN b.maxY ELSE a.maxY]

CombineAll(summaries) == FoldLeft(Combine, Head(summaries), Tail(summaries))

\* The points of a piece at the relative positions start .. end - 1.
PointSummaries(chunk, piece, start, end) ==
  [k \in 1 .. (end - start) |->
     LET local == piece.localStart + start + k
     IN SummaryOf([source |-> piece.sourceStart + start + k - 1,
                   x |-> chunk.points[local].x, y |-> chunk.points[local].y])]

FullBlocks(chunk, piece) ==
  [b \in 1 .. ((piece.localEnd - piece.localStart) \div BlockSize) |->
     CombineAll(PointSummaries(chunk, piece, (b - 1) * BlockSize, b * BlockSize))]

\* An odd node at the end of a level is carried up as it is.
LevelAbove(level) ==
  [i \in 1 .. ((Len(level) + 1) \div 2) |->
     IF 2 * i <= Len(level) THEN Combine(level[2 * i - 1], level[2 * i])
                            ELSE level[2 * i - 1]]

TreeLevels(blocks) ==
  LET level[h \in 0 .. Len(blocks)] ==
        IF h = 0 THEN blocks ELSE LevelAbove(level[h - 1])
  IN level

\* Mutant of LargestNode: a node may begin anywhere.
LargestNodeUnaligned(start, end) == Max({h \in 0 .. end : 2 ^ h <= end - start})

\* The levels of the largest aligned nodes that cover the blocks from start to end.
LargestNode(start, end) ==
  Max({h \in 0 .. end : 2 ^ h <= end - start /\ start % (2 ^ h) = 0})

CoveringNodes(levels, start, end) ==
  LET nodes[s \in start .. end] ==
        IF s = end THEN <<>>
        ELSE LET h == LargestNode(s, end)
             IN <<levels[h][s \div (2 ^ h) + 1]>> \o nodes[s + 2 ^ h]
  IN nodes[start]

\* Single points up to a block boundary, then nodes, then single points.
RangeSummary(chunk, piece, start, end) ==
  LET blocks    == FullBlocks(chunk, piece)
      aligned   == Min({end, ((start + BlockSize - 1) \div BlockSize) * BlockSize})
      fullStart == aligned \div BlockSize
      fullEnd   == end \div BlockSize
      uses      == fullStart < fullEnd
      resume    == IF uses THEN fullEnd * BlockSize ELSE aligned
  IN CombineAll(
       PointSummaries(chunk, piece, start, aligned)
       \o (IF uses THEN CoveringNodes(TreeLevels(blocks), fullStart, fullEnd) ELSE <<>>)
       \o PointSummaries(chunk, piece, resume, end))

\* SeriesStorage::indexed_summary_for_segment_range, for a range that is not empty.
IndexedSummary(logical, start, end) ==
  LET InChunk(c) ==
        LET Meets(p) == /\ p.logical = logical
                        /\ Max({start, p.globalStart}) < Min({end, p.globalEnd})
            pieces == SelectSeq(c.pieces, Meets)
        IN [i \in DOMAIN pieces |->
              RangeSummary(c, pieces[i],
                           Max({start, pieces[i].globalStart}) - pieces[i].globalStart,
                           Min({end, pieces[i].globalEnd}) - pieces[i].globalStart)]
  IN CombineAll(FlattenSeq([c \in DOMAIN storage.chunks |-> InChunk(storage.chunks[c])]))

-----------------------------------------------------------------------------
(* Selecting points *)

OnScale(v, scale) == scale = "Linear" \/ v > 0
InDomain(p, scales) == OnScale(p.x, scales.x) /\ OnScale(p.y, scales.y)
HasLog(scales) == scales.x = "Log10" \/ scales.y = "Log10"

ScalesFit(viewport, scales) ==
  /\ OnScale(viewport.minX, scales.x) /\ OnScale(viewport.maxX, scales.x)
  /\ OnScale(viewport.minY, scales.y) /\ OnScale(viewport.maxY, scales.y)

PointsOf(segment) == Slice(storage.points, segment.pointStart, segment.pointEnd)

\* lower_bound and upper_bound find by bisection how many points lie before a
\* value, and up to it, in a segment whose points are in order.
LowerBound(segment, v) ==
  segment.pointStart + Cardinality({k \in DOMAIN PointsOf(segment) : PointsOf(segment)[k].x < v})
UpperBound(segment, v) ==
  segment.pointStart + Cardinality({k \in DOMAIN PointsOf(segment) : PointsOf(segment)[k].x <= v})

VisibleRange(segment, viewport) ==
  [start |-> LowerBound(segment, viewport.minX), end |-> UpperBound(segment, viewport.maxX)]

VisibleRanges(viewport) ==
  NonEmptyRanges([i \in DOMAIN storage.segments |->
                    VisibleRange(storage.segments[i], viewport)])

\* Mutant of CutAtDomain: the point is dropped and the run goes on.
CutAtDomainDropping(points, scales) ==
  SelectSeq(<<SelectSeq(points, LAMBDA p : InDomain(p, scales))>>,
            LAMBDA run : run # <<>>)

\* A run ends at a point that has no place on a logarithmic axis.
CutAtDomain(points, scales) ==
  LET Step(runs, p) ==
        IF ~InDomain(p, scales) THEN Append(runs, <<>>)
        ELSE [runs EXCEPT ![Len(runs)] = Append(@, p)]
  IN SelectSeq(FoldLeft(Step, << <<>> >>, points), LAMBDA run : run # <<>>)

FullResolution(ranges, scales) ==
  [segments |-> FlattenSeq([r \in DOMAIN ranges |->
                  CutAtDomain(Slice(storage.points, ranges[r].start, ranges[r].end), scales)]),
   full |-> TRUE]

\* make_boundaries: interpolated between the ends, equal neighbours dropped.
Boundaries(viewport, bins) ==
  LET At(i) == (viewport.minX * (bins - i) + viewport.maxX * i) \div bins
      Step(bs, i) == IF Last(bs) = At(i) THEN bs ELSE Append(bs, At(i))
  IN IF viewport.minX = viewport.maxX THEN <<viewport.minX, viewport.maxX>>
     ELSE FoldLeft(Step, <<viewport.minX>>, [i \in 1 .. bins |-> i])

\* The points of a segment that lie exactly on a bin boundary are all kept.
OnBoundary(segment, v) ==
  ToSet(Slice(storage.points, LowerBound(segment, v), UpperBound(segment, v)))

\* Mutant of BinCandidates: the last bin is open at its end like the others.
BinCandidatesHalfOpen(logical, boundaries, bin) ==
  LET segment == storage.segments[logical]
      start   == LowerBound(segment, boundaries[bin])
      end     == LowerBound(segment, boundaries[bin + 1])
      s       == IndexedSummary(logical, start, end)
  IN IF start >= end THEN {}
     ELSE OnBoundary(segment, boundaries[bin]) \cup {s.first, s.minY, s.maxY, s.last}

BinCandidates(logical, boundaries, bin) ==
  LET segment == storage.segments[logical]
      isLast  == bin + 1 = Len(boundaries)
      start   == LowerBound(segment, boundaries[bin])
      end     == IF isLast THEN UpperBound(segment, boundaries[bin + 1])
                           ELSE LowerBound(segment, boundaries[bin + 1])
      s       == IndexedSummary(logical, start, end)
  IN IF start >= end THEN {}
     ELSE OnBoundary(segment, boundaries[bin])
          \cup (IF isLast THEN OnBoundary(segment, boundaries[bin + 1]) ELSE {})
          \cup {s.first, s.minY, s.maxY, s.last}

Reduced(viewport, bins) ==
  LET boundaries == Boundaries(viewport, bins)
      Kept(logical) ==
        UNION {BinCandidates(logical, boundaries, bin) : bin \in 1 .. (Len(boundaries) - 1)}
      Run(logical) == SelectSeq(PointsOf(storage.segments[logical]),
                                LAMBDA p : p \in Kept(logical))
  IN [segments |-> SelectSeq([i \in DOMAIN storage.segments |-> Run(i)],
                             LAMBDA run : run # <<>>),
      full |-> FALSE]

SelectMonotonic(viewport, scales, bins) ==
  LET ranges  == VisibleRanges(viewport)
      visible == FoldLeft(LAMBDA n, r : n + r.end - r.start, 0, ranges)
  IN IF storage.topology # "MonotonicX" THEN Refused("TopologyViolation")
     ELSE IF bins = 0 \/ ~ScalesFit(viewport, scales) THEN Refused("InvalidInput")
     ELSE IF HasLog(scales) \/ visible <= PointsPerBin * bins
     THEN FullResolution(ranges, scales)
     ELSE Reduced(viewport, bins)

Intersects(bounds, viewport) ==
  /\ bounds.maxX >= viewport.minX /\ bounds.minX <= viewport.maxX
  /\ bounds.maxY >= viewport.minY /\ bounds.minY <= viewport.maxY

SelectArbitrary(viewport, scales) ==
  LET seen == SelectSeq(storage.segments, LAMBDA s : Intersects(s.bounds, viewport))
  IN IF storage.topology # "ArbitraryXY" THEN Refused("TopologyViolation")
     ELSE IF ~ScalesFit(viewport, scales) THEN Refused("InvalidInput")
     ELSE FullResolution([i \in DOMAIN seen |->
                            [start |-> seen[i].pointStart, end |-> seen[i].pointEnd]], scales)

-----------------------------------------------------------------------------
\* Whatever range of a segment is asked for, and however it lies across blocks,
\* tree nodes and chunks, the indexed summary is what a scan of the points finds:
\* the first and last point and the earliest lowest and earliest highest one.
SummaryIsScan ==
  Stored =>
    \A i \in DOMAIN storage.segments :
      \A range \in (storage.segments[i].pointStart .. storage.segments[i].pointEnd) \X
                   (storage.segments[i].pointStart .. storage.segments[i].pointEnd) :
        range[1] < range[2] =>
          LET points == Slice(storage.points, range[1], range[2])
              Earliest(Better(_, _)) ==
                CHOOSE p \in ToSet(points) :
                  \A q \in ToSet(points) :
                    Better(p.y, q.y) \/ (p.y = q.y /\ p.source <= q.source)
          IN IndexedSummary(i, range[1], range[2]) =
               [first |-> points[1],
                last  |-> points[Len(points)],
                minY  |-> Earliest(LAMBDA a, b : a < b),
                maxY  |-> Earliest(LAMBDA a, b : a > b)]

InView(p, viewport) == viewport.minX <= p.x /\ p.x <= viewport.maxX

\* A reduced selection still shows the curve: in every bin, and in every run of
\* valid samples that has points there, the first, the last, one lowest and one
\* highest point are kept, nothing outside the viewport is shown, and a run that
\* is drawn is one logical segment in its order.
SelectionKeepsExtremes ==
  (Stored /\ storage.topology = "MonotonicX") =>
    \A viewport \in Viewports, bins \in 1 .. MaxBins :
      LET selected   == SelectMonotonic(viewport, [x |-> "Linear", y |-> "Linear"], bins)
          boundaries == Boundaries(viewport, bins)
          drawn      == UNION {ToSet(run) : run \in ToSet(selected.segments)}
          InBin(p, b) == /\ boundaries[b] <= p.x
                         /\ \/ p.x < boundaries[b + 1]
                            \/ b + 1 = Len(boundaries) /\ p.x <= boundaries[b + 1]
      IN /\ drawn \subseteq {p \in ToSet(storage.points) : InView(p, viewport)}
         /\ \A s \in ToSet(storage.segments), b \in 1 .. (Len(boundaries) - 1) :
              LET there == {p \in ToSet(PointsOf(s)) : InBin(p, b)}
                  kept  == there \cap drawn
              IN there # {} =>
                   /\ kept # {}
                   /\ Min({p.source : p \in kept}) = Min({p.source : p \in there})
                   /\ Max({p.source : p \in kept}) = Max({p.source : p \in there})
                   /\ Min({p.y : p \in kept}) = Min({p.y : p \in there})
                   /\ Max({p.y : p \in kept}) = Max({p.y : p \in there})
         /\ \A run \in ToSet(selected.segments) :
              /\ \E s \in ToSet(storage.segments) : ToSet(run) \subseteq ToSet(PointsOf(s))
              /\ \A k \in 1 .. (Len(run) - 1) : run[k].source < run[k + 1].source

\* A line never crosses a hole: between two points that are drawn joined there is
\* neither a missing sample nor one that the logarithmic axes cannot show, and
\* at full resolution no point that could be shown is left out of its run.
SelectionNeverBridges ==
  Stored =>
    \A viewport \in Viewports, scales \in AxisScales, bins \in 1 .. MaxBins :
      LET selected == IF storage.topology = "MonotonicX"
                      THEN SelectMonotonic(viewport, scales, bins)
                      ELSE SelectArbitrary(viewport, scales)
          Between(run, k) == (run[k].source + 1) .. (run[k + 1].source - 1)
          Shown(n) == /\ source[n + 1] # Absent
                      /\ InDomain(source[n + 1], scales)
      IN ~IsRefused(selected) =>
           \A run \in ToSet(selected.segments) :
             \A k \in 1 .. (Len(run) - 1) :
               /\ \A n \in Between(run, k) : Shown(n)
               /\ selected.full => Between(run, k) = {}

\* What is selected stands for the whole curve: nothing that would be seen of it
\* is lost in any bin, and nothing is drawn where the source has a hole.
SelectionKeepsTheCurve == SelectionKeepsExtremes /\ SelectionNeverBridges
=============================================================================
