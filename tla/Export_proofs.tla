---------------------------- MODULE Export_proofs ----------------------------
(***************************************************************************)
(* Proofs about the output sinks: a delivered file resolves, and a sink    *)
(* that has accepted a frame fails for want of memory alone.               *)
(*                                                                         *)
(* A page's content is put together of parts, by the community modules'    *)
(* FlattenSeq and by the walk along a segment that clips it.  Both are     *)
(* recursive functions on numbers; that they exist and what they return is *)
(* proved by the least number for which it fails.                          *)
(*                                                                         *)
(* That a page keeps within its estimate is a count: every operator but    *)
(* the few of a part is one of a point or a segment of the frame, none is  *)
(* longer than the 64 bytes the estimate has for it, and what is left over *)
(* pays for the objects.  A number has at most so many digits as the limit *)
(* on a page's sides gives it.                                             *)
(***************************************************************************)
EXTENDS Export, NaturalsInduction, WellFoundedInduction, SequenceTheorems, TLAPS

-----------------------------------------------------------------------------
(* Sequences *)

\* Every set of natural numbers that is not empty has a least element.
LEMMA LeastNatural ==
  ASSUME NEW T \in SUBSET Nat, T # {}
  PROVE  \E n \in T : \A m \in T : n <= m
<1> DEFINE R == OpToRel(<, Nat)
<1>1. IsWellFoundedOn(R, Nat)
  BY NatLessThanWellFounded
<1>2. \A i, j \in Nat : i < j => <<i, j>> \in R
  BY DEF OpToRel
<1> HIDE DEF R
<1>3. PICK n \in T : \A m \in T : ~(<<m, n>> \in R)
  BY <1>1, WFMin, Zenon
<1>4. \A m \in T : m \in Nat /\ n \in Nat
  OBVIOUS
<1>5. \A m \in T : ~(m < n)
  BY <1>2, <1>3, <1>4, Zenon
<1> QED
  BY <1>4, <1>5

\* A sequence's positions are the numbers from one to its length.
LEMMA SequenceDomain ==
  ASSUME NEW s, IsSequence(s)
  PROVE  /\ Len(s) \in Nat
         /\ DOMAIN s = 1 .. Len(s)
         /\ s = [i \in 1 .. Len(s) |-> s[i]]
         /\ \A i \in 1 .. Len(s) : s[i] \in ToSet(s)
BY DEF IsSequence, ToSet

\* A sequence of anything is one of its own elements.
LEMMA SeqIsSequence ==
  ASSUME NEW A, NEW s \in Seq(A)
  PROVE  IsSequence(s)
<1>1. s = [i \in 1 .. Len(s) |-> s[i]] /\ Len(s) \in Nat
  OBVIOUS
<1>2. DOMAIN s = 1 .. Len(s) /\ \A i \in 1 .. Len(s) : s[i] \in ToSet(s)
  BY <1>1 DEF ToSet
<1>3. s \in [1 .. Len(s) -> ToSet(s)]
  BY <1>1, <1>2
<1> QED
  BY <1>1, <1>3 DEF IsSequence

\* Whatever is given for every number up to n is a sequence.
LEMMA ListIsSequence ==
  ASSUME NEW n \in Nat, NEW s, s = [i \in 1 .. n |-> s[i]]
  PROVE  IsSequence(s) /\ Len(s) = n
<1>1. DOMAIN s = 1 .. n /\ \A i \in 1 .. n : s[i] \in ToSet(s)
  BY DEF ToSet
<1>2. s \in [1 .. n -> ToSet(s)]
  BY <1>1
<1> QED
  BY <1>2 DEF IsSequence

\* Two sequences one after the other are a sequence of what is in both.
LEMMA ConcatIsSequence ==
  ASSUME NEW s, NEW t, IsSequence(s), IsSequence(t)
  PROVE  IsSequence(s \o t) /\ ToSet(s \o t) = ToSet(s) \cup ToSet(t)
<1> DEFINE A == ToSet(s) \cup ToSet(t)
<1>1. s \in Seq(A) /\ t \in Seq(A)
  BY SequenceDomain DEF IsSequence
<1>2. /\ s \o t \in Seq(A)
      /\ Len(s \o t) = Len(s) + Len(t)
      /\ \A i \in 1 .. (Len(s) + Len(t)) :
           (s \o t)[i] = IF i <= Len(s) THEN s[i] ELSE t[i - Len(s)]
  BY <1>1
<1>3. DOMAIN (s \o t) = 1 .. (Len(s) + Len(t)) /\ Len(s) \in Nat /\ Len(t) \in Nat
  BY <1>2, SequenceDomain
<1>4. ToSet(s \o t) \subseteq A
  BY <1>2, <1>3, SequenceDomain DEF ToSet
<1>5. ToSet(s) \subseteq ToSet(s \o t)
  <2> SUFFICES ASSUME NEW i \in 1 .. Len(s) PROVE s[i] \in ToSet(s \o t)
    BY SequenceDomain DEF ToSet
  <2>1. i \in 1 .. (Len(s) + Len(t)) /\ i <= Len(s)
    BY <1>3
  <2>2. (s \o t)[i] = s[i]
    BY <1>2, <2>1
  <2> QED
    BY <1>3, <2>1, <2>2 DEF ToSet
<1>6. ToSet(t) \subseteq ToSet(s \o t)
  <2> SUFFICES ASSUME NEW i \in 1 .. Len(t) PROVE t[i] \in ToSet(s \o t)
    BY SequenceDomain DEF ToSet
  <2>1. i + Len(s) \in 1 .. (Len(s) + Len(t)) /\ ~(i + Len(s) <= Len(s))
    BY <1>3
  <2>2. (s \o t)[i + Len(s)] = t[i + Len(s) - Len(s)]
    BY <1>2, <2>1
  <2>3. (s \o t)[i + Len(s)] = t[i]
    BY <1>3, <2>2
  <2> QED
    BY <1>3, <2>1, <2>3 DEF ToSet
<1>7. IsSequence(s \o t)
  BY <1>2, SeqIsSequence
<1> QED
  BY <1>4, <1>5, <1>6, <1>7

-----------------------------------------------------------------------------
(* FlattenSeq *)

Joined(seqs, n, f) == f = [i \in 1 .. n |-> IF i = 1 THEN seqs[i] ELSE f[i - 1] \o seqs[i]]

\* The recursion of FlattenSeq has a solution.
LEMMA JoinedExists ==
  ASSUME NEW seqs, NEW n \in Nat
  PROVE  \E f : Joined(seqs, n, f)
<1> DEFINE T == {m \in Nat : ~\E f : Joined(seqs, m, f)}
<1> SUFFICES ASSUME T # {} PROVE FALSE
  OBVIOUS
<1>1. PICK m \in T : \A k \in T : m <= k
  <2>1. T \subseteq Nat
    OBVIOUS
  <2> HIDE DEF T
  <2> QED
    BY <2>1, LeastNatural
<1>2. m # 0
  <2> SUFFICES ASSUME m = 0 PROVE \E f : Joined(seqs, 0, f)
    OBVIOUS
  <2> Joined(seqs, 0, [i \in 1 .. 0 |-> {}])
    BY DEF Joined
  <2> QED
    OBVIOUS
<1>3. m - 1 \in Nat /\ m - 1 \notin T
  BY <1>1, <1>2
<1>4. PICK f : Joined(seqs, m - 1, f)
  BY <1>3
<1> DEFINE g == [i \in 1 .. m |-> IF i = m THEN IF i = 1 THEN seqs[i] ELSE f[i - 1] \o seqs[i] ELSE f[i]]
<1>5. Joined(seqs, m, g)
  <2>1. \A i \in 1 .. m : g[i] = IF i = 1 THEN seqs[i] ELSE g[i - 1] \o seqs[i]
    <3> SUFFICES ASSUME NEW i \in 1 .. m
                 PROVE  g[i] = IF i = 1 THEN seqs[i] ELSE g[i - 1] \o seqs[i]
      OBVIOUS
    <3>0. m \in Nat
      OBVIOUS
    <3>1. CASE i = m
      <4>1. i # 1 => i - 1 \in 1 .. m /\ i - 1 # m
        BY <3>0
      <4> QED
        BY <3>1, <4>1
    <3>2. CASE i # m
      <4>1. i \in 1 .. (m - 1)
        BY <3>0, <3>2
      <4>2. i # 1 => i - 1 \in 1 .. m /\ i - 1 # m /\ i - 1 \in 1 .. (m - 1)
        BY <3>0, <4>1
      <4>3. f[i] = IF i = 1 THEN seqs[i] ELSE f[i - 1] \o seqs[i]
        BY <1>4, <4>1 DEF Joined
      <4> QED
        BY <3>2, <4>2, <4>3
    <3> QED
      BY <3>1, <3>2
  <2> QED
    BY <2>1 DEF Joined
<1> QED
  BY <1>5

\* FlattenSeq's recursion has a solution, and its last value is what it returns.
LEMMA FlattenSeqJoins ==
  ASSUME NEW seqs, Len(seqs) \in Nat \ {0}
  PROVE  \E f : Joined(seqs, Len(seqs), f) /\ FlattenSeq(seqs) = f[Len(seqs)]
<1> DEFINE f == CHOOSE g : g = [i \in 1 .. Len(seqs) |->
                                   IF i = 1 THEN seqs[i] ELSE g[i - 1] \o seqs[i]]
<1>1. \E g : g = [i \in 1 .. Len(seqs) |-> IF i = 1 THEN seqs[i] ELSE g[i - 1] \o seqs[i]]
  BY JoinedExists DEF Joined
<1>2. Joined(seqs, Len(seqs), f)
  BY <1>1 DEF Joined
<1>3. FlattenSeq(seqs) = f[Len(seqs)]
  BY DEF FlattenSeq
<1> QED
  BY <1>2, <1>3

InFirst(seqs, i) == UNION {ToSet(seqs[j]) : j \in 1 .. i}

\* One part more adds the elements of that part.
LEMMA InFirstSteps ==
  ASSUME NEW seqs, NEW i \in Nat \ {0}
  PROVE  InFirst(seqs, i) = InFirst(seqs, i - 1) \cup ToSet(seqs[i])
<1>1. 1 .. i = (1 .. (i - 1)) \cup {i}
  OBVIOUS
<1>2. \A k, x : x \in InFirst(seqs, k) <=> \E j \in 1 .. k : x \in ToSet(seqs[j])
  BY DEF InFirst
<1> QED
  BY <1>1, <1>2

\* Sequences one after the other are a sequence of what is in them.
LEMMA FlattenIsSequence ==
  ASSUME NEW seqs, IsSequence(seqs), \A i \in DOMAIN seqs : IsSequence(seqs[i])
  PROVE  /\ IsSequence(FlattenSeq(seqs))
         /\ ToSet(FlattenSeq(seqs)) = UNION {ToSet(seqs[i]) : i \in DOMAIN seqs}
<1>1. Len(seqs) \in Nat /\ DOMAIN seqs = 1 .. Len(seqs)
  BY SequenceDomain
<1>2. CASE Len(seqs) = 0
  <2>1. FlattenSeq(seqs) = seqs
    BY <1>2 DEF FlattenSeq
  <2>2. DOMAIN seqs = {}
    BY <1>1, <1>2
  <2> QED
    BY <2>1, <2>2 DEF ToSet
<1>3. CASE Len(seqs) # 0
  <2> DEFINE n == Len(seqs)
  <2>1. PICK f : Joined(seqs, n, f) /\ FlattenSeq(seqs) = f[n]
    BY <1>1, <1>3, FlattenSeqJoins
  <2> DEFINE Good(i) == IsSequence(f[i]) /\ ToSet(f[i]) = InFirst(seqs, i)
             T == {i \in 1 .. n : ~Good(i)}
  <2>2. T = {}
    <3> SUFFICES ASSUME T # {} PROVE FALSE
      OBVIOUS
    <3>1. PICK i \in T : \A k \in T : i <= k
      <4>1. T \subseteq Nat
        BY <1>1
      <4> HIDE DEF T
      <4> QED
        BY <4>1, LeastNatural
    <3>2. i \in 1 .. n /\ ~Good(i) /\ n \in Nat
      BY <1>1
    <3> HIDE DEF Good
    <3>3. \A k \in 1 .. (i - 1) : Good(k)
      BY <3>1, <3>2
    <3> USE DEF Good
    <3> HIDE DEF T
    <3>4. f[i] = IF i = 1 THEN seqs[i] ELSE f[i - 1] \o seqs[i]
      BY <2>1, <3>2 DEF Joined
    <3>5. IsSequence(seqs[i])
      BY <1>1, <3>2
    <3>6. CASE i = 1
      <4>1. InFirst(seqs, 0) = {}
        BY DEF InFirst
      <4>2. InFirst(seqs, i) = ToSet(seqs[i])
        BY <3>6, <4>1, InFirstSteps
      <4> QED
        BY <3>2, <3>4, <3>5, <3>6, <4>2
    <3>7. CASE i # 1
      <4>1. i - 1 \in 1 .. (i - 1) /\ i \in Nat \ {0}
        BY <3>2, <3>7
      <4>2. Good(i - 1)
        BY <3>3, <4>1
      <4>3. IsSequence(f[i]) /\ ToSet(f[i]) = InFirst(seqs, i - 1) \cup ToSet(seqs[i])
        BY <3>4, <3>5, <3>7, <4>2, ConcatIsSequence
      <4> QED
        BY <3>2, <4>1, <4>3, InFirstSteps
    <3> QED
      BY <3>6, <3>7
  <2>3. n \in 1 .. n
    BY <1>1, <1>3
  <2>4. Good(n)
    BY <2>2, <2>3
  <2>5. InFirst(seqs, n) = UNION {ToSet(seqs[i]) : i \in DOMAIN seqs}
    BY <1>1 DEF InFirst
  <2> QED
    BY <2>1, <2>4, <2>5
<1> QED
  BY <1>2, <1>3

-----------------------------------------------------------------------------
(* Paths *)

\* A sequence of sequences.
IsNested(s) == IsSequence(s) /\ \A i \in DOMAIN s : IsSequence(s[i])

\* A sequence is nested when what it holds are sequences.
LEMMA NestedByElements ==
  ASSUME NEW s, IsSequence(s)
  PROVE  IsNested(s) <=> \A t \in ToSet(s) : IsSequence(t)
BY DEF IsNested, ToSet

\* The parts of nested sequences put together are nested.
LEMMA FlattenOfNested ==
  ASSUME NEW seqs, IsSequence(seqs), \A i \in DOMAIN seqs : IsNested(seqs[i])
  PROVE  IsNested(FlattenSeq(seqs))
<1>1. /\ IsSequence(FlattenSeq(seqs))
      /\ ToSet(FlattenSeq(seqs)) = UNION {ToSet(seqs[i]) : i \in DOMAIN seqs}
  BY FlattenIsSequence DEF IsNested
<1>2. \A i \in DOMAIN seqs : \A t \in ToSet(seqs[i]) : IsSequence(t)
  BY NestedByElements DEF IsNested
<1> QED
  BY <1>1, <1>2, NestedByElements

\* A sequence added at the end keeps it nested.
LEMMA AppendIsNested ==
  ASSUME NEW s, NEW t, IsNested(s), IsSequence(t)
  PROVE  IsNested(Append(s, t))
<1> DEFINE A == ToSet(s) \cup {t}
<1>1. s \in Seq(A) /\ t \in A
  BY SequenceDomain DEF IsNested, IsSequence
<1>2. \A u \in A : IsSequence(u)
  BY NestedByElements DEF IsNested
<1>3. Append(s, t) \in Seq(A)
  BY <1>1
<1>4. IsSequence(Append(s, t))
  BY <1>3, SeqIsSequence
<1>5. \A i \in DOMAIN Append(s, t) : Append(s, t)[i] \in A
  BY <1>3
<1> QED
  BY <1>2, <1>4, <1>5 DEF IsNested

\* Nothing, one and two in a row.
LEMMA PairIsSequence ==
  ASSUME NEW x, NEW y
  PROVE  IsSequence(<<>>) /\ IsSequence(<<x>>) /\ IsSequence(<<x, y>>)
<1>1. <<>> \in Seq({}) /\ <<x>> \in Seq({x}) /\ <<x, y>> \in Seq({x, y})
  OBVIOUS
<1> QED
  BY <1>1, SeqIsSequence

\* No path, and a single one.
LEMMA EmptyIsNested ==
  /\ IsNested(<<>>)
  /\ \A s : IsSequence(s) => IsNested(<<s>>)
<1>1. IsSequence(<<>>) /\ \A s : IsSequence(<<s>>)
  BY PairIsSequence, Zenon
<1>2. DOMAIN <<>> = {}
  OBVIOUS
<1>3. \A s : DOMAIN <<s>> = {1} /\ <<s>>[1] = s
  OBVIOUS
<1> QED
  BY <1>1, <1>2, <1>3 DEF IsNested

WalkIsSound(walk) == DOMAIN walk = {"open", "paths"} /\ IsNested(walk.paths)

\* One step along a segment leaves paths.
LEMMA FollowIsSound ==
  ASSUME NEW walk, NEW first, NEW second, NEW plot, WalkIsSound(walk)
  PROVE  WalkIsSound(Follow(walk, first, second, plot))
<1> DEFINE part  == ClipSegment(first, second, plot)
           start == Interpolate(first, second, part.enter)
           end   == Interpolate(first, second, part.exit)
           more  == IF part.exit > part.enter THEN <<end>> ELSE <<>>
           last  == Len(walk.paths)
<1> HIDE DEF part, start, end
<1>0. IsSequence(more) /\ IsSequence(<<start>>)
  BY PairIsSequence
<1>1. IsNested(Append(walk.paths, <<start>> \o more))
  BY <1>0, ConcatIsSequence, AppendIsNested DEF WalkIsSound
<1>2. IsNested([walk.paths EXCEPT ![last] = @ \o more])
  <2> DEFINE longer == [walk.paths EXCEPT ![last] = @ \o more]
  <2>1. IsSequence(walk.paths) /\ DOMAIN walk.paths = 1 .. last /\ last \in Nat
    BY SequenceDomain DEF WalkIsSound, IsNested
  <2>2. longer = [i \in 1 .. last |-> longer[i]]
    BY <2>1
  <2>3. IsSequence(longer)
    BY <2>1, <2>2, ListIsSequence
  <2>4. \A i \in 1 .. last : IsSequence(walk.paths[i] \o more)
    BY <1>0, <2>1, ConcatIsSequence DEF WalkIsSound, IsNested
  <2>5. \A i \in 1 .. last : longer[i] = walk.paths[i] \/ longer[i] = walk.paths[i] \o more
    BY <2>1
  <2>6. \A i \in 1 .. last : IsSequence(longer[i])
    BY <2>1, <2>4, <2>5 DEF WalkIsSound, IsNested
  <2>7. DOMAIN longer = 1 .. last
    BY <2>1
  <2> QED
    BY <2>3, <2>6, <2>7 DEF IsNested
<1> HIDE DEF more, last
<1>3. \/ Follow(walk, first, second, plot) = Closed(walk)
      \/ Follow(walk, first, second, plot) =
           [open |-> TRUE, paths |-> Append(walk.paths, <<start>> \o more)]
      \/ Follow(walk, first, second, plot) =
           [walk EXCEPT !.paths = [walk.paths EXCEPT ![last] = @ \o more]]
  BY DEF Follow, part, start, end, more, last, WalkIsSound
<1>4. WalkIsSound(Closed(walk))
  <2>1. DOMAIN Closed(walk) = DOMAIN walk /\ Closed(walk).paths = walk.paths
    BY DEF Closed, WalkIsSound
  <2> QED
    BY <2>1 DEF WalkIsSound
<1>5. ASSUME NEW paths, IsNested(paths)
      PROVE  /\ WalkIsSound([open |-> TRUE, paths |-> paths])
             /\ WalkIsSound([walk EXCEPT !.paths = paths])
  <2>1. /\ DOMAIN [walk EXCEPT !.paths = paths] = DOMAIN walk
        /\ [walk EXCEPT !.paths = paths].paths = paths
    BY DEF WalkIsSound
  <2> QED
    BY <1>5, <2>1 DEF WalkIsSound
<1> QED
  BY <1>1, <1>2, <1>3, <1>4, <1>5

Walks(points, plot, n, f) ==
  f = [k \in 1 .. n |->
         IF k = 1 THEN [open |-> FALSE, paths |-> <<>>]
         ELSE Follow(f[k - 1], points[k - 1], points[k], plot)]

\* The recursion along a segment has a solution.
LEMMA WalkExists ==
  ASSUME NEW points, NEW plot, NEW n \in Nat
  PROVE  \E f : Walks(points, plot, n, f)
<1> DEFINE T == {m \in Nat : ~\E f : Walks(points, plot, m, f)}
<1> SUFFICES ASSUME T # {} PROVE FALSE
  OBVIOUS
<1>1. PICK m \in T : \A k \in T : m <= k
  <2>1. T \subseteq Nat
    OBVIOUS
  <2> HIDE DEF T
  <2> QED
    BY <2>1, LeastNatural
<1>2. m # 0
  <2> SUFFICES ASSUME m = 0 PROVE \E f : Walks(points, plot, 0, f)
    OBVIOUS
  <2> Walks(points, plot, 0, [i \in 1 .. 0 |-> {}])
    BY DEF Walks
  <2> QED
    OBVIOUS
<1>3. m - 1 \in Nat /\ m - 1 \notin T
  BY <1>1, <1>2
<1>4. PICK f : Walks(points, plot, m - 1, f)
  BY <1>3
<1> DEFINE Value(h, k) == IF k = 1 THEN [open |-> FALSE, paths |-> <<>>]
                          ELSE Follow(h[k - 1], points[k - 1], points[k], plot)
           g == [k \in 1 .. m |-> IF k = m THEN Value(f, m) ELSE f[k]]
<1>5. \A k \in 1 .. m : g[k] = Value(g, k)
  <2> SUFFICES ASSUME NEW k \in 1 .. m PROVE g[k] = Value(g, k)
    OBVIOUS
  <2>0. m \in Nat
    OBVIOUS
  <2>1. CASE k = m
    <3>1. k # 1 => k - 1 \in 1 .. m /\ k - 1 # m
      BY <2>0
    <3> QED
      BY <2>1, <3>1
  <2>2. CASE k # m
    <3>1. k \in 1 .. (m - 1)
      BY <2>0, <2>2
    <3>2. k # 1 => k - 1 \in 1 .. m /\ k - 1 # m
      BY <2>0, <3>1
    <3>3. f[k] = Value(f, k)
      BY <1>4, <3>1 DEF Walks
    <3> QED
      BY <2>2, <3>2, <3>3
  <2> QED
    BY <2>1, <2>2
<1>6. Walks(points, plot, m, g)
  BY <1>5 DEF Walks
<1> QED
  BY <1>6

\* What is left of a segment within the plot is a sequence of paths.
LEMMA ClippedIsNested ==
  ASSUME NEW points, NEW plot, IsSequence(points), points # <<>>
  PROVE  IsNested(ClippedPaths(points, plot))
<1>1. Len(points) \in Nat \ {0}
  BY SequenceDomain DEF IsSequence
<1> DEFINE n == Len(points)
           walk == CHOOSE f : f = [k \in 1 .. n |->
                     IF k = 1 THEN [open |-> FALSE, paths |-> <<>>]
                     ELSE Follow(f[k - 1], points[k - 1], points[k], plot)]
<1>2. Walks(points, plot, n, walk)
  <2>1. \E f : Walks(points, plot, n, f)
    BY <1>1, WalkExists
  <2>2. \E f : f = [k \in 1 .. n |->
                      IF k = 1 THEN [open |-> FALSE, paths |-> <<>>]
                      ELSE Follow(f[k - 1], points[k - 1], points[k], plot)]
    BY <2>1 DEF Walks
  <2> QED
    BY <2>2 DEF Walks
<1>3. ClippedPaths(points, plot) =
        IF n = 1 THEN IF PointInside(points[1], plot) THEN <<points>> ELSE <<>>
        ELSE walk[n].paths
  BY DEF ClippedPaths
<1> HIDE DEF walk
<1>4. WalkIsSound(walk[n])
  <2> DEFINE T == {k \in 1 .. n : ~WalkIsSound(walk[k])}
  <2> SUFFICES ASSUME T # {} PROVE FALSE
    BY <1>1
  <2>1. PICK k \in T : \A j \in T : k <= j
    <3>1. T \subseteq Nat
      BY <1>1
    <3> HIDE DEF T
    <3> QED
      BY <3>1, LeastNatural
  <2>2. k \in 1 .. n /\ ~WalkIsSound(walk[k])
    OBVIOUS
  <2>3. \A j \in 1 .. (k - 1) : WalkIsSound(walk[j])
    BY <1>1, <2>1, <2>2
  <2> HIDE DEF T
  <2>4. walk[k] = IF k = 1 THEN [open |-> FALSE, paths |-> <<>>]
                  ELSE Follow(walk[k - 1], points[k - 1], points[k], plot)
    BY <1>2, <2>2 DEF Walks
  <2>5. CASE k = 1
    <3>1. IsNested(<<>>)
      BY EmptyIsNested
    <3> QED
      BY <2>2, <2>4, <2>5, <3>1 DEF WalkIsSound
  <2>6. CASE k # 1
    <3>1. k - 1 \in 1 .. (k - 1)
      BY <1>1, <2>2, <2>6
    <3> QED
      BY <2>2, <2>3, <2>4, <2>6, <3>1, FollowIsSound
  <2> QED
    BY <2>5, <2>6
<1>5. IsNested(<<>>) /\ IsNested(<<points>>)
  BY EmptyIsNested
<1> QED
  BY <1>3, <1>4, <1>5 DEF WalkIsSound

-----------------------------------------------------------------------------
(* Ticks *)

\* What is given at every position of a sequence is a sequence.
LEMMA MapIsSequence ==
  ASSUME NEW s, IsSequence(s), NEW t, t = [i \in DOMAIN s |-> t[i]]
  PROVE  IsSequence(t)
<1>1. DOMAIN s = 1 .. Len(s) /\ Len(s) \in Nat
  BY SequenceDomain
<1> QED
  BY <1>1, ListIsSequence

\* The powers of ten the ticks are chosen by.
LEMMA TenthPowers ==
  ASSUME NEW k \in 0 .. 8
  PROVE  10 ^ k \in Nat \ {0}
<1>1. CASE k = 0
  BY <1>1, SMT
<1>2. CASE k = 1
  BY <1>2, SMT
<1>3. CASE k = 2
  BY <1>3, SMT
<1>4. CASE k = 3
  BY <1>4, SMT
<1>5. CASE k = 4
  BY <1>5, SMT
<1>6. CASE k = 5
  BY <1>6, SMT
<1>7. CASE k = 6
  BY <1>7, SMT
<1>8. CASE k = 7
  BY <1>8, SMT
<1>9. CASE k = 8
  BY <1>9, SMT
<1> QED
  BY <1>1, <1>2, <1>3, <1>4, <1>5, <1>6, <1>7, <1>8, <1>9, SMT

\* The maximum and the minimum of the community modules, where there is one.
LEMMA MaxIsIn ==
  ASSUME NEW K, K \subseteq 0 .. 8, K # {}
  PROVE  Max(K) \in K
<1> DEFINE T == {n \in Nat : 8 - n \in K}
<1>0. \A k \in K : k \in 0 .. 8 /\ 8 - k \in T
  OBVIOUS
<1>1. T \in SUBSET Nat /\ T # {}
  BY <1>0
<1>2. PICK n \in T : \A m \in T : n <= m
  <2> HIDE DEF T
  <2> QED
    BY <1>1, LeastNatural
<1>3. \A j \in K : 8 - n >= j /\ 8 - n \in K
  BY <1>0, <1>2
<1>4. \E k \in K : \A j \in K : k >= j
  BY <1>1, <1>3
<1> QED
  BY <1>4 DEF Max

\* A set of natural numbers has a minimum.
LEMMA MinIsIn ==
  ASSUME NEW K \in SUBSET Nat, K # {}
  PROVE  Min(K) \in K
<1>1. \E n \in K : \A m \in K : n <= m
  BY LeastNatural
<1> QED
  BY <1>1 DEF Min

\* The distance of two ticks is a number, and not zero.
LEMMA StepIsPositive ==
  ASSUME NEW span \in Nat, span >= 10
  PROVE  Step(span) \in Nat \ {0}
<1> DEFINE K == {k \in 0 .. 8 : 10 ^ k * 10 <= span}
           magnitude == 10 ^ Max(K)
           M == {m \in {1, 2, 5} : span <= 9 * m * magnitude} \cup {10}
<1>1. 0 \in K
  <2>1. 10 ^ 0 * 10 = 10
    BY SMT
  <2> QED
    BY <2>1
<1>2. Max(K) \in 0 .. 8
  <2>1. K \subseteq 0 .. 8
    OBVIOUS
  <2> HIDE DEF K
  <2> QED
    BY <1>1, <2>1, MaxIsIn
<1>3. magnitude \in Nat \ {0}
  <2> HIDE DEF K
  <2> QED
    BY <1>2, TenthPowers
<1>4. Min(M) \in {1, 2, 5, 10}
  <2>1. M \subseteq {1, 2, 5, 10} /\ M # {} /\ M \in SUBSET Nat
    OBVIOUS
  <2> HIDE DEF M
  <2> QED
    BY <2>1, MinIsIn
<1>5. Step(span) = magnitude * Min(M)
  BY DEF Step
<1> HIDE DEF magnitude, M
<1> QED
  BY <1>3, <1>4, <1>5

\* The ticks of an axis are a sequence.
LEMMA TicksAreSequence ==
  ASSUME NEW min \in Int, NEW max \in Int, min < max, ~IsRefused(AxisTicks(min, max))
  PROVE  IsSequence(AxisTicks(min, max).at)
<1> DEFINE step == Step(10 * max - 10 * min)
           low  == CeilDiv(10 * min, step)
           high == (10 * max) \div step
           at   == [i \in 1 .. (high - low + 1) |-> (low + i - 1) * step]
<1>1. step \in Nat \ {0}
  <2>1. 10 * max - 10 * min \in Nat /\ 10 * max - 10 * min >= 10
    OBVIOUS
  <2> QED
    BY <2>1, StepIsPositive
<1>2. ~(10 * min >= 10 * max)
  OBVIOUS
<1>3. AxisTicks(min, max) = IF high - low + 1 > MaxTicksPerAxis
                            THEN Refused("CapacityExceeded") ELSE [at |-> at]
  BY <1>2 DEF AxisTicks, LinearTicks, Multiples
<1> HIDE DEF step
<1>4. high \in Int /\ low \in Int
  BY <1>1 DEF CeilDiv
<1> HIDE DEF high, low
<1>5. IsSequence(at)
  <2>1. CASE high - low + 1 \in Nat
    BY <2>1, ListIsSequence
  <2>2. CASE high - low + 1 \notin Nat
    <3>1. 1 .. (high - low + 1) = 1 .. 0
      BY <1>4, <2>2
    <3>2. at = [i \in 1 .. 0 |-> at[i]]
      BY <3>1
    <3> HIDE DEF at
    <3> QED
      BY <3>2, ListIsSequence
  <2> QED
    BY <2>1, <2>2
<1> HIDE DEF at
<1>6. IsRefused(Refused("CapacityExceeded"))
  BY DEF IsRefused, Refused
<1>7. AxisTicks(min, max) = [at |-> at]
  BY <1>3, <1>6
<1> QED
  BY <1>5, <1>7

-----------------------------------------------------------------------------
(* A frame *)

\* The annotations a layout mirrors are a sequence.
LEMMA MirroredIsSequence ==
  ASSUME NEW live, NEW top \in DOMAIN live, DOMAIN live \subseteq 1 .. top
  PROVE  IsSequence(MirroredMarks(live))
<1> DEFINE n == Max(DOMAIN live)
           parts == [id \in 1 .. n |->
                       IF id \in DOMAIN live THEN IF Mirrors(live[id]) THEN <<live[id]>> ELSE <<>>
                       ELSE <<>>]
<1>1. n \in Nat
  <2>1. top \in DOMAIN live /\ \A id \in DOMAIN live : top >= id /\ id \in Nat
    OBVIOUS
  <2> QED
    BY <2>1 DEF Max
<1>2. MirroredMarks(live) = FlattenSeq(parts)
  BY DEF MirroredMarks
<1>3. \A id \in DOMAIN parts : IsSequence(parts[id])
  BY PairIsSequence, Zenon
<1> HIDE DEF n
<1>4. parts = [id \in 1 .. n |-> parts[id]]
  OBVIOUS
<1> HIDE DEF parts
<1> QED
  BY <1>1, <1>2, <1>3, <1>4, ListIsSequence, FlattenIsSequence

\* A frame carries the runs it was asked to, and its annotations are a sequence.
LEMMA LayoutCarriesRuns ==
  ASSUME NEW runs, NEW live, NEW stamp, ~IsRefused(FrameLayout(runs, live, stamp)),
         DOMAIN live = {} \/ \E top \in DOMAIN live : DOMAIN live \subseteq 1 .. top
  PROVE  /\ FrameLayout(runs, live, stamp).runs = runs
         /\ IsSequence(FrameLayout(runs, live, stamp).marks)
<1>1. \A kind : IsRefused(Refused(kind))
  BY DEF IsRefused, Refused
<1>2. ASSUME NEW marks, NEW made, ~IsRefused(FromRuns(runs, marks, made))
      PROVE  FromRuns(runs, marks, made).runs = runs /\ FromRuns(runs, marks, made).marks = marks
  BY <1>1, <1>2 DEF FromRuns
<1>3. ASSUME NEW marks, ~IsRefused(FromLiveParts(runs, marks, stamp))
      PROVE  /\ FromLiveParts(runs, marks, stamp).runs = runs
             /\ FromLiveParts(runs, marks, stamp).marks = marks
  BY <1>1, <1>2, <1>3 DEF FromLiveParts
<1>4. CASE DOMAIN live = {}
  <2> DEFINE fixture == FixtureLayout(runs)
             carried == CarriedLayout(runs, stamp.layout)
  <2>1. /\ FrameLayout(runs, live, stamp) = carried
        /\ ~IsRefused(carried)
    BY <1>1, <1>4 DEF FrameLayout
  <2>2. /\ carried = WithLayoutRevision(fixture, stamp.layout)
        /\ ~IsRefused(fixture)
    BY <2>1 DEF CarriedLayout
  <2>3. fixture.runs = runs /\ fixture.marks = FixtureMarks
    BY <1>2, <2>2 DEF FixtureLayout
  <2>4. carried.runs = fixture.runs /\ carried.marks = fixture.marks
    <3> HIDE DEF fixture
    <3> QED
      BY <2>2 DEF WithLayoutRevision
  <2>5. IsSequence(FixtureMarks)
    BY AnnotationAssumption DEF IsSequence
  <2> QED
    BY <2>1, <2>3, <2>4, <2>5
<1>5. CASE DOMAIN live # {}
  <2>1. IsSequence(MirroredMarks(live))
    BY <1>5, MirroredIsSequence
  <2>2. /\ FrameLayout(runs, live, stamp) = FromLiveParts(runs, MirroredMarks(live), stamp)
        /\ ~IsRefused(FromLiveParts(runs, MirroredMarks(live), stamp))
    BY <1>1, <1>5 DEF FrameLayout
  <2> QED
    BY <1>3, <2>1, <2>2, Zenon
<1> QED
  BY <1>4, <1>5

\* What resolve_line_frame returns is made of sequences.
LEMMA ResolvedIsWhole ==
  ASSUME NEW scene \in Scenes, NEW sheet \in Sheets, NEW layout,
         layout = FrameLayout(sheet.runs, sheet.live, sheet.stamp), ~IsRefused(layout),
         LayoutValid(scene.viewport, scene.spec),
         ~IsRefused(AxisTicks(scene.viewport.minX, scene.viewport.maxX)),
         ~IsRefused(AxisTicks(scene.viewport.minY, scene.viewport.maxY))
  PROVE  WholeFrame(LineFrame(scene, sheet, layout))
<1> DEFINE v == scene.viewport
           xs == AxisTicks(v.minX, v.maxX)
           ys == AxisTicks(v.minY, v.maxY)
           xTicks == [i \in DOMAIN xs.at |-> DisplayX(xs.at[i], 10, v, scene.spec.plot)]
           yTicks == [i \in DOMAIN ys.at |-> DisplayY(ys.at[i], 10, v, scene.spec.plot)]
           frame == LineFrame(scene, sheet, layout)
<1>1. /\ frame.series = SeriesPaths(scene)
      /\ frame.xTicks = xTicks
      /\ frame.yTicks = yTicks
      /\ frame.layout = layout
      /\ frame.canvas = scene.spec.canvas
      /\ frame.plot = scene.spec.plot
      /\ frame.sheet = sheet
  BY DEF LineFrame
<1>2. /\ v.minX \in Int /\ v.maxX \in Int /\ v.minX < v.maxX
      /\ v.minY \in Int /\ v.maxY \in Int /\ v.minY < v.maxY
  BY SceneAssumption DEF LayoutValid
<1>3. IsSequence(xTicks)
  <2>1. IsSequence(xs.at)
    BY <1>2, TicksAreSequence
  <2> HIDE DEF xs
  <2> QED
    BY <2>1, MapIsSequence
<1>4. IsSequence(yTicks)
  <2>1. IsSequence(ys.at)
    BY <1>2, TicksAreSequence
  <2> HIDE DEF ys
  <2> QED
    BY <2>1, MapIsSequence
<1>5. /\ IsSequence(layout.runs)
      /\ \A r \in DOMAIN layout.runs : IsSequence(layout.runs[r].glyphs)
      /\ IsSequence(layout.marks)
  <2>1. DOMAIN sheet.live = {} \/ \E top \in DOMAIN sheet.live : DOMAIN sheet.live \subseteq 1 .. top
    BY SheetAssumption
  <2>2. layout.runs = sheet.runs /\ IsSequence(layout.marks)
    BY <2>1, LayoutCarriesRuns
  <2> QED
    BY <2>2, SheetAssumption
<1> DEFINE series == scene.series
           plot == scene.spec.plot
           Displayed(s, i) == [k \in DOMAIN series[s][i] |->
                               TransformPoint(series[s][i][k], v, plot)]
           Paths(s) == [i \in DOMAIN series[s] |-> ClippedPaths(Displayed(s, i), plot)]
<1>6. SeriesPaths(scene) = [s \in DOMAIN series |-> FlattenSeq(Paths(s))]
  BY DEF SeriesPaths
<1>7. ASSUME NEW s \in DOMAIN series
      PROVE  IsNested(FlattenSeq(Paths(s)))
  <2>1. IsSequence(series[s])
    BY SceneAssumption
  <2>2. IsSequence(Paths(s))
    BY <2>1, MapIsSequence
  <2>3. ASSUME NEW i \in DOMAIN series[s]
        PROVE  IsNested(Paths(s)[i])
    <3>1. IsSequence(series[s][i]) /\ series[s][i] # <<>>
      BY SceneAssumption
    <3>2. IsSequence(Displayed(s, i)) /\ DOMAIN Displayed(s, i) = DOMAIN series[s][i]
      BY <3>1, MapIsSequence
    <3>3. Displayed(s, i) # <<>>
      <4>1. Len(series[s][i]) # 0
        BY <3>1 DEF IsSequence
      <4>2. 1 \in DOMAIN Displayed(s, i)
        BY <3>1, <3>2, <4>1, SequenceDomain
      <4>3. DOMAIN <<>> = {}
        OBVIOUS
      <4> QED
        BY <4>2, <4>3
    <3> HIDE DEF Displayed
    <3>4. IsNested(ClippedPaths(Displayed(s, i), plot))
      BY <3>2, <3>3, ClippedIsNested
    <3> QED
      BY <3>4
  <2>4. DOMAIN Paths(s) = DOMAIN series[s]
    OBVIOUS
  <2> HIDE DEF Paths
  <2> QED
    BY <2>2, <2>3, <2>4, FlattenOfNested
<1>8. IsSequence(SeriesPaths(scene))
  <2>1. IsSequence(series)
    BY SceneAssumption
  <2> HIDE DEF Paths, series
  <2> QED
    BY <1>6, <2>1, MapIsSequence
<1>9. \A s \in DOMAIN SeriesPaths(scene) : IsNested(SeriesPaths(scene)[s])
  <2> HIDE DEF Paths, series
  <2> QED
    BY <1>6, <1>7
<1>10. {scene.spec.canvas[1], scene.spec.canvas[2], scene.spec.plot.x0, scene.spec.plot.y0,
        scene.spec.plot.x1, scene.spec.plot.y1} \subseteq Int
  BY SceneAssumption
<1> HIDE DEF frame, xTicks, yTicks
<1> QED
  BY <1>1, <1>3, <1>4, <1>5, <1>8, <1>9, <1>10 DEF WholeFrame, IsNested, frame

-----------------------------------------------------------------------------
(* A page's content *)

\* Operators that ask for no other graphics state than the page names: the
\* background's and the grid's, as series zero, and one for each series.
Asks(o, n) == o.op = "gs" => o.series \in 0 .. n
AskFor(ops, n) == IsSequence(ops) /\ \A o \in ToSet(ops) : Asks(o, n)

\* Operators that ask for nothing else, in a row.
LEMMA ListAsks ==
  ASSUME NEW n, NEW X, NEW ops \in Seq(X), \A o \in X : Asks(o, n)
  PROVE  AskFor(ops, n)
<1>1. IsSequence(ops)
  BY SeqIsSequence
<1>2. ToSet(ops) \subseteq X
  BY DEF ToSet
<1> QED
  BY <1>1, <1>2 DEF AskFor

\* No operators ask for nothing.
LEMMA NoOpsAskNothing ==
  ASSUME NEW n
  PROVE  AskFor(<<>>, n)
<1> DEFINE X == {}
<1>1. <<>> \in Seq(X) /\ \A o \in X : Asks(o, n)
  OBVIOUS
<1> HIDE DEF X
<1> QED
  BY <1>1, ListAsks

\* Up to three operators in a row.
LEMMA FewOpsAsk ==
  ASSUME NEW n, NEW a, NEW b, NEW c, Asks(a, n), Asks(b, n), Asks(c, n)
  PROVE  AskFor(<<a>>, n) /\ AskFor(<<a, b>>, n) /\ AskFor(<<a, b, c>>, n)
<1> DEFINE X == {a, b, c}
<1>1. \A o \in X : Asks(o, n)
  OBVIOUS
<1>2. <<a>> \in Seq(X) /\ <<a, b>> \in Seq(X) /\ <<a, b, c>> \in Seq(X)
  OBVIOUS
<1> HIDE DEF X
<1> QED
  BY <1>1, <1>2, ListAsks, Zenon

\* Two parts one after the other ask for what each asks for.
LEMMA ConcatAsks ==
  ASSUME NEW n, NEW s, NEW t, AskFor(s, n), AskFor(t, n)
  PROVE  AskFor(s \o t, n)
BY ConcatIsSequence DEF AskFor

\* So do many.
LEMMA FlattenAsks ==
  ASSUME NEW n, NEW seqs, IsSequence(seqs), \A i \in DOMAIN seqs : AskFor(seqs[i], n)
  PROVE  AskFor(FlattenSeq(seqs), n)
<1>1. /\ IsSequence(FlattenSeq(seqs))
      /\ ToSet(FlattenSeq(seqs)) = UNION {ToSet(seqs[i]) : i \in DOMAIN seqs}
  BY FlattenIsSequence DEF AskFor
<1> QED
  BY <1>1 DEF AskFor

\* A path asks for no state.
LEMMA TraceAsks ==
  ASSUME NEW n, NEW path, IsSequence(path)
  PROVE  AskFor(Trace(path), n)
<1> DEFINE steps == [k \in DOMAIN path |-> [op |-> IF k = 1 THEN "m" ELSE "l", at |-> path[k]]]
<1>1. IsSequence(steps)
  BY MapIsSequence
<1>2. \A o \in ToSet(steps) : o.op # "gs"
  BY DEF ToSet
<1>3. AskFor(steps, n)
  BY <1>1, <1>2 DEF AskFor, Asks
<1>4. AskFor(<<StrokePath>>, n)
  <2>1. Asks(StrokePath, n)
    BY DEF Asks, StrokePath
  <2> QED
    BY <2>1, FewOpsAsk, Zenon
<1> QED
  BY <1>3, <1>4, ConcatAsks DEF Trace

\* The glyphs of a frame are a sequence.
LEMMA GlyphsAreSequence ==
  ASSUME WholeFrame(line)
  PROVE  IsSequence(Glyphs)
<1> DEFINE runs == line.layout.runs
           Placed(r) == [i \in DOMAIN runs[r].glyphs |->
                           [x |-> Unit * runs[r].glyphs[i].x, y |-> Unit * runs[r].glyphs[i].y]]
           all == [r \in DOMAIN runs |-> Placed(r)]
<1>1. IsSequence(all)
  BY MapIsSequence DEF WholeFrame
<1>2. \A r \in DOMAIN runs : IsSequence(Placed(r))
  BY MapIsSequence DEF WholeFrame
<1>3. DOMAIN all = DOMAIN runs /\ \A r \in DOMAIN all : all[r] = Placed(r)
  OBVIOUS
<1>4. Glyphs = FlattenSeq(all)
  BY DEF Glyphs
<1> HIDE DEF all, Placed
<1> QED
  BY <1>1, <1>2, <1>3, <1>4, FlattenIsSequence

\* The background asks for its own state.
LEMMA BackgroundAsks ==
  ASSUME NEW n \in Nat
  PROVE  AskFor(BackgroundOps, n)
<1> DEFINE fill == FillInk(line.sheet.background)
           page == [op |-> "page", width |-> Page(1), height |-> Page(2)]
           X == {Save, UseState("BG"), fill, page, Restore}
<1>1. \A o \in X : Asks(o, n)
  BY DEF Asks, Save, UseState, FillInk, Restore
<1>2. BackgroundOps \in Seq(X)
  BY DEF BackgroundOps
<1> HIDE DEF X
<1> QED
  BY <1>1, <1>2, ListAsks, Zenon

\* The grid asks for its own.
LEMMA GridAsks ==
  ASSUME NEW n \in Nat, WholeFrame(line)
  PROVE  AskFor(GridOps, n)
<1> DEFINE box == PdfPlot
           Upright(v) ==
             IF Points(v) \in box.left .. box.right
             THEN Trace(<<[x |-> Points(v), y |-> box.top], [x |-> Points(v), y |-> box.bottom]>>)
             ELSE <<>>
           Level(v) ==
             IF Page(2) - Points(v) \in box.top .. box.bottom
             THEN Trace(<<[x |-> box.left, y |-> Page(2) - Points(v)],
                          [x |-> box.right, y |-> Page(2) - Points(v)]>>)
             ELSE <<>>
           uprights == [i \in DOMAIN line.xTicks |-> Upright(line.xTicks[i])]
           levels == [i \in DOMAIN line.yTicks |-> Level(line.yTicks[i])]
           lines == FlattenSeq(uprights) \o FlattenSeq(levels)
           pen == <<UseState("GRID"), StrokeInk(GridInk), LineWidth(Unit \div 2)>>
<1>1. \A v : AskFor(Upright(v), n) /\ AskFor(Level(v), n)
  BY PairIsSequence, TraceAsks, NoOpsAskNothing
<1>2. AskFor(FlattenSeq(uprights), n)
  <2>1. IsSequence(uprights)
    BY MapIsSequence DEF WholeFrame
  <2>2. \A i \in DOMAIN uprights : AskFor(uprights[i], n)
    BY <1>1
  <2> HIDE DEF uprights
  <2> QED
    BY <2>1, <2>2, FlattenAsks
<1>3. AskFor(FlattenSeq(levels), n)
  <2>1. IsSequence(levels)
    BY MapIsSequence DEF WholeFrame
  <2>2. \A i \in DOMAIN levels : AskFor(levels[i], n)
    BY <1>1
  <2> HIDE DEF levels
  <2> QED
    BY <2>1, <2>2, FlattenAsks
<1>4. AskFor(lines, n)
  BY <1>2, <1>3, ConcatAsks
<1>5. AskFor(pen, n)
  <2>1. Asks(UseState("GRID"), n) /\ Asks(StrokeInk(GridInk), n) /\ Asks(LineWidth(Unit \div 2), n)
    BY DEF Asks, UseState, StrokeInk, LineWidth
  <2> QED
    BY <2>1, FewOpsAsk, Zenon
<1>6. GridOps = IF ~line.sheet.grid \/ lines = <<>> THEN <<>> ELSE pen \o lines
  BY DEF GridOps
<1> HIDE DEF lines, pen
<1> QED
  BY <1>4, <1>5, <1>6, ConcatAsks, NoOpsAskNothing

\* A series asks for the state of its number.
LEMMA SeriesAsks ==
  ASSUME NEW n \in Nat, NEW s \in 1 .. n, WholeFrame(line), s \in DOMAIN line.series
  PROVE  AskFor(SeriesOps(s), n)
<1> DEFINE paths == line.series[s]
           Turn(i) == [k \in DOMAIN paths[i] |-> PdfPoint(paths[i][k])]
           traces == [i \in DOMAIN paths |-> Trace(Turn(i))]
           pen == <<UseSeries(s), StrokeInk(line.sheet.style.ink),
                    LineWidth(Points(line.sheet.style.width))>>
<1>1. IsSequence(paths) /\ \A i \in DOMAIN paths : IsSequence(paths[i])
  BY DEF WholeFrame
<1>2. IsSequence(traces)
  BY <1>1, MapIsSequence
<1>3. \A i \in DOMAIN paths : AskFor(Trace(Turn(i)), n)
  BY <1>1, MapIsSequence, TraceAsks
<1>4. AskFor(FlattenSeq(traces), n)
  <2>1. \A i \in DOMAIN traces : AskFor(traces[i], n)
    BY <1>3
  <2> HIDE DEF traces
  <2> QED
    BY <1>2, <2>1, FlattenAsks
<1>5. AskFor(pen, n)
  <2>1. /\ Asks(UseSeries(s), n) /\ Asks(StrokeInk(line.sheet.style.ink), n)
        /\ Asks(LineWidth(Points(line.sheet.style.width)), n)
    BY DEF Asks, UseSeries, StrokeInk, LineWidth
  <2> QED
    BY <2>1, FewOpsAsk, Zenon
<1>6. SeriesOps(s) = IF paths = <<>> THEN <<>> ELSE pen \o FlattenSeq(traces)
  BY DEF SeriesOps
<1> HIDE DEF pen, traces
<1> QED
  BY <1>4, <1>5, <1>6, ConcatAsks, NoOpsAskNothing

\* Text asks for none.
LEMMA TextAsks ==
  ASSUME NEW n \in Nat, WholeFrame(line)
  PROVE  AskFor(TextOps, n)
<1> DEFINE cellOf == [i \in DOMAIN Glyphs |-> TextCell(Glyphs[i])]
           cells == FlattenSeq(cellOf)
<1>1. \A p : AskFor(TextCell(p), n)
  <2> SUFFICES ASSUME NEW p PROVE AskFor(TextCell(p), n)
    OBVIOUS
  <2>1. \A box : AskFor(<<Rectangle("f", box)>>, n)
    <3>1. \A box : Asks(Rectangle("f", box), n)
      BY DEF Asks, Rectangle
    <3> QED
      BY <3>1, FewOpsAsk, Zenon
  <2>2. TextCell(p) = <<>> \/ \E box : TextCell(p) = <<Rectangle("f", box)>>
    BY DEF TextCell
  <2> QED
    BY <2>1, <2>2, NoOpsAskNothing
<1>2. AskFor(cells, n)
  <2>1. IsSequence(cellOf)
    BY GlyphsAreSequence, MapIsSequence
  <2>2. \A i \in DOMAIN cellOf : AskFor(cellOf[i], n)
    BY <1>1
  <2> HIDE DEF cellOf
  <2> QED
    BY <2>1, <2>2, FlattenAsks
<1>3. AskFor(<<Save, FillInk(BlackInk)>>, n) /\ AskFor(<<Restore>>, n)
  <2>1. Asks(Save, n) /\ Asks(FillInk(BlackInk), n) /\ Asks(Restore, n)
    BY DEF Asks, Save, FillInk, Restore
  <2> QED
    BY <2>1, FewOpsAsk, Zenon
<1>4. TextOps = IF cells = <<>> THEN <<>>
                ELSE <<Save, FillInk(BlackInk)>> \o cells \o <<Restore>>
  BY DEF TextOps
<1> HIDE DEF cells
<1> QED
  BY <1>2, <1>3, <1>4, ConcatAsks, NoOpsAskNothing

\* Every state a page's content asks for is one the page names.
LEMMA ContentAsks ==
  ASSUME WholeFrame(line)
  PROVE  AskFor(FlattenSeq(ContentParts), Len(line.series))
<1> DEFINE n == Len(line.series)
           first == <<BackgroundOps, OpenPlot, GridOps>>
           middle == [s \in DOMAIN line.series |-> SeriesOps(s)]
           last == <<<<Restore>>, TextOps>>
<1>1. n \in Nat /\ DOMAIN line.series = 1 .. n
  BY SequenceDomain DEF WholeFrame
<1>2. AskFor(OpenPlot, n) /\ AskFor(<<Restore>>, n)
  <2>1. Asks(Save, n) /\ Asks(Rectangle("W", PdfPlot), n) /\ Asks(Restore, n)
    BY DEF Asks, Save, Rectangle, Restore
  <2> QED
    BY <2>1, FewOpsAsk, Zenon DEF OpenPlot
<1> DEFINE X == {ops \in {BackgroundOps, OpenPlot, GridOps, <<Restore>>, TextOps}
                          \cup {SeriesOps(s) : s \in 1 .. n} : AskFor(ops, n)}
<1>3. first \in Seq(X)
  <2>1. BackgroundOps \in X /\ OpenPlot \in X /\ GridOps \in X
    BY <1>1, <1>2, BackgroundAsks, GridAsks
  <2> HIDE DEF X
  <2> QED
    BY <2>1
<1>4. middle \in Seq(X)
  <2>1. \A s \in 1 .. n : SeriesOps(s) \in X
    BY <1>1, SeriesAsks
  <2> HIDE DEF X
  <2> QED
    BY <1>1, <2>1
<1>5. last \in Seq(X)
  <2>1. <<Restore>> \in X /\ TextOps \in X
    BY <1>1, <1>2, TextAsks
  <2> HIDE DEF X
  <2> QED
    BY <2>1
<1>6. \A ops \in X : AskFor(ops, n)
  OBVIOUS
<1>7. ContentParts = first \o middle \o last
  BY DEF ContentParts
<1> HIDE DEF X, first, middle, last
<1>8. ContentParts \in Seq(X)
  BY <1>3, <1>4, <1>5, <1>7
<1>9. \A i \in DOMAIN ContentParts : AskFor(ContentParts[i], n)
  BY <1>6, <1>8
<1> QED
  BY <1>8, <1>9, SeqIsSequence, FlattenAsks

-----------------------------------------------------------------------------
(* A file *)

\* Two sequences, and three, in a row.
Joins(st, s, t) ==
  /\ Len(st) = Len(s) + Len(t)
  /\ \A i \in 1 .. Len(s) : st[i] = s[i]
  /\ \A i \in 1 .. Len(t) : st[Len(s) + i] = t[i]

\* Where two sequences in a row begin and end.
LEMMA TwoInARow ==
  ASSUME NEW X, NEW s \in Seq(X), NEW t \in Seq(X)
  PROVE  s \o t \in Seq(X) /\ Joins(s \o t, s, t)
BY DEF Joins

\* Where three do.
LEMMA ThreeInARow ==
  ASSUME NEW X, NEW s \in Seq(X), NEW t \in Seq(X), NEW u \in Seq(X)
  PROVE  \E st \in Seq(X) :
           s \o t \o u \in Seq(X) /\ Joins(st, s, t) /\ Joins(s \o t \o u, st, u)
<1>1. s \o t \in Seq(X) /\ Joins(s \o t, s, t)
  BY TwoInARow
<1>2. (s \o t) \o u \in Seq(X) /\ Joins((s \o t) \o u, s \o t, u)
  BY <1>1, TwoInARow
<1> QED
  BY <1>1, <1>2

\* An object's number is its place.
LEMMA ObjectsInPlace ==
  ASSUME WholeFrame(line)
  PROVE  LET n == Len(line.series) IN
         /\ n \in Nat /\ DOMAIN line.series = 1 .. n
         /\ IsSequence(Objects) /\ Len(Objects) = n + 7
         /\ \A i \in 1 .. (n + 7) : Objects[i].id = i
         /\ Objects[1].body.type = "Catalog"
         /\ Objects[2].body.type = "Pages"
         /\ Objects[3].body = [type |-> "Page", contents |-> 4, background |-> 5, grid |-> 6,
                               series |-> [s \in DOMAIN line.series |-> 6 + s]]
         /\ Objects[4].body = [type |-> "Stream", length |-> SizeOf(pdf.content)]
         /\ \A i \in 5 .. (n + 6) : Objects[i].body.type = "ExtGState"
         /\ Objects[n + 7].body.type = "Info"
<1> DEFINE n == Len(line.series)
           o1 == [id |-> 1, body |-> [type |-> "Catalog", pages |-> 2]]
           o2 == [id |-> 2, body |-> [type |-> "Pages", kid |-> 3]]
           o3 == [id |-> 3, body |-> [type |-> "Page", contents |-> 4, background |-> 5, grid |-> 6,
                         series |-> [s \in DOMAIN line.series |-> SeriesObject(s)]]]
           o4 == [id |-> 4, body |-> [type |-> "Stream", length |-> SizeOf(pdf.content)]]
           o5 == [id |-> 5, body |-> AlphaState(line.sheet.background)]
           o6 == [id |-> 6, body |-> AlphaState(GridInk)]
           first == <<o1, o2, o3, o4, o5, o6>>
           State(s) == [id |-> SeriesObject(s), body |-> AlphaState(line.sheet.style.ink)]
           states == [s \in DOMAIN line.series |-> State(s)]
           info == [id |-> InfoObject, body |-> [type |-> "Info"]]
           X == {o1, o2, o3, o4, o5, o6, info} \cup {State(s) : s \in 1 .. n}
<1>1. n \in Nat /\ DOMAIN line.series = 1 .. n
  BY SequenceDomain DEF WholeFrame
<1>2. Objects = first \o states \o <<info>>
  BY DEF Objects
<1>3. /\ o1.id = 1 /\ o2.id = 2 /\ o3.id = 3 /\ o4.id = 4 /\ o5.id = 5 /\ o6.id = 6
      /\ o1.body.type = "Catalog" /\ o2.body.type = "Pages"
      /\ o3.body = [type |-> "Page", contents |-> 4, background |-> 5, grid |-> 6,
                    series |-> [s \in DOMAIN line.series |-> 6 + s]]
      /\ o4.body = [type |-> "Stream", length |-> SizeOf(pdf.content)]
      /\ o5.body.type = "ExtGState" /\ o6.body.type = "ExtGState"
      /\ info.id = 7 + n /\ info.body.type = "Info"
  BY DEF AlphaState, InfoObject, SeriesObject
<1>4. \A s : State(s).id = 6 + s /\ State(s).body.type = "ExtGState"
  BY DEF AlphaState, SeriesObject
<1>5. /\ {o1, o2, o3, o4, o5, o6, info} \subseteq X
      /\ \A s \in 1 .. n : State(s) \in X
  OBVIOUS
<1> HIDE DEF o1, o2, o3, o4, o5, o6, State, info, X
<1>6. first \in Seq(X) /\ Len(first) = 6 /\ <<info>> \in Seq(X) /\ Len(<<info>>) = 1
  BY <1>5
<1>7. states \in Seq(X) /\ Len(states) = n /\ \A s \in 1 .. n : states[s] = State(s)
  BY <1>1, <1>5
<1>8. /\ first[1] = o1 /\ first[2] = o2 /\ first[3] = o3 /\ first[4] = o4
      /\ first[5] = o5 /\ first[6] = o6 /\ <<info>>[1] = info
  OBVIOUS
<1> DEFINE end == <<info>>
           all == first \o states \o end
<1>9. end \in Seq(X) /\ Len(end) = 1 /\ end[1] = info /\ Objects = all
  BY <1>2, <1>6, <1>8
<1> HIDE DEF first, states, end
<1>10. /\ all \in Seq(X) /\ Len(all) = 6 + n + 1
       /\ \A i \in 1 .. 6 : all[i] = first[i]
       /\ \A i \in 1 .. n : all[6 + i] = states[i]
       /\ \A i \in 1 .. 1 : all[6 + n + i] = end[i]
  <2>1. PICK both \in Seq(X) : all \in Seq(X) /\ Joins(both, first, states) /\ Joins(all, both, end)
    BY <1>6, <1>7, <1>9, ThreeInARow
  <2> HIDE DEF all
  <2>2. /\ Len(both) = 6 + n
        /\ \A i \in 1 .. 6 : both[i] = first[i]
        /\ \A i \in 1 .. n : both[6 + i] = states[i]
    BY <1>6, <1>7, <2>1 DEF Joins
  <2>3. /\ Len(all) = 6 + n + 1
        /\ \A i \in 1 .. (6 + n) : all[i] = both[i]
        /\ \A i \in 1 .. 1 : all[6 + n + i] = end[i]
    BY <1>9, <2>1, <2>2 DEF Joins
  <2>4. \A i \in 1 .. 6 : i \in 1 .. (6 + n)
    BY <1>1
  <2>5. \A i \in 1 .. n : 6 + i \in 1 .. (6 + n)
    BY <1>1
  <2> QED
    BY <2>1, <2>2, <2>3, <2>4, <2>5
<1> HIDE DEF all
<1>11. \A i \in 7 .. (n + 6) : Objects[i] = State(i - 6)
  <2> SUFFICES ASSUME NEW i \in 7 .. (n + 6) PROVE Objects[i] = State(i - 6)
    OBVIOUS
  <2>1. i - 6 \in 1 .. n /\ 6 + (i - 6) = i
    BY <1>1
  <2> QED
    BY <1>7, <1>9, <1>10, <2>1
<1>12. Objects[n + 7] = info
  <2>1. 1 \in 1 .. 1 /\ 6 + n + 1 = n + 7
    BY <1>1
  <2> QED
    BY <1>9, <1>10, <2>1
<1>0. \A i \in 1 .. 6 : Objects[i] = first[i]
  BY <1>9, <1>10
<1>13. \A i \in 1 .. (n + 7) : Objects[i].id = i
  <2> SUFFICES ASSUME NEW i \in 1 .. (n + 7) PROVE Objects[i].id = i
    OBVIOUS
  <2>1. CASE i \in 1 .. 6
    BY <1>0, <1>3, <1>8, <2>1
  <2>2. CASE i \in 7 .. (n + 6)
    BY <1>1, <1>4, <1>11, <2>2
  <2>3. CASE i = n + 7
    BY <1>3, <1>12, <2>3
  <2> QED
    BY <1>1, <2>1, <2>2, <2>3
<1>14. \A i \in 5 .. (n + 6) : Objects[i].body.type = "ExtGState"
  <2> SUFFICES ASSUME NEW i \in 5 .. (n + 6) PROVE Objects[i].body.type = "ExtGState"
    OBVIOUS
  <2>1. CASE i \in 5 .. 6
    BY <1>0, <1>3, <1>8, <2>1
  <2>2. CASE i \in 7 .. (n + 6)
    BY <1>1, <1>4, <1>11, <2>2
  <2> QED
    BY <1>1, <2>1, <2>2
<1>15. Objects[1] = o1 /\ Objects[2] = o2 /\ Objects[3] = o3 /\ Objects[4] = o4
  BY <1>0, <1>8
<1>16. IsSequence(Objects)
  BY <1>9, <1>10, SeqIsSequence
<1> QED
  BY <1>1, <1>3, <1>9, <1>10, <1>12, <1>13, <1>14, <1>15, <1>16

\* There are as many objects as were planned.
LEMMA ObjectsAreCounted ==
  WholeFrame(line) => IsSequence(Objects) /\ Len(Objects) = ObjectCount /\ ObjectCount \in Nat
BY ObjectsInPlace DEF ObjectCount

\* A finished file of a whole frame resolves.
LEMMA WholeFileResolves ==
  ASSUME ExportIInv
  PROVE  FileResolves
<1> SUFFICES ASSUME pdf.stage = "delivered" PROVE FileResolves
  BY DEF FileResolves
<1> DEFINE n == Len(line.series)
           At(k) == CHOOSE i \in DOMAIN pdf.file : pdf.file[i].id = k
<1>1. WholeFrame(line)
  BY DEF ExportIInv, FrameIsWhole, FileGrows
<1>2. /\ n \in Nat /\ DOMAIN line.series = 1 .. n
      /\ IsSequence(Objects) /\ Len(Objects) = n + 7
      /\ \A i \in 1 .. (n + 7) : Objects[i].id = i
  BY <1>1, ObjectsInPlace
<1>3. pdf.file = Objects
  <2>1. Len(pdf.file) = n + 7 /\ pdf.file = SubSeq(Objects, 1, n + 7)
    BY <1>2 DEF ExportIInv, FileGrows
  <2>2. Objects \in Seq(ToSet(Objects))
    BY <1>2 DEF IsSequence
  <2> QED
    BY <1>2, <2>1, <2>2
<1>4. DOMAIN pdf.file = 1 .. (n + 7)
  BY <1>2, <1>3, SequenceDomain
<1>5. \A k \in 1 .. (n + 7) : At(k) = k
  BY <1>2, <1>3, <1>4
<1>6. \A k \in 1 .. (n + 7) : pdf.offsets[k] = Length(SubSeq(pdf.file, 1, k - 1))
  BY <1>2, <1>3 DEF ExportIInv, FileGrows
<1>7. Len(pdf.offsets) = n + 7
  BY <1>2, <1>3 DEF ExportIInv, FileGrows
<1>8. /\ pdf.file[1].body.type = "Catalog"
      /\ pdf.file[2].body.type = "Pages"
      /\ pdf.file[3].body = [type |-> "Page", contents |-> 4, background |-> 5, grid |-> 6,
                             series |-> [s \in DOMAIN line.series |-> 6 + s]]
      /\ pdf.file[4].body = [type |-> "Stream", length |-> SizeOf(pdf.content)]
      /\ \A i \in 5 .. (n + 6) : pdf.file[i].body.type = "ExtGState"
      /\ pdf.file[n + 7].body.type = "Info"
  BY <1>1, <1>3, ObjectsInPlace
<1>9. InfoObject = n + 7
  BY <1>2 DEF InfoObject
<1> DEFINE page == pdf.file[At(3)].body
           Is(k, type) == pdf.file[At(k)].body.type = type
<1>10. \A o \in ToSet(pdf.content) : Asks(o, n)
  BY <1>1, ContentAsks DEF ExportIInv, FileGrows, AskFor
<1>11. /\ page.contents = 4 /\ page.background = 5 /\ page.grid = 6
       /\ \A s \in 1 .. n : page.series[s] = 6 + s
       /\ page.type = "Page"
  <2>1. page = [type |-> "Page", contents |-> 4, background |-> 5, grid |-> 6,
                series |-> [s \in DOMAIN line.series |-> 6 + s]]
    <3>1. At(3) = 3
      BY <1>2, <1>5
    <3> HIDE DEF At
    <3> QED
      BY <1>8, <3>1
  <2> HIDE DEF page
  <2> QED
    BY <1>2, <2>1
<1>12. \A k \in 1 .. (n + 7) :
         /\ \E i \in DOMAIN pdf.file : pdf.file[i].id = k
         /\ pdf.offsets[k] = Length(SubSeq(pdf.file, 1, At(k) - 1))
  BY <1>2, <1>3, <1>4, <1>5, <1>6
<1>13. \A i, j \in DOMAIN pdf.file : pdf.file[i].id = pdf.file[j].id => i = j
  BY <1>2, <1>3, <1>4
<1> HIDE DEF page, At
<1>14. \A k \in 1 .. (n + 7) : \A type : Is(k, type) <=> pdf.file[k].body.type = type
  BY <1>5
<1> HIDE DEF Is
<1>15. /\ Is(1, "Catalog") /\ Is(2, "Pages") /\ Is(InfoObject, "Info")
       /\ Is(page.contents, "Stream")
  <2>1. {1, 2, 4, n + 7} \subseteq 1 .. (n + 7)
    BY <1>2
  <2>2. pdf.file[4].body.type = "Stream"
    BY <1>8
  <2>3. Is(1, "Catalog") /\ Is(2, "Pages") /\ Is(n + 7, "Info") /\ Is(4, "Stream")
    BY <1>8, <1>14, <2>1, <2>2
  <2> QED
    BY <1>9, <1>11, <2>3
<1>16. Is(3, "Page")
  <2>1. 3 \in 1 .. (n + 7) /\ pdf.file[3].body.type = "Page"
    BY <1>2, <1>8
  <2> QED
    BY <1>14, <2>1
<1>17. pdf.file[At(page.contents)].body.length = SizeOf(pdf.content)
  BY <1>2, <1>5, <1>8, <1>11
<1>18. ASSUME NEW o \in ToSet(pdf.content), o.op = "gs"
       PROVE  Is(IF o.series > 0 THEN page.series[o.series]
                 ELSE IF o.name = "GRID" THEN page.grid ELSE page.background, "ExtGState")
  <2>1. o.series \in 0 .. n
    BY <1>10, <1>18 DEF Asks
  <2>2. \A k \in 5 .. (n + 6) : Is(k, "ExtGState")
    BY <1>2, <1>8, <1>14
  <2>3. CASE o.series > 0
    <3>1. page.series[o.series] \in 5 .. (n + 6)
      BY <1>2, <1>11, <2>1, <2>3
    <3> QED
      BY <2>2, <2>3, <3>1
  <2>4. CASE ~(o.series > 0)
    <3>1. 5 \in 5 .. (n + 6) /\ 6 \in 5 .. (n + 6)
      BY <1>2
    <3> QED
      BY <1>11, <2>2, <2>4, <3>1
  <2> QED
    BY <2>3, <2>4
<1> USE DEF page, At, Is
<1> QED
  BY <1>7, <1>12, <1>13, <1>15, <1>16, <1>17, <1>18 DEF FileResolves

-----------------------------------------------------------------------------
(* Sums *)

SumsUp(a, n, f) == f = [k \in 0 .. n |-> IF k = 0 THEN 0 ELSE f[k - 1] + a[k]]

\* The recursion of Sums has a solution.
LEMMA SumsExist ==
  ASSUME NEW a, NEW n \in Nat
  PROVE  \E f : SumsUp(a, n, f)
<1> DEFINE T == {m \in Nat : ~\E f : SumsUp(a, m, f)}
<1> SUFFICES ASSUME T # {} PROVE FALSE
  OBVIOUS
<1>1. PICK m \in T : \A k \in T : m <= k
  <2>1. T \subseteq Nat
    OBVIOUS
  <2> HIDE DEF T
  <2> QED
    BY <2>1, LeastNatural
<1>2. m # 0
  <2>1. SumsUp(a, 0, [k \in 0 .. 0 |-> 0])
    <3>1. \A k \in 0 .. 0 : k = 0
      OBVIOUS
    <3> QED
      BY <3>1 DEF SumsUp
  <2> QED
    BY <2>1
<1>3. m \in Nat \ {0} /\ m - 1 \in Nat /\ m - 1 \notin T
  BY <1>1, <1>2
<1>4. PICK f : SumsUp(a, m - 1, f)
  BY <1>3
<1> DEFINE g == [k \in 0 .. m |-> IF k = m THEN f[m - 1] + a[m] ELSE f[k]]
<1>5. SumsUp(a, m, g)
  <2>1. ASSUME NEW k \in 0 .. m
        PROVE  g[k] = IF k = 0 THEN 0 ELSE g[k - 1] + a[k]
    <3>1. CASE k = m
      <4>1. k # 0 /\ k - 1 \in 0 .. m /\ k - 1 # m
        BY <1>3, <3>1
      <4> QED
        BY <3>1, <4>1
    <3>2. CASE k # m
      <4>1. k \in 0 .. (m - 1)
        BY <1>3, <3>2
      <4>2. k # 0 => k - 1 \in 0 .. m /\ k - 1 # m
        BY <1>3, <4>1
      <4>3. f[k] = IF k = 0 THEN 0 ELSE f[k - 1] + a[k]
        BY <1>4, <4>1 DEF SumsUp
      <4> QED
        BY <3>2, <4>2, <4>3
    <3> QED
      BY <3>1, <3>2
  <2> QED
    BY <2>1 DEF SumsUp
<1> QED
  BY <1>3, <1>5

\* What Sums returns.
LEMMA SumsAdd ==
  ASSUME NEW a, Len(a) \in Nat
  PROVE  /\ Sums(a)[0] = 0
         /\ \A k \in 1 .. Len(a) : Sums(a)[k] = Sums(a)[k - 1] + a[k]
         /\ Total(a) = Sums(a)[Len(a)]
<1> DEFINE f == CHOOSE g : g = [k \in 0 .. Len(a) |-> IF k = 0 THEN 0 ELSE g[k - 1] + a[k]]
<1>1. \E g : g = [k \in 0 .. Len(a) |-> IF k = 0 THEN 0 ELSE g[k - 1] + a[k]]
  BY SumsExist DEF SumsUp
<1>2. SumsUp(a, Len(a), f)
  BY <1>1 DEF SumsUp
<1>3. Sums(a) = f
  BY DEF Sums
<1> HIDE DEF f
<1>4. \A k \in 0 .. Len(a) : f[k] = IF k = 0 THEN 0 ELSE f[k - 1] + a[k]
  BY <1>2 DEF SumsUp
<1>5. /\ 0 \in 0 .. Len(a)
      /\ \A k \in 1 .. Len(a) : k \in 0 .. Len(a) /\ k # 0
  OBVIOUS
<1> QED
  BY <1>3, <1>4, <1>5 DEF Total

\* Numbers each no larger than the steps of a bound have no larger sums.
LEMMA SumsBelow ==
  ASSUME NEW a, Len(a) \in Nat, \A i \in 1 .. Len(a) : a[i] \in Int,
         NEW w, \A i \in 0 .. Len(a) : w[i] \in Int, 0 <= w[0],
         \A i \in 1 .. Len(a) : a[i] <= w[i] - w[i - 1]
  PROVE  \A k \in 0 .. Len(a) : Sums(a)[k] \in Int /\ Sums(a)[k] <= w[k]
<1> DEFINE T == {k \in 0 .. Len(a) : ~(Sums(a)[k] \in Int /\ Sums(a)[k] <= w[k])}
<1> SUFFICES ASSUME T # {} PROVE FALSE
  OBVIOUS
<1>1. PICK k \in T : \A j \in T : k <= j
  <2>1. T \subseteq Nat
    OBVIOUS
  <2> HIDE DEF T
  <2> QED
    BY <2>1, LeastNatural
<1>2. k \in 0 .. Len(a) /\ ~(Sums(a)[k] \in Int /\ Sums(a)[k] <= w[k])
  OBVIOUS
<1>3. k # 0
  <2>1. 0 \in 0 .. Len(a) /\ w[0] \in Int /\ Sums(a)[0] = 0
    BY SumsAdd
  <2> QED
    BY <1>2, <2>1
<1>4. k \in 1 .. Len(a) /\ k - 1 \in 0 .. Len(a)
  BY <1>2, <1>3
<1>5. ~(k - 1 \in T)
  <2> HIDE DEF T
  <2> QED
    BY <1>1, <1>4
<1>6. Sums(a)[k - 1] \in Int /\ Sums(a)[k - 1] <= w[k - 1]
  BY <1>4, <1>5
<1>7. Sums(a)[k] = Sums(a)[k - 1] + a[k]
  BY <1>4, SumsAdd
<1>8. a[k] \in Int /\ a[k] <= w[k] - w[k - 1] /\ w[k] \in Int /\ w[k - 1] \in Int
  BY <1>2, <1>4
<1> QED
  BY <1>2, <1>6, <1>7, <1>8

\* A sum of natural numbers is one, and so is every part of it.
LEMMA SumsAreNatural ==
  ASSUME NEW a, Len(a) \in Nat, \A i \in 1 .. Len(a) : a[i] \in Nat
  PROVE  /\ \A k \in 0 .. Len(a) : Sums(a)[k] \in Nat
         /\ Total(a) \in Nat
<1> DEFINE T == {k \in 0 .. Len(a) : ~(Sums(a)[k] \in Nat)}
<1>1. T = {}
  <2> SUFFICES ASSUME T # {} PROVE FALSE
    OBVIOUS
  <2>1. PICK k \in T : \A j \in T : k <= j
    <3>1. T \subseteq Nat
      OBVIOUS
    <3> HIDE DEF T
    <3> QED
      BY <3>1, LeastNatural
  <2>2. k \in 0 .. Len(a) /\ ~(Sums(a)[k] \in Nat)
    OBVIOUS
  <2>3. k # 0
    BY <2>2, SumsAdd
  <2>4. k \in 1 .. Len(a) /\ k - 1 \in 0 .. Len(a)
    BY <2>2, <2>3
  <2>5. ~(k - 1 \in T)
    <3> HIDE DEF T
    <3> QED
      BY <2>1, <2>4
  <2>6. Sums(a)[k - 1] \in Nat /\ a[k] \in Nat
    BY <2>4, <2>5
  <2>7. Sums(a)[k] = Sums(a)[k - 1] + a[k]
    BY <2>4, SumsAdd
  <2> QED
    BY <2>2, <2>6, <2>7
<1>2. \A k \in 0 .. Len(a) : Sums(a)[k] \in Nat
  BY <1>1
<1>3. Len(a) \in 0 .. Len(a)
  OBVIOUS
<1> QED
  BY <1>2, <1>3, SumsAdd

\* So does the sum of all of them.
LEMMA TotalBelow ==
  ASSUME NEW a, Len(a) \in Nat, \A i \in 1 .. Len(a) : a[i] \in Int,
         NEW w, \A i \in 0 .. Len(a) : w[i] \in Int, 0 <= w[0],
         \A i \in 1 .. Len(a) : a[i] <= w[i] - w[i - 1]
  PROVE  Total(a) \in Int /\ Total(a) <= w[Len(a)]
<1>1. Len(a) \in 0 .. Len(a)
  OBVIOUS
<1> QED
  BY <1>1, SumsBelow, SumsAdd

\* Numbers with a common bound.
LEMMA TotalBelowProduct ==
  ASSUME NEW a, Len(a) \in Nat, NEW b \in Nat, \A i \in 1 .. Len(a) : a[i] \in Int /\ a[i] <= b
  PROVE  Total(a) \in Int /\ Total(a) <= b * Len(a)
<1> DEFINE w == [i \in 0 .. Len(a) |-> b * i]
<1>1. \A i \in 0 .. Len(a) : w[i] = b * i /\ w[i] \in Int
  OBVIOUS
<1>2. 0 <= w[0]
  BY <1>1
<1>3. ASSUME NEW i \in 1 .. Len(a) PROVE a[i] <= w[i] - w[i - 1]
  <2>1. i \in 0 .. Len(a) /\ i - 1 \in 0 .. Len(a)
    OBVIOUS
  <2>2. b * i - b * (i - 1) = b
    OBVIOUS
  <2> QED
    BY <1>1, <2>1, <2>2
<1>4. Len(a) \in 0 .. Len(a)
  OBVIOUS
<1>5. w[Len(a)] = b * Len(a)
  BY <1>1, <1>4
<1> HIDE DEF w
<1>6. Total(a) \in Int /\ Total(a) <= w[Len(a)]
  BY <1>1, <1>2, <1>3, TotalBelow
<1> QED
  BY <1>5, <1>6

\* Sequences one after the other are as long as they are together.
LEMMA FlattenLength ==
  ASSUME NEW seqs, IsSequence(seqs), \A i \in DOMAIN seqs : IsSequence(seqs[i])
  PROVE  /\ Len(FlattenSeq(seqs)) \in Nat
         /\ Len(FlattenSeq(seqs)) = Total([i \in DOMAIN seqs |-> Len(seqs[i])])
<1> DEFINE a == [i \in DOMAIN seqs |-> Len(seqs[i])]
           n == Len(seqs)
<1>1. n \in Nat /\ DOMAIN seqs = 1 .. n
  BY SequenceDomain
<1>2. Len(a) = n
  <2>1. a = [i \in 1 .. n |-> a[i]]
    BY <1>1
  <2> HIDE DEF a
  <2> QED
    BY <1>1, <2>1, ListIsSequence
<1>3. \A i \in 1 .. n : a[i] = Len(seqs[i]) /\ a[i] \in Nat
  BY <1>1, SequenceDomain
<1> HIDE DEF a
<1>4. IsSequence(FlattenSeq(seqs)) /\ Len(FlattenSeq(seqs)) \in Nat
  BY FlattenIsSequence, SequenceDomain
<1>5. CASE n = 0
  <2>1. FlattenSeq(seqs) = seqs
    BY <1>5 DEF FlattenSeq
  <2>2. Total(a) = 0
    BY <1>2, <1>5, SumsAdd
  <2> QED
    BY <1>4, <1>5, <2>1, <2>2 DEF a
<1>6. CASE n # 0
  <2>1. PICK f : Joined(seqs, n, f) /\ FlattenSeq(seqs) = f[n]
    BY <1>1, <1>6, FlattenSeqJoins
  <2> DEFINE Good(k) == IsSequence(f[k]) /\ Len(f[k]) = Sums(a)[k]
             T == {k \in 1 .. n : ~Good(k)}
  <2>2. T = {}
    <3> SUFFICES ASSUME T # {} PROVE FALSE
      OBVIOUS
    <3>1. PICK k \in T : \A j \in T : k <= j
      <4>1. T \subseteq Nat
        BY <1>1
      <4> HIDE DEF T
      <4> QED
        BY <4>1, LeastNatural
    <3>2. k \in 1 .. n /\ ~Good(k) /\ n \in Nat
      BY <1>1
    <3> HIDE DEF Good
    <3>3. \A j \in 1 .. (k - 1) : Good(j)
      BY <3>1, <3>2
    <3> HIDE DEF T
    <3>4. f[k] = IF k = 1 THEN seqs[k] ELSE f[k - 1] \o seqs[k]
      BY <2>1, <3>2 DEF Joined
    <3>5. IsSequence(seqs[k]) /\ Len(seqs[k]) \in Nat /\ a[k] = Len(seqs[k])
      BY <1>1, <1>3, <3>2
    <3>6. Sums(a)[k] = Sums(a)[k - 1] + a[k] /\ Sums(a)[0] = 0
      BY <1>1, <1>2, <3>2, SumsAdd
    <3>7. CASE k = 1
      <4>1. Sums(a)[k] = Len(seqs[k])
        BY <3>5, <3>6, <3>7
      <4> QED
        BY <3>2, <3>4, <3>5, <3>7, <4>1 DEF Good
    <3>8. CASE k # 1
      <4>1. k - 1 \in 1 .. (k - 1)
        BY <3>2, <3>8
      <4>2. IsSequence(f[k - 1]) /\ Len(f[k - 1]) = Sums(a)[k - 1]
        BY <3>3, <4>1 DEF Good
      <4>3. /\ IsSequence(f[k - 1] \o seqs[k])
            /\ Len(f[k - 1] \o seqs[k]) = Len(f[k - 1]) + Len(seqs[k])
        <5> DEFINE A == ToSet(f[k - 1]) \cup ToSet(seqs[k])
        <5>1. f[k - 1] \in Seq(A) /\ seqs[k] \in Seq(A)
          BY <3>5, <4>2, SequenceDomain DEF IsSequence
        <5>2. IsSequence(f[k - 1] \o seqs[k])
          BY <3>5, <4>2, ConcatIsSequence
        <5> HIDE DEF A
        <5>3. Len(f[k - 1] \o seqs[k]) = Len(f[k - 1]) + Len(seqs[k])
          BY <5>1
        <5> QED
          BY <5>2, <5>3
      <4> QED
        BY <3>2, <3>4, <3>5, <3>6, <3>8, <4>2, <4>3 DEF Good
    <3> QED
      BY <3>7, <3>8
  <2>3. n \in 1 .. n
    BY <1>1, <1>6
  <2>4. Len(f[n]) = Sums(a)[n]
    BY <2>2, <2>3
  <2>5. Total(a) = Sums(a)[n]
    BY <1>1, <1>2, SumsAdd
  <2> QED
    BY <1>4, <2>1, <2>4, <2>5 DEF a
<1> QED
  BY <1>5, <1>6

-----------------------------------------------------------------------------
(* Lengths in pixels and points, and how many bytes a number has *)

\* Quotients of a positive number rise with what is divided.
LEMMA QuotientsRise ==
  ASSUME NEW c \in Nat \ {0}, NEW a \in Int, NEW b \in Int, a <= b
  PROVE  a \div c \in Int /\ b \div c \in Int /\ a \div c <= b \div c
BY SMT

\* Products with a natural number rise with what is multiplied.
LEMMA ProductsRise ==
  ASSUME NEW c \in Nat, NEW a \in Int, NEW b \in Int, a <= b
  PROVE  a * c \in Int /\ b * c \in Int /\ a * c <= b * c
<1>1. PICK d \in Nat : b = a + d
  <2>1. b - a \in Nat /\ b = a + (b - a)
    OBVIOUS
  <2> QED
    BY <2>1
<1>2. b * c = a * c + d * c /\ d * c \in Nat /\ a * c \in Int
  BY <1>1
<1> QED
  BY <1>2

\* Lengths scaled by a resolution rise with the lengths.
LEMMA ScalesRise ==
  ASSUME NEW n \in Nat, NEW c \in Nat \ {0}, NEW a \in Int, NEW b \in Int, a <= b
  PROVE  /\ (a * n) \div c \in Int /\ (b * n) \div c \in Int
         /\ (a * n) \div c <= (b * n) \div c
         /\ (0 * n) \div c = 0
<1>1. a * n \in Int /\ b * n \in Int /\ a * n <= b * n
  BY ProductsRise
<1>2. 0 * n = 0 /\ 0 \div c = 0
  OBVIOUS
<1> DEFINE p == a * n
           q == b * n
<1> HIDE DEF p, q
<1>3. p \in Int /\ q \in Int /\ p <= q
  BY <1>1 DEF p, q
<1>4. p \div c \in Int /\ q \div c \in Int /\ p \div c <= q \div c
  BY <1>3, QuotientsRise
<1> QED
  BY <1>2, <1>4 DEF p, q

\* A held frame's resolutions.
LEMMA ResolutionsAreNumbers ==
  ASSUME WholeFrame(line)
  PROVE  /\ line.sheet.perInch \in Nat \ {0} /\ line.sheet.perInch < 10 ^ 9
         /\ line.sheet.dpi \in Nat \ {0} /\ line.sheet.dpi < 10 ^ 9
BY SheetAssumption DEF WholeFrame

\* Lengths in points rise with the lengths.
LEMMA PointsRise ==
  ASSUME WholeFrame(line), NEW a \in Int, NEW b \in Int, a <= b
  PROVE  /\ Points(a) \in Int /\ Points(b) \in Int /\ Points(a) <= Points(b)
         /\ Points(0) = 0
<1>1. line.sheet.perInch \in Nat \ {0} /\ 72 \in Nat
  BY ResolutionsAreNumbers
<1> QED
  BY <1>1, ScalesRise DEF Points

\* So do lengths in pixels.
LEMMA PixelsRise ==
  ASSUME WholeFrame(line), NEW a \in Int, NEW b \in Int, a <= b
  PROVE  /\ Pixels(a) \in Int /\ Pixels(b) \in Int /\ Pixels(a) <= Pixels(b)
         /\ Pixels(0) = 0
<1>1. line.sheet.perInch \in Nat \ {0} /\ line.sheet.dpi \in Nat
  BY ResolutionsAreNumbers
<1> QED
  BY <1>1, ScalesRise DEF Pixels

\* A number has nine digits at most, one below ten to the fifth five.
LEMMA DigitsAreFew ==
  ASSUME NEW n \in Nat, n < 10 ^ 9
  PROVE  /\ Digits(n) \in 1 .. 9
         /\ n < 10 ^ 5 => Digits(n) <= 5
<1> DEFINE K == {d \in 1 .. 9 : n < 10 ^ d}
<1>1. K \in SUBSET Nat /\ K \subseteq 1 .. 9 /\ 9 \in K
  OBVIOUS
<1>2. n < 10 ^ 5 => 5 \in K
  OBVIOUS
<1>3. Digits(n) = Min(K)
  BY DEF Digits
<1> HIDE DEF K
<1>4. Min(K) \in K
  BY <1>1, MinIsIn
<1>5. \A d \in K : Min(K) <= d
  <2>1. \E d \in K : \A e \in K : d <= e
    BY <1>1, LeastNatural
  <2> QED
    BY <2>1 DEF Min
<1> QED
  BY <1>1, <1>2, <1>3, <1>4, <1>5

\* A length on a page of an admitted size, as a number in the file.
LEMMA NumbersAreShort ==
  ASSUME NEW parts \in 0 .. (MaxDimension * Unit)
  PROVE  NumberSize(parts) \in 0 .. 12
<1>1. MaxDimension \in Nat /\ MaxDimension < 10 ^ 5 /\ Unit \in Nat \ {0}
  BY ExportAssumption, FrameAssumption
<1> DEFINE whole == parts \div Unit
<1>2. whole \in Nat /\ whole <= MaxDimension
  <2>1. MaxDimension * Unit \in Nat /\ parts \in Int /\ parts <= MaxDimension * Unit /\ 0 <= parts
    BY <1>1
  <2>2. 0 \div Unit = 0 /\ (MaxDimension * Unit) \div Unit = MaxDimension
    BY <1>1
  <2>3. 0 \div Unit <= whole /\ whole \in Int
    BY <1>1, <2>1, QuotientsRise
  <2>4. whole <= (MaxDimension * Unit) \div Unit
    BY <1>1, <2>1, QuotientsRise
  <2> HIDE DEF whole
  <2> QED
    BY <1>1, <2>2, <2>3, <2>4
<1> HIDE DEF whole
<1>3. whole < 10 ^ 5 /\ whole < 10 ^ 9
  BY <1>1, <1>2
<1>4. Digits(whole) \in 1 .. 9 /\ Digits(whole) <= 5
  BY <1>2, <1>3, DigitsAreFew
<1>5. ~(parts < 0)
  OBVIOUS
<1>6. NumberSize(parts) = 7 + Digits(whole)
  BY <1>5 DEF NumberSize, whole
<1> QED
  BY <1>4, <1>6

-----------------------------------------------------------------------------
(* A page's content keeps within its estimate *)

\* A coordinate or an extent that a page of an admitted size has.
Extents == 0 .. (MaxDimension * Unit)

\* What an admitted plan says of a frame.
LEMMA AdmittedPage ==
  ASSUME WholeFrame(line), PdfPlan = "admitted"
  PROVE  /\ LayoutIsValid(line.layout)
         /\ Page(1) \in 1 .. (MaxDimension * Unit) /\ Page(2) \in 1 .. (MaxDimension * Unit)
         /\ 0 <= line.plot.x0 /\ line.plot.x0 < line.plot.x1 /\ line.plot.x1 <= line.canvas[1]
         /\ 0 <= line.plot.y0 /\ line.plot.y0 < line.plot.y1 /\ line.plot.y1 <= line.canvas[2]
         /\ line.series # <<>> =>
              Points(line.sheet.style.width) \in 1 .. (MaxDimension * Unit)
         /\ \A p \in AllPoints : OnPage(p)
         /\ ~(OutputEstimate > MaxOutput)
<1>1. /\ "admitted" # "InvalidInput" /\ "admitted" # "CapacityExceeded"
  OBVIOUS
<1>2. /\ LayoutIsValid(line.layout)
      /\ \A k \in {1, 2} : Page(k) \in 1 .. (MaxDimension * Unit)
      /\ Within(Box(line.plot.x0, line.plot.y0, line.plot.x1, line.plot.y1),
                Box(0, 0, line.canvas[1], line.canvas[2]))
      /\ line.series # <<>> => Points(line.sheet.style.width) \in 1 .. (MaxDimension * Unit)
      /\ \A p \in AllPoints : OnPage(p)
      /\ ~(OutputEstimate > MaxOutput)
  BY <1>1, Zenon DEF PdfPlan
<1>3. Within(Box(line.plot.x0, line.plot.y0, line.plot.x1, line.plot.y1),
             Box(0, 0, line.canvas[1], line.canvas[2])) =>
        /\ 0 <= line.plot.x0 /\ line.plot.x0 < line.plot.x1 /\ line.plot.x1 <= line.canvas[1]
        /\ 0 <= line.plot.y0 /\ line.plot.y0 < line.plot.y1 /\ line.plot.y1 <= line.canvas[2]
  BY DEF WholeFrame, Within, Box
<1> QED
  BY <1>2, <1>3

\* What lies on the canvas has its points on the page.
LEMMA PointsOnPage ==
  ASSUME WholeFrame(line), PdfPlan = "admitted", NEW k \in {1, 2},
         NEW a \in 0 .. (line.canvas[k] * Unit)
  PROVE  /\ Points(a) \in 0 .. Page(k) /\ Points(a) \in Extents
         /\ Page(k) - Points(a) \in 0 .. Page(k) /\ Page(k) - Points(a) \in Extents
<1>1. line.canvas[k] \in Int /\ line.canvas[k] * Unit \in Int
  BY FrameAssumption DEF WholeFrame
<1>2. /\ Points(0) \in Int /\ Points(a) \in Int /\ Points(0) <= Points(a) /\ Points(0) = 0
  BY PointsRise
<1> DEFINE top == line.canvas[k] * Unit
<1>3. Points(top) \in Int /\ Points(a) <= Points(top)
  <2>1. top \in Int /\ a \in Int /\ a <= top
    BY <1>1
  <2> HIDE DEF top
  <2> QED
    BY <2>1, PointsRise
<1>4. Points(top) = Page(k)
  BY DEF Page
<1>5. Page(k) \in 1 .. (MaxDimension * Unit)
  BY AdmittedPage
<1>6. MaxDimension * Unit \in Int
  BY ExportAssumption, FrameAssumption
<1> HIDE DEF top
<1> QED
  BY <1>2, <1>3, <1>4, <1>5, <1>6 DEF Extents

\* The plot rectangle lies on the page.
LEMMA PlotOnPage ==
  ASSUME WholeFrame(line), PdfPlan = "admitted"
  PROVE  /\ PdfPlot.left \in Extents /\ PdfPlot.right \in Extents
         /\ PdfPlot.top \in Extents /\ PdfPlot.bottom \in Extents
         /\ PdfPlot.right - PdfPlot.left \in Extents
         /\ PdfPlot.bottom - PdfPlot.top \in Extents
<1> DEFINE x0 == line.plot.x0 * Unit
           y0 == line.plot.y0 * Unit
           x1 == line.plot.x1 * Unit
           y1 == line.plot.y1 * Unit
           width == line.canvas[1] * Unit
           height == line.canvas[2] * Unit
<1>1. /\ {line.canvas[1], line.canvas[2], line.plot.x0, line.plot.y0, line.plot.x1, line.plot.y1}
           \subseteq Int
      /\ Unit \in Nat
  BY FrameAssumption DEF WholeFrame
<1>2. /\ 0 <= x0 /\ x0 <= x1 /\ x1 <= width /\ 0 <= y0 /\ y0 <= y1 /\ y1 <= height
      /\ {x0, x1, y0, y1, width, height} \subseteq Int
  <2>1. /\ 0 <= line.plot.x0 /\ line.plot.x0 <= line.plot.x1 /\ line.plot.x1 <= line.canvas[1]
        /\ 0 <= line.plot.y0 /\ line.plot.y0 <= line.plot.y1 /\ line.plot.y1 <= line.canvas[2]
    BY <1>1, AdmittedPage
  <2>2. 0 * Unit = 0
    BY <1>1
  <2>3. /\ 0 * Unit <= x0 /\ x0 <= x1 /\ x1 <= width /\ x0 \in Int /\ x1 \in Int /\ width \in Int
    BY <1>1, <2>1, ProductsRise
  <2>4. /\ 0 * Unit <= y0 /\ y0 <= y1 /\ y1 <= height /\ y0 \in Int /\ y1 \in Int /\ height \in Int
    BY <1>1, <2>1, ProductsRise
  <2> HIDE DEF x0, x1, y0, y1, width, height
  <2> QED
    BY <2>2, <2>3, <2>4
<1>3. PdfPlot = [left |-> Points(x0), top |-> Page(2) - Points(y1),
                 right |-> Points(x1), bottom |-> Page(2) - Points(y0)]
  BY DEF PdfPlot, Box
<1>4. /\ x0 \in 0 .. width /\ x1 \in 0 .. width
      /\ y0 \in 0 .. height /\ y1 \in 0 .. height
  <2> HIDE DEF x0, x1, y0, y1, width, height
  <2> QED
    BY <1>2
<1>5. Points(x0) \in Extents /\ Points(x1) \in Extents
  BY <1>4, PointsOnPage
<1>6. Page(2) - Points(y0) \in Extents /\ Page(2) - Points(y1) \in Extents
  BY <1>4, PointsOnPage
<1>7. Points(x0) <= Points(x1) /\ Points(y0) <= Points(y1)
  <2> HIDE DEF x0, x1, y0, y1, width, height
  <2> QED
    BY <1>2, PointsRise
<1>8. Points(y0) \in Int /\ Points(y1) \in Int /\ Page(2) \in Int
  <2>1. Points(y0) \in Int /\ Points(y1) \in Int
    <3> HIDE DEF x0, x1, y0, y1, width, height
    <3> QED
      BY <1>2, PointsRise
  <2> QED
    BY <2>1, AdmittedPage
<1>9. MaxDimension * Unit \in Int
  BY ExportAssumption, FrameAssumption
<1> HIDE DEF x0, x1, y0, y1, width, height
<1>10. Points(x1) - Points(x0) \in Extents
  BY <1>5, <1>7, <1>9 DEF Extents
<1>11. (Page(2) - Points(y0)) - (Page(2) - Points(y1)) \in Extents
  BY <1>6, <1>7, <1>8, <1>9 DEF Extents
<1> QED
  BY <1>3, <1>5, <1>6, <1>10, <1>11

\* A sequence of operators none of which is longer than 64 bytes.
Brief(o) == Size(o) \in 0 .. 64
Fits(ops, n) == IsSequence(ops) /\ Len(ops) <= n /\ \A o \in ToSet(ops) : Brief(o)

\* Up to three short operators in a row.
LEMMA FewOpsFit ==
  ASSUME NEW a, NEW b, NEW c, Brief(a), Brief(b), Brief(c)
  PROVE  Fits(<<>>, 0) /\ Fits(<<a>>, 1) /\ Fits(<<a, b>>, 2) /\ Fits(<<a, b, c>>, 3)
<1>1. /\ <<>> \in Seq({}) /\ <<a>> \in Seq({a, b, c}) /\ <<a, b>> \in Seq({a, b, c})
      /\ <<a, b, c>> \in Seq({a, b, c})
  OBVIOUS
<1>2. IsSequence(<<>>) /\ IsSequence(<<a>>) /\ IsSequence(<<a, b>>) /\ IsSequence(<<a, b, c>>)
  BY <1>1, SeqIsSequence
<1>3. /\ ToSet(<<>>) = {} /\ ToSet(<<a>>) \subseteq {a, b, c} /\ ToSet(<<a, b>>) \subseteq {a, b, c}
      /\ ToSet(<<a, b, c>>) \subseteq {a, b, c}
  BY <1>1 DEF ToSet
<1>4. Len(<<>>) = 0 /\ Len(<<a>>) = 1 /\ Len(<<a, b>>) = 2 /\ Len(<<a, b, c>>) = 3
  OBVIOUS
<1> QED
  BY <1>2, <1>3, <1>4 DEF Fits

\* The length of two sequences in a row.
LEMMA ConcatLength ==
  ASSUME NEW s, NEW t, IsSequence(s), IsSequence(t)
  PROVE  Len(s \o t) = Len(s) + Len(t) /\ Len(s) \in Nat /\ Len(t) \in Nat
<1> DEFINE A == ToSet(s) \cup ToSet(t)
<1>1. s \in Seq(A) /\ t \in Seq(A)
  BY SequenceDomain DEF IsSequence
<1> HIDE DEF A
<1> QED
  BY <1>1

\* Two parts in a row are as many operators as both.
LEMMA ConcatFits ==
  ASSUME NEW s, NEW t, NEW m \in Int, NEW n \in Int, Fits(s, m), Fits(t, n)
  PROVE  Fits(s \o t, m + n)
<1>1. IsSequence(s \o t) /\ ToSet(s \o t) = ToSet(s) \cup ToSet(t)
  BY ConcatIsSequence DEF Fits
<1>2. Len(s \o t) = Len(s) + Len(t) /\ Len(s) \in Nat /\ Len(t) \in Nat
  BY ConcatLength DEF Fits
<1>3. Len(s \o t) <= m + n
  BY <1>2 DEF Fits
<1> QED
  BY <1>1, <1>3 DEF Fits

\* A part fits where there is more room.
LEMMA WiderFits ==
  ASSUME NEW s, NEW m \in Int, NEW n \in Int, m <= n, Fits(s, m)
  PROVE  Fits(s, n)
<1>1. Len(s) \in Nat
  BY SequenceDomain DEF Fits
<1> QED
  BY <1>1 DEF Fits

\* Parts in a row fit when each fits between two of the marks w.
LEMMA FlattenFits ==
  ASSUME NEW seqs, IsSequence(seqs),
         NEW w, \A i \in 0 .. Len(seqs) : w[i] \in Int, 0 <= w[0],
         \A i \in 1 .. Len(seqs) : Fits(seqs[i], w[i] - w[i - 1])
  PROVE  Fits(FlattenSeq(seqs), w[Len(seqs)])
<1> DEFINE a == [i \in DOMAIN seqs |-> Len(seqs[i])]
           n == Len(seqs)
<1>1. n \in Nat /\ DOMAIN seqs = 1 .. n
  BY SequenceDomain
<1>2. \A i \in DOMAIN seqs : IsSequence(seqs[i]) /\ Len(seqs[i]) \in Nat
  BY <1>1, SequenceDomain DEF Fits
<1>3. /\ IsSequence(FlattenSeq(seqs))
      /\ ToSet(FlattenSeq(seqs)) = UNION {ToSet(seqs[i]) : i \in DOMAIN seqs}
      /\ Len(FlattenSeq(seqs)) = Total(a)
  BY <1>2, FlattenIsSequence, FlattenLength
<1>4. Len(a) = n
  <2>1. a = [i \in 1 .. n |-> a[i]]
    BY <1>1
  <2> HIDE DEF a
  <2> QED
    BY <1>1, <2>1, ListIsSequence
<1>5. \A i \in 1 .. n : a[i] \in Int /\ a[i] <= w[i] - w[i - 1]
  BY <1>1, <1>2 DEF Fits
<1> HIDE DEF a
<1>6. Total(a) <= w[n]
  BY <1>1, <1>4, <1>5, TotalBelow
<1>7. \A o \in ToSet(FlattenSeq(seqs)) : Brief(o)
  BY <1>1, <1>3 DEF Fits
<1> QED
  BY <1>3, <1>6, <1>7 DEF Fits

\* Operators that fit are so many times 64 bytes at most.
LEMMA SizeOfFitting ==
  ASSUME NEW ops, NEW n \in Int, Fits(ops, n)
  PROVE  SizeOf(ops) \in Nat /\ SizeOf(ops) <= 64 * n
<1> DEFINE a == [i \in DOMAIN ops |-> Size(ops[i])]
<1>1. Len(ops) \in Nat /\ DOMAIN ops = 1 .. Len(ops) /\ Len(ops) <= n
  BY SequenceDomain DEF Fits
<1>2. Len(a) = Len(ops)
  <2>1. a = [i \in 1 .. Len(ops) |-> a[i]]
    BY <1>1
  <2> HIDE DEF a
  <2> QED
    BY <1>1, <2>1, ListIsSequence
<1>3. ASSUME NEW i \in 1 .. Len(ops) PROVE a[i] \in Nat /\ a[i] <= 64
  <2>1. ops[i] \in ToSet(ops)
    BY SequenceDomain DEF Fits
  <2>2. Size(ops[i]) \in 0 .. 64
    BY <2>1 DEF Fits, Brief
  <2>3. a[i] = Size(ops[i])
    BY <1>1
  <2>4. \A v \in 0 .. 64 : v \in Nat /\ v <= 64
    OBVIOUS
  <2> HIDE DEF a
  <2> QED
    BY <2>2, <2>3, <2>4, Zenon
<1>4. SizeOf(ops) = Total(a)
  BY DEF SizeOf
<1> HIDE DEF a
<1>5. Total(a) \in Nat
  BY <1>1, <1>2, <1>3, SumsAreNatural
<1>6. Total(a) <= 64 * Len(a)
  <2> DEFINE b == 64
  <2>1. \A i \in 1 .. Len(a) : a[i] \in Int /\ a[i] <= b
    BY <1>2, <1>3
  <2>2. Len(a) \in Nat /\ b \in Nat
    BY <1>1, <1>2
  <2> HIDE DEF b
  <2>3. Total(a) <= b * Len(a)
    BY <2>1, <2>2, TotalBelowProduct
  <2> QED
    BY <2>3 DEF b
<1> QED
  BY <1>1, <1>2, <1>4, <1>5, <1>6

\* Every operator of a page with an admitted plan is short.
LEMMA PensAreBrief ==
  /\ Brief(Save) /\ Brief(Restore) /\ Brief(StrokePath)
  /\ \A ink : Brief(FillInk(ink)) /\ Brief(StrokeInk(ink))
  /\ \A name : Brief(UseState(name))
<1>1. Size(Save) = 2 /\ Size(Restore) = 2 /\ Size(StrokePath) = 2
  BY DEF Size, Save, Restore, StrokePath
<1>2. \A ink : Size(FillInk(ink)) = 30 /\ Size(StrokeInk(ink)) = 30
  BY DEF Size, FillInk, StrokeInk
<1>3. \A name : Size(UseState(name)) \in {9, 7}
  BY DEF Size, UseState
<1> QED
  BY <1>1, <1>2, <1>3 DEF Brief

\* So is a line width on an admitted page.
LEMMA WidthsAreBrief ==
  ASSUME NEW parts \in Extents
  PROVE  Brief(LineWidth(parts))
<1>1. NumberSize(parts) \in 0 .. 12
  BY NumbersAreShort DEF Extents
<1>2. Size(LineWidth(parts)) = NumberSize(parts) + 15
  BY DEF Size, LineWidth
<1> QED
  BY <1>1, <1>2 DEF Brief

\* So is a point on it.
LEMMA PlacesAreBrief ==
  ASSUME NEW p, p.x \in Extents, p.y \in Extents, NEW op \in {"m", "l"}
  PROVE  Brief([op |-> op, at |-> p])
<1>1. NumberSize(p.x) \in 0 .. 12 /\ NumberSize(p.y) \in 0 .. 12
  BY NumbersAreShort DEF Extents
<1>2. Size([op |-> op, at |-> p]) = NumberSize(p.x) + NumberSize(p.y) + 4
  BY DEF Size
<1> QED
  BY <1>1, <1>2 DEF Brief

\* So is a rectangle on it.
LEMMA BoxesAreBrief ==
  ASSUME NEW box, box.left \in Extents, box.top \in Extents,
         box.right - box.left \in Extents, box.bottom - box.top \in Extents,
         NEW op \in {"W", "f"}
  PROVE  Brief(Rectangle(op, box))
<1> DEFINE width == box.right - box.left
           height == box.bottom - box.top
           o == Rectangle(op, box)
<1>1. /\ NumberSize(box.left) \in 0 .. 12 /\ NumberSize(box.top) \in 0 .. 12
      /\ NumberSize(width) \in 0 .. 12 /\ NumberSize(height) \in 0 .. 12
  BY NumbersAreShort DEF Extents
<1>2. o.op = op /\ o.x = box.left /\ o.y = box.top /\ o.width = width /\ o.height = height
  BY DEF Rectangle
<1> HIDE DEF o, width, height
<1>3. Size(o) = NumberSize(box.left) + NumberSize(box.top) + NumberSize(width) + NumberSize(height)
                  + 3 + (IF op = "W" THEN 8 ELSE 6)
  BY <1>2 DEF Size
<1>4. Size(o) \in 0 .. 64
  BY <1>1, <1>3
<1> QED
  BY <1>4 DEF Brief, o

\* A path of points on the page is as many operators and one.
LEMMA TraceFits ==
  ASSUME NEW path, IsSequence(path),
         \A k \in DOMAIN path : path[k].x \in Extents /\ path[k].y \in Extents
  PROVE  Fits(Trace(path), Len(path) + 1)
<1> DEFINE Step1(k) == [op |-> IF k = 1 THEN "m" ELSE "l", at |-> path[k]]
           steps == [k \in DOMAIN path |-> Step1(k)]
<1>1. Len(path) \in Nat /\ DOMAIN path = 1 .. Len(path)
  BY SequenceDomain
<1>2. IsSequence(steps) /\ Len(steps) = Len(path)
  <2>1. steps = [k \in 1 .. Len(path) |-> steps[k]]
    BY <1>1
  <2> HIDE DEF steps
  <2> QED
    BY <1>1, <2>1, ListIsSequence
<1>3. \A k \in DOMAIN path : Brief(Step1(k))
  BY PlacesAreBrief
<1>4. \A o \in ToSet(steps) : Brief(o)
  BY <1>3 DEF ToSet
<1>5. Fits(steps, Len(path))
  BY <1>1, <1>2, <1>4 DEF Fits
<1>6. Fits(<<StrokePath>>, 1)
  BY PensAreBrief, FewOpsFit
<1>7. Trace(path) = steps \o <<StrokePath>>
  BY DEF Trace
<1> HIDE DEF steps
<1> QED
  BY <1>1, <1>5, <1>6, <1>7, ConcatFits

\* The background, the clip and its end are eight operators.
LEMMA BackgroundFits ==
  ASSUME WholeFrame(line), PdfPlan = "admitted"
  PROVE  Fits(BackgroundOps, 5) /\ Fits(OpenPlot, 2) /\ Fits(<<Restore>>, 1)
<1> DEFINE page == [op |-> "page", width |-> Page(1), height |-> Page(2)]
           fill == FillInk(line.sheet.background)
<1>1. Brief(page)
  <2>1. Page(1) \in Extents /\ Page(2) \in Extents
    BY AdmittedPage DEF Extents
  <2>2. NumberSize(Page(1)) \in 0 .. 12 /\ NumberSize(Page(2)) \in 0 .. 12
    BY <2>1, NumbersAreShort DEF Extents
  <2>3. Size(page) = 4 + NumberSize(Page(1)) + NumberSize(Page(2)) + 1 + 6
    BY DEF Size
  <2> HIDE DEF page
  <2> QED
    BY <2>2, <2>3 DEF Brief
<1>2. Brief(Save) /\ Brief(UseState("BG")) /\ Brief(fill) /\ Brief(Restore)
  BY PensAreBrief
<1>3. Brief(Rectangle("W", PdfPlot))
  BY PlotOnPage, BoxesAreBrief
<1> HIDE DEF page, fill
<1>4. Fits(<<Save, UseState("BG"), fill>>, 3) /\ Fits(<<page, Restore>>, 2)
  BY <1>1, <1>2, FewOpsFit
<1>5. BackgroundOps = <<Save, UseState("BG"), fill>> \o <<page, Restore>>
  BY DEF BackgroundOps, page, fill
<1>6. Fits(BackgroundOps, 3 + 2)
  BY <1>4, <1>5, ConcatFits
<1>7. Fits(OpenPlot, 2)
  BY <1>2, <1>3, FewOpsFit DEF OpenPlot
<1>8. Fits(<<Restore>>, 1)
  BY <1>2, FewOpsFit
<1> QED
  BY <1>6, <1>7, <1>8

\* At most three operators for each tick.
LEMMA GridFits ==
  ASSUME WholeFrame(line), PdfPlan = "admitted"
  PROVE  Fits(GridOps, 3 + 3 * (Len(line.xTicks) + Len(line.yTicks)))
<1> DEFINE box == PdfPlot
           Upright(v) ==
             IF Points(v) \in box.left .. box.right
             THEN Trace(<<[x |-> Points(v), y |-> box.top], [x |-> Points(v), y |-> box.bottom]>>)
             ELSE <<>>
           Level(v) ==
             IF Page(2) - Points(v) \in box.top .. box.bottom
             THEN Trace(<<[x |-> box.left, y |-> Page(2) - Points(v)],
                          [x |-> box.right, y |-> Page(2) - Points(v)]>>)
             ELSE <<>>
           uprights == [i \in DOMAIN line.xTicks |-> Upright(line.xTicks[i])]
           levels == [i \in DOMAIN line.yTicks |-> Level(line.yTicks[i])]
           lines == FlattenSeq(uprights) \o FlattenSeq(levels)
           pen == <<UseState("GRID"), StrokeInk(GridInk), LineWidth(Unit \div 2)>>
           m == Len(line.xTicks)
           n == Len(line.yTicks)
<1>1. /\ box.left \in Extents /\ box.right \in Extents
      /\ box.top \in Extents /\ box.bottom \in Extents
  BY PlotOnPage
<1>2. ASSUME NEW a, NEW b, a.x \in Extents, a.y \in Extents, b.x \in Extents, b.y \in Extents
      PROVE  Fits(Trace(<<a, b>>), 3)
  <2> DEFINE path == <<a, b>>
  <2>1. Len(path) = 2 /\ DOMAIN path = 1 .. 2 /\ path[1] = a /\ path[2] = b
    OBVIOUS
  <2>2. IsSequence(path)
    BY PairIsSequence, Zenon
  <2> HIDE DEF path
  <2>3. \A k \in DOMAIN path : path[k].x \in Extents /\ path[k].y \in Extents
    <3>1. \A k \in 1 .. 2 : k = 1 \/ k = 2
      OBVIOUS
    <3> QED
      BY <1>2, <2>1, <3>1
  <2>4. Fits(Trace(path), Len(path) + 1)
    BY <2>2, <2>3, TraceFits
  <2>5. Len(path) + 1 = 3
    BY <2>1
  <2> QED
    BY <2>4, <2>5 DEF path
<1>3. Fits(<<>>, 3)
  <2>1. Fits(<<>>, 0)
    BY FewOpsFit, PensAreBrief, Zenon
  <2> QED
    BY <2>1, WiderFits
<1>4. \A v \in box.left .. box.right : v \in Extents
  BY <1>1, ExportAssumption, FrameAssumption DEF Extents
<1>5. \A v \in box.top .. box.bottom : v \in Extents
  BY <1>1, ExportAssumption, FrameAssumption DEF Extents
<1>6. \A v : Fits(Upright(v), 3)
  <2> SUFFICES ASSUME NEW v, Points(v) \in box.left .. box.right
               PROVE  Fits(Trace(<<[x |-> Points(v), y |-> box.top],
                                   [x |-> Points(v), y |-> box.bottom]>>), 3)
    BY <1>3
  <2> QED
    BY <1>1, <1>2, <1>4
<1>7. \A v : Fits(Level(v), 3)
  <2> SUFFICES ASSUME NEW v, Page(2) - Points(v) \in box.top .. box.bottom
               PROVE  Fits(Trace(<<[x |-> box.left, y |-> Page(2) - Points(v)],
                                   [x |-> box.right, y |-> Page(2) - Points(v)]>>), 3)
    BY <1>3
  <2> QED
    BY <1>1, <1>2, <1>5
<1>8. m \in Nat /\ n \in Nat /\ DOMAIN line.xTicks = 1 .. m /\ DOMAIN line.yTicks = 1 .. n
  BY SequenceDomain DEF WholeFrame
<1> DEFINE wx == [i \in 0 .. m |-> 3 * i]
           wy == [i \in 0 .. n |-> 3 * i]
<1>9. Fits(FlattenSeq(uprights), 3 * m)
  <2>1. IsSequence(uprights) /\ Len(uprights) = m
    <3>1. uprights = [i \in 1 .. m |-> uprights[i]]
      BY <1>8
    <3> HIDE DEF uprights
    <3> QED
      BY <1>8, <3>1, ListIsSequence
  <2>2. \A i \in 1 .. m : Fits(uprights[i], 3)
    BY <1>6, <1>8
  <2>3. \A i \in 1 .. m : wx[i] - wx[i - 1] = 3
    BY <1>8
  <2>4. \A i \in 0 .. m : wx[i] \in Int
    BY <1>8
  <2>5. wx[0] = 0 /\ wx[m] = 3 * m
    BY <1>8
  <2> HIDE DEF uprights, wx
  <2>6. Fits(FlattenSeq(uprights), wx[m])
    BY <2>1, <2>2, <2>3, <2>4, <2>5, FlattenFits
  <2> QED
    BY <2>5, <2>6
<1>10. Fits(FlattenSeq(levels), 3 * n)
  <2>1. IsSequence(levels) /\ Len(levels) = n
    <3>1. levels = [i \in 1 .. n |-> levels[i]]
      BY <1>8
    <3> HIDE DEF levels
    <3> QED
      BY <1>8, <3>1, ListIsSequence
  <2>2. \A i \in 1 .. n : Fits(levels[i], 3)
    BY <1>7, <1>8
  <2>3. \A i \in 1 .. n : wy[i] - wy[i - 1] = 3
    BY <1>8
  <2>4. \A i \in 0 .. n : wy[i] \in Int
    BY <1>8
  <2>5. wy[0] = 0 /\ wy[n] = 3 * n
    BY <1>8
  <2> HIDE DEF levels, wy
  <2>6. Fits(FlattenSeq(levels), wy[n])
    BY <2>1, <2>2, <2>3, <2>4, <2>5, FlattenFits
  <2> QED
    BY <2>5, <2>6
<1>11. Fits(lines, 3 * m + 3 * n)
  <2> DEFINE s == FlattenSeq(uprights)
             t == FlattenSeq(levels)
             p == 3 * m
             q == 3 * n
  <2>1. p \in Int /\ q \in Int
    BY <1>8
  <2> HIDE DEF s, t, p, q
  <2>2. Fits(s \o t, p + q)
    BY <1>9, <1>10, <2>1, ConcatFits DEF s, t, p, q
  <2> QED
    BY <2>2 DEF s, t, p, q
<1>12. Fits(pen, 3)
  <2>1. Unit \div 2 \in Extents
    <3>1. Unit \in Nat \ {0} /\ MaxDimension \in Nat
      BY ExportAssumption, FrameAssumption
    <3>2. 1 \in 1 .. (MaxDimension * Unit) \/ MaxDimension * Unit \in Nat \ {0}
      BY <3>1, AdmittedPage
    <3>3. MaxDimension # 0
      <4>1. Page(1) \in 1 .. (MaxDimension * Unit)
        BY AdmittedPage
      <4>2. MaxDimension = 0 => MaxDimension * Unit = 0
        BY <3>1
      <4> QED
        BY <4>1, <4>2
    <3>4. 1 * Unit <= MaxDimension * Unit /\ 1 * Unit = Unit /\ MaxDimension * Unit \in Int
      BY <3>1, <3>3, ProductsRise
    <3>5. Unit \div 2 \in Nat /\ Unit \div 2 <= Unit
      BY <3>1
    <3> QED
      BY <3>1, <3>4, <3>5 DEF Extents
  <2>2. Brief(UseState("GRID")) /\ Brief(StrokeInk(GridInk)) /\ Brief(LineWidth(Unit \div 2))
    BY <2>1, PensAreBrief, WidthsAreBrief
  <2> QED
    BY <2>2, FewOpsFit, Zenon
<1>13. GridOps = IF ~line.sheet.grid \/ lines = <<>> THEN <<>> ELSE pen \o lines
  BY DEF GridOps
<1> HIDE DEF lines, pen, m, n
<1>14. Fits(pen \o lines, 3 + (3 * m + 3 * n))
  BY <1>8, <1>11, <1>12, ConcatFits
<1>15. Fits(<<>>, 3 + (3 * m + 3 * n))
  BY <1>3, <1>8, WiderFits
<1>16. 3 + (3 * m + 3 * n) = 3 + 3 * (m + n)
  BY <1>8
<1> QED
  BY <1>13, <1>14, <1>15, <1>16 DEF m, n

\* The counts a plan estimates from.
CurveSums == Sums([s \in DOMAIN line.series |-> PointCount(line.series[s])])
SegmentSums == Sums([s \in DOMAIN line.series |-> Len(line.series[s])])

\* The points of some paths, counted path by path.
LEMMA PathsAreCounted ==
  ASSUME NEW paths, IsNested(paths)
  PROVE  LET lens == [i \in DOMAIN paths |-> Len(paths[i])] IN
         /\ Len(paths) \in Nat /\ Len(lens) = Len(paths)
         /\ \A i \in 1 .. Len(paths) : lens[i] = Len(paths[i]) /\ lens[i] \in Nat
         /\ \A i \in 0 .. Len(paths) : Sums(lens)[i] \in Nat
         /\ \A i \in 1 .. Len(paths) : Sums(lens)[i] - Sums(lens)[i - 1] = Len(paths[i])
         /\ Sums(lens)[0] = 0
         /\ PointCount(paths) = Sums(lens)[Len(paths)] /\ PointCount(paths) \in Nat
<1> DEFINE lens == [i \in DOMAIN paths |-> Len(paths[i])]
           n == Len(paths)
<1>1. n \in Nat /\ DOMAIN paths = 1 .. n
  BY SequenceDomain DEF IsNested
<1>2. Len(lens) = n
  <2>1. lens = [i \in 1 .. n |-> lens[i]]
    BY <1>1
  <2> HIDE DEF lens
  <2> QED
    BY <1>1, <2>1, ListIsSequence
<1>3. \A i \in 1 .. n : lens[i] = Len(paths[i]) /\ lens[i] \in Nat
  BY <1>1, SequenceDomain DEF IsNested
<1>4. PointCount(paths) = Total(lens)
  BY DEF PointCount
<1> HIDE DEF lens, n
<1>5. \A i \in 0 .. n : Sums(lens)[i] \in Nat
  BY <1>1, <1>2, <1>3, SumsAreNatural
<1>6. Total(lens) = Sums(lens)[n] /\ Sums(lens)[0] = 0 /\ n \in 0 .. n
  BY <1>1, <1>2, SumsAdd
<1>7. ASSUME NEW i \in 1 .. n PROVE Sums(lens)[i] - Sums(lens)[i - 1] = Len(paths[i])
  <2>1. Sums(lens)[i] = Sums(lens)[i - 1] + lens[i]
    BY <1>1, <1>2, SumsAdd
  <2>2. i - 1 \in 0 .. n
    BY <1>1
  <2>3. Sums(lens)[i - 1] \in Nat /\ lens[i] \in Nat /\ lens[i] = Len(paths[i])
    BY <1>3, <1>5, <2>2
  <2> QED
    BY <2>1, <2>3
<1> QED
  BY <1>1, <1>2, <1>3, <1>4, <1>5, <1>6, <1>7 DEF lens, n

\* The points and segments of a held frame, counted series by series.
LEMMA FrameIsCounted ==
  ASSUME WholeFrame(line)
  PROVE  LET n == Len(line.series) IN
         /\ n \in Nat /\ DOMAIN line.series = 1 .. n
         /\ \A s \in 1 .. n : /\ IsNested(line.series[s])
                              /\ Len(line.series[s]) \in Nat /\ PointCount(line.series[s]) \in Nat
         /\ \A s \in 0 .. n : CurveSums[s] \in Nat /\ SegmentSums[s] \in Nat
         /\ CurveSums[0] = 0 /\ SegmentSums[0] = 0
         /\ \A s \in 1 .. n :
              /\ CurveSums[s] = CurveSums[s - 1] + PointCount(line.series[s])
              /\ SegmentSums[s] = SegmentSums[s - 1] + Len(line.series[s])
         /\ CurvePoints = CurveSums[n] /\ CurvePoints \in Nat
         /\ Len(line.xTicks) \in Nat /\ Len(line.yTicks) \in Nat /\ Len(Glyphs) \in Nat
         /\ PdfSegments = SegmentSums[n] + Len(line.xTicks) + Len(line.yTicks)
<1> DEFINE n == Len(line.series)
           points == [s \in DOMAIN line.series |-> PointCount(line.series[s])]
           segments == [s \in DOMAIN line.series |-> Len(line.series[s])]
<1>1. n \in Nat /\ DOMAIN line.series = 1 .. n
  BY SequenceDomain DEF WholeFrame
<1>2. \A s \in 1 .. n : IsNested(line.series[s])
  BY <1>1 DEF WholeFrame, IsNested
<1>3. \A s \in 1 .. n : Len(line.series[s]) \in Nat /\ PointCount(line.series[s]) \in Nat
  BY <1>2, PathsAreCounted
<1>4. Len(points) = n /\ Len(segments) = n
  <2>1. points = [s \in 1 .. n |-> points[s]] /\ segments = [s \in 1 .. n |-> segments[s]]
    BY <1>1
  <2> HIDE DEF points, segments
  <2> QED
    BY <1>1, <2>1, ListIsSequence
<1>5. \A s \in 1 .. n : /\ points[s] = PointCount(line.series[s]) /\ points[s] \in Nat
                        /\ segments[s] = Len(line.series[s]) /\ segments[s] \in Nat
  BY <1>1, <1>3
<1>6. CurveSums = Sums(points) /\ SegmentSums = Sums(segments)
  BY DEF CurveSums, SegmentSums
<1>7. CurvePoints = Total(points)
  BY DEF CurvePoints
<1>8. Total(segments) = Total([s \in DOMAIN line.series |-> Len(line.series[s])])
  OBVIOUS
<1> HIDE DEF n, points, segments
<1>9. \A s \in 0 .. n : Sums(points)[s] \in Nat /\ Sums(segments)[s] \in Nat
  BY <1>1, <1>4, <1>5, SumsAreNatural
<1>10. /\ Sums(points)[0] = 0 /\ Sums(segments)[0] = 0
       /\ \A s \in 1 .. n : /\ Sums(points)[s] = Sums(points)[s - 1] + points[s]
                            /\ Sums(segments)[s] = Sums(segments)[s - 1] + segments[s]
       /\ Total(points) = Sums(points)[n] /\ Total(segments) = Sums(segments)[n]
  BY <1>1, <1>4, SumsAdd
<1>11. n \in 0 .. n
  BY <1>1
<1>12. Len(line.xTicks) \in Nat /\ Len(line.yTicks) \in Nat /\ Len(Glyphs) \in Nat
  BY SequenceDomain, GlyphsAreSequence DEF WholeFrame
<1>13. GridPoints \div 2 = Len(line.xTicks) + Len(line.yTicks)
  <2> DEFINE k == Len(line.xTicks) + Len(line.yTicks)
  <2>1. k \in Nat /\ GridPoints = 2 * k
    <3> DEFINE a == Len(line.xTicks)
               b == Len(line.yTicks)
    <3>1. a \in Nat /\ b \in Nat /\ k = a + b /\ GridPoints = 2 * k
      BY <1>12, Zenon DEF GridPoints
    <3> HIDE DEF a, b, k
    <3> QED
      BY <3>1
  <2> HIDE DEF k
  <2>2. (2 * k) \div 2 = k
    BY <2>1
  <2> QED
    BY <2>1, <2>2 DEF k
<1>14. PdfSegments = Total(segments) + GridPoints \div 2
  BY <1>8 DEF PdfSegments
<1>15. Sums(segments)[n] \in Nat
  BY <1>9, <1>11
<1>16. PdfSegments = Sums(segments)[n] + Len(line.xTicks) + Len(line.yTicks)
  <2> DEFINE a == Len(line.xTicks)
             b == Len(line.yTicks)
             c == Sums(segments)[n]
  <2>1. PdfSegments = c + (a + b)
    BY <1>10, <1>13, <1>14
  <2>2. a \in Nat /\ b \in Nat /\ c \in Nat
    BY <1>12, <1>15
  <2> HIDE DEF a, b, c
  <2>3. PdfSegments = c + a + b
    BY <2>1, <2>2
  <2> QED
    BY <2>3 DEF a, b, c
<1> QED
  BY <1>1, <1>2, <1>3, <1>5, <1>6, <1>7, <1>9, <1>10, <1>11, <1>12, <1>16 DEF n

\* As many operators as a page's content has at most.
OperatorCount ==
  14 + 3 * Len(line.series) + PdfPathPoints + PdfSegments + Len(Glyphs)

\* What is counted of a frame is a natural number.
LEMMA CountsAreNumbers ==
  ASSUME WholeFrame(line)
  PROVE  PdfPathPoints \in Nat /\ PdfSegments \in Nat /\ OperatorCount \in Nat
<1> DEFINE n == Len(line.series)
           segments == SegmentSums[n]
           a == Len(line.xTicks)
           b == Len(line.yTicks)
           g == Len(Glyphs)
<1>1. /\ n \in Nat /\ n \in 0 .. n
      /\ CurvePoints \in Nat /\ segments \in Nat
      /\ a \in Nat /\ b \in Nat /\ g \in Nat
      /\ PdfSegments = segments + a + b
  BY FrameIsCounted
<1>2. PdfPathPoints = CurvePoints + 2 * (a + b)
  BY DEF PdfPathPoints, GridPoints
<1>3. OperatorCount = 14 + 3 * n + PdfPathPoints + PdfSegments + g
  BY DEF OperatorCount
<1> HIDE DEF n, segments, a, b, g
<1> QED
  BY <1>1, <1>2, <1>3

\* So many operators of 64 bytes keep within the content's estimate.
LEMMA OperatorsAreEstimated ==
  ASSUME WholeFrame(line)
  PROVE  ContentEstimate \in Nat /\ 64 * OperatorCount <= ContentEstimate
<1> DEFINE n == Len(line.series)
           g == Len(Glyphs)
           open == IF Glyphs = <<>> THEN 0 ELSE 64
<1>1. n \in Nat /\ g \in Nat
  BY FrameIsCounted
<1>2. PdfPathPoints \in Nat /\ PdfSegments \in Nat
  BY CountsAreNumbers
<1>3. ContentEstimate = 2048 + 64 * PdfPathPoints + 64 * PdfSegments + 256 * n + 64 * g + open
  BY DEF ContentEstimate
<1>4. OperatorCount = 14 + 3 * n + PdfPathPoints + PdfSegments + g
  BY DEF OperatorCount
<1>5. open \in Nat
  OBVIOUS
<1> HIDE DEF n, g, open
<1> QED
  BY <1>1, <1>2, <1>3, <1>4, <1>5

\* The estimate of a file is that of its content and a part for each object.
LEMMA ObjectsAreEstimated ==
  ASSUME WholeFrame(line)
  PROVE  /\ OutputEstimate \in Nat
         /\ OutputEstimate = ContentEstimate + 288 * (Len(line.series) + 7) + 4096
<1> DEFINE n == Len(line.series)
<1>1. n \in Nat /\ ContentEstimate \in Nat
  BY FrameIsCounted, OperatorsAreEstimated
<1>2. OutputEstimate = ContentEstimate + (n + 7) * (256 + 32) + 4096
  BY DEF OutputEstimate, ObjectCount
<1> HIDE DEF n
<1>3. OutputEstimate \in Nat /\ OutputEstimate = ContentEstimate + 288 * (n + 7) + 4096
  BY <1>1, <1>2
<1> QED
  BY <1>3 DEF n

\* What is planned has nine digits at most, and so have the numbers of its series.
LEMMA PlansAreBounded ==
  ASSUME WholeFrame(line), PdfPlan = "admitted"
  PROVE  OutputEstimate < 10 ^ 9 /\ Len(line.series) + 7 < 10 ^ 9
<1> DEFINE n == Len(line.series)
<1>1. n \in Nat /\ ContentEstimate \in Nat /\ OutputEstimate \in Nat
  BY FrameIsCounted, OperatorsAreEstimated, ObjectsAreEstimated
<1>2. OutputEstimate = ContentEstimate + 288 * (n + 7) + 4096
  BY ObjectsAreEstimated
<1>3. ~(OutputEstimate > MaxOutput)
  BY AdmittedPage
<1>4. MaxOutput \in Nat /\ MaxOutput < 10 ^ 9
  BY ExportAssumption
<1> HIDE DEF n
<1>5. OutputEstimate < 10 ^ 9
  BY <1>1, <1>3, <1>4
<1>6. n + 7 <= OutputEstimate
  BY <1>1, <1>2
<1>7. n + 7 < 10 ^ 9
  BY <1>1, <1>5, <1>6
<1> QED
  BY <1>5, <1>7 DEF n

\* A corner of a series' path is on the page.
LEMMA CornersOnPage ==
  ASSUME WholeFrame(line), PdfPlan = "admitted", NEW s \in DOMAIN line.series,
         NEW i \in DOMAIN line.series[s], NEW k \in DOMAIN line.series[s][i]
  PROVE  /\ PdfPoint(line.series[s][i][k]).x \in Extents
         /\ PdfPoint(line.series[s][i][k]).y \in Extents
<1> DEFINE p == line.series[s][i][k]
<1>1. p \in AllPoints
  BY DEF AllPoints, ToSet
<1>2. p.x \in 0 .. (line.canvas[1] * Unit) /\ p.y \in 0 .. (line.canvas[2] * Unit)
  BY <1>1, AdmittedPage DEF OnPage
<1> HIDE DEF p
<1>3. Points(p.x) \in Extents /\ Page(2) - Points(p.y) \in Extents
  BY <1>2, PointsOnPage
<1> QED
  BY <1>3 DEF PdfPoint, p

\* A series has an operator for each point and segment, and three for its pen.
LEMMA SeriesFits ==
  ASSUME WholeFrame(line), PdfPlan = "admitted", NEW s \in 1 .. Len(line.series)
  PROVE  Fits(SeriesOps(s), 3 + PointCount(line.series[s]) + Len(line.series[s]))
<1> DEFINE paths == line.series[s]
           n == Len(paths)
           lens == [i \in DOMAIN paths |-> Len(paths[i])]
           Turn(i) == [k \in DOMAIN paths[i] |-> PdfPoint(paths[i][k])]
           traces == [i \in DOMAIN paths |-> Trace(Turn(i))]
           pen == <<UseSeries(s), StrokeInk(line.sheet.style.ink),
                    LineWidth(Points(line.sheet.style.width))>>
           w == [i \in 0 .. n |-> Sums(lens)[i] + i]
<1>1. /\ s \in DOMAIN line.series /\ Len(line.series) \in Nat /\ IsNested(paths)
      /\ PointCount(paths) \in Nat /\ n \in Nat
  BY FrameIsCounted
<1>2. DOMAIN paths = 1 .. n
  BY <1>1, SequenceDomain DEF IsNested
<1>3. /\ \A i \in 0 .. n : Sums(lens)[i] \in Nat
      /\ \A i \in 1 .. n : Sums(lens)[i] - Sums(lens)[i - 1] = Len(paths[i])
      /\ Sums(lens)[0] = 0
      /\ PointCount(paths) = Sums(lens)[n]
  BY <1>1, PathsAreCounted
<1>4. IsSequence(traces) /\ Len(traces) = n
  <2>1. traces = [i \in 1 .. n |-> traces[i]]
    BY <1>2
  <2> HIDE DEF traces
  <2> QED
    BY <1>1, <2>1, ListIsSequence
<1>5. ASSUME NEW i \in 1 .. n
      PROVE  Fits(traces[i], Len(paths[i]) + 1)
  <2>1. IsSequence(paths[i])
    BY <1>1, <1>2 DEF IsNested
  <2>2. DOMAIN paths[i] = 1 .. Len(paths[i]) /\ Len(paths[i]) \in Nat
    BY <2>1, SequenceDomain
  <2>3. IsSequence(Turn(i)) /\ Len(Turn(i)) = Len(paths[i])
    <3> DEFINE t == Turn(i)
    <3>1. t = [k \in 1 .. Len(paths[i]) |-> t[k]]
      BY <2>2
    <3> HIDE DEF t
    <3>2. IsSequence(t) /\ Len(t) = Len(paths[i])
      BY <2>2, <3>1, ListIsSequence
    <3> QED
      BY <3>2 DEF t
  <2>4. \A k \in DOMAIN Turn(i) : Turn(i)[k].x \in Extents /\ Turn(i)[k].y \in Extents
    BY <1>1, <1>2, CornersOnPage
  <2>5. traces[i] = Trace(Turn(i))
    BY <1>2
  <2> HIDE DEF Turn, traces
  <2>6. Fits(Trace(Turn(i)), Len(Turn(i)) + 1)
    BY <2>3, <2>4, TraceFits
  <2> QED
    BY <2>3, <2>5, <2>6
<1>6. Fits(FlattenSeq(traces), PointCount(paths) + n)
  <2>1. \A i \in 0 .. n : w[i] = Sums(lens)[i] + i /\ w[i] \in Int
    <3>1. \A i \in 0 .. n : w[i] = Sums(lens)[i] + i
      OBVIOUS
    <3> HIDE DEF lens, w
    <3>2. ASSUME NEW i \in 0 .. n PROVE w[i] \in Int
      <4> DEFINE u == Sums(lens)[i]
      <4>1. u \in Nat
        BY <1>3
      <4>2. w[i] = u + i
        BY <3>1
      <4>3. i \in Nat
        BY <1>1
      <4> HIDE DEF u
      <4> QED
        BY <4>1, <4>2, <4>3
    <3> QED
      BY <3>1, <3>2
  <2>2. w[0] = 0 /\ w[n] = PointCount(paths) + n
    BY <1>1, <1>3, <2>1
  <2>3. ASSUME NEW i \in 1 .. n PROVE w[i] - w[i - 1] = Len(paths[i]) + 1
    <3>1. i \in 0 .. n /\ i - 1 \in 0 .. n /\ i \in Int
      BY <1>1
    <3> DEFINE u == Sums(lens)[i]
               v == Sums(lens)[i - 1]
    <3>2. u \in Nat /\ v \in Nat /\ u - v = Len(paths[i])
      BY <1>3, <3>1
    <3> DEFINE x == w[i]
               y == w[i - 1]
               k == Len(paths[i])
    <3>3. x = u + i /\ y = v + (i - 1)
      BY <2>1, <3>1
    <3>4. u - v = k
      BY <3>2
    <3> HIDE DEF u, v, x, y, k
    <3>5. x - y = k + 1
      BY <3>1, <3>2, <3>3, <3>4
    <3> QED
      BY <3>5 DEF x, y, k
  <2> HIDE DEF w, lens, traces
  <2>4. \A i \in 1 .. n : Fits(traces[i], w[i] - w[i - 1])
    BY <1>5, <2>3
  <2>5. Fits(FlattenSeq(traces), w[Len(traces)])
    BY <1>4, <2>1, <2>2, <2>4, FlattenFits
  <2> QED
    BY <1>4, <2>2, <2>5
<1>7. Len(paths) # 0 => Fits(pen, 3)
  <2> SUFFICES ASSUME paths # <<>> PROVE Fits(pen, 3)
    OBVIOUS
  <2>1. Points(line.sheet.style.width) \in Extents
    <3>1. line.series # <<>>
      BY <1>1
    <3>2. Points(line.sheet.style.width) \in 1 .. (MaxDimension * Unit)
      BY <3>1, AdmittedPage
    <3> QED
      BY <3>2 DEF Extents
  <2>2. Brief(UseSeries(s))
    <3> DEFINE m == Len(line.series)
    <3>0. m \in Nat /\ m + 7 < 10 ^ 9 /\ s \in 1 .. m
      BY <1>1, PlansAreBounded
    <3> HIDE DEF m
    <3>1. s \in Nat \ {0} /\ s - 1 \in Nat /\ s - 1 < 10 ^ 9
      BY <3>0
    <3>2. Digits(s - 1) \in 1 .. 9
      BY <3>1, DigitsAreFew
    <3>3. Size(UseSeries(s)) = 6 + Digits(s - 1)
      BY <3>1 DEF Size, UseSeries
    <3>4. Size(UseSeries(s)) \in 0 .. 64
      <4> DEFINE d == Digits(s - 1)
      <4>1. d \in 1 .. 9 /\ Size(UseSeries(s)) = 6 + d
        BY <3>2, <3>3
      <4> HIDE DEF d
      <4> QED
        BY <4>1
    <3> QED
      BY <3>4 DEF Brief
  <2>3. Brief(StrokeInk(line.sheet.style.ink)) /\ Brief(LineWidth(Points(line.sheet.style.width)))
    BY <2>1, PensAreBrief, WidthsAreBrief
  <2> QED
    BY <2>2, <2>3, FewOpsFit, Zenon
<1>8. SeriesOps(s) = IF paths = <<>> THEN <<>> ELSE pen \o FlattenSeq(traces)
  BY DEF SeriesOps
<1>9. CASE paths = <<>>
  <2>1. Fits(<<>>, 0)
    BY PensAreBrief, FewOpsFit, Zenon
  <2>2. Fits(<<>>, 3 + PointCount(paths) + n)
    BY <1>1, <2>1, WiderFits
  <2> QED
    BY <1>8, <1>9, <2>2
<1>10. CASE paths # <<>>
  <2>1. Fits(pen, 3)
    <3>1. Len(paths) # 0
      BY <1>1, <1>2, <1>10 DEF IsNested, IsSequence
    <3> QED
      BY <1>7, <3>1
  <2> DEFINE c == PointCount(paths) + n
             t == FlattenSeq(traces)
  <2>2. c \in Int /\ Fits(t, c) /\ 3 + c = 3 + PointCount(paths) + n
    BY <1>1, <1>6
  <2> HIDE DEF c, t, pen
  <2>3. Fits(pen \o t, 3 + c)
    BY <2>1, <2>2, ConcatFits
  <2> QED
    BY <1>8, <1>10, <2>2, <2>3 DEF t
<1> QED
  BY <1>9, <1>10

\* The greater and the smaller of two whole numbers.
LEMMA OfTwo ==
  ASSUME NEW a \in Int, NEW b \in Int
  PROVE  /\ Max({a, b}) \in {a, b} /\ Max({a, b}) >= a /\ Max({a, b}) >= b
         /\ Min({a, b}) \in {a, b} /\ Min({a, b}) <= a /\ Min({a, b}) <= b
<1>1. \E x \in {a, b} : \A y \in {a, b} : x >= y
  <2>1. CASE a >= b
    BY <2>1
  <2>2. CASE ~(a >= b)
    BY <2>2
  <2> QED
    BY <2>1, <2>2
<1>2. \E x \in {a, b} : \A y \in {a, b} : x <= y
  <2>1. CASE a <= b
    BY <2>1
  <2>2. CASE ~(a <= b)
    BY <2>2
  <2> QED
    BY <2>1, <2>2
<1>3. Max({a, b}) \in {a, b} /\ \A y \in {a, b} : Max({a, b}) >= y
  BY <1>1 DEF Max
<1>4. Min({a, b}) \in {a, b} /\ \A y \in {a, b} : Min({a, b}) <= y
  BY <1>2 DEF Min
<1> QED
  BY <1>3, <1>4

\* What is clamped lies between zero and the limit.
LEMMA ClampStaysWithin ==
  ASSUME NEW v \in Int, NEW top \in Nat
  PROVE  Clamp(v, top) \in 0 .. top
<1> DEFINE least == Min({v, top})
<1>1. least \in Int /\ least <= top
  BY OfTwo
<1>2. Clamp(v, top) = Max({0, least})
  BY DEF Clamp
<1> HIDE DEF least
<1>3. Max({0, least}) \in {0, least} /\ Max({0, least}) >= 0
  BY <1>1, OfTwo
<1> QED
  BY <1>1, <1>2, <1>3

\* A held frame's glyphs are at numbers when its layout is valid.
LEMMA GlyphsAreNumbers ==
  ASSUME WholeFrame(line), LayoutIsValid(line.layout)
  PROVE  \A i \in 1 .. Len(Glyphs) : Glyphs[i].x \in Int /\ Glyphs[i].y \in Int
<1> DEFINE runs == line.layout.runs
           Placed(r) == [i \in DOMAIN runs[r].glyphs |->
                           [x |-> Unit * runs[r].glyphs[i].x, y |-> Unit * runs[r].glyphs[i].y]]
           all == [r \in DOMAIN runs |-> Placed(r)]
<1>1. IsSequence(all)
  BY MapIsSequence DEF WholeFrame
<1>2. \A r \in DOMAIN runs : IsSequence(Placed(r))
  BY MapIsSequence DEF WholeFrame
<1>3. DOMAIN all = DOMAIN runs /\ \A r \in DOMAIN all : all[r] = Placed(r)
  OBVIOUS
<1>4. Glyphs = FlattenSeq(all)
  BY DEF Glyphs
<1>5. ASSUME NEW r \in DOMAIN runs, NEW i \in DOMAIN runs[r].glyphs
      PROVE  Placed(r)[i].x \in Int /\ Placed(r)[i].y \in Int
  <2>1. runs[r] \in ToSet(runs) /\ runs[r].glyphs[i] \in ToSet(runs[r].glyphs)
    BY DEF ToSet
  <2>2. ToSet(runs[r].glyphs) \subseteq Values
    BY <2>1, Zenon DEF LayoutIsValid, RunValid
  <2>3. runs[r].glyphs[i].x \in Int /\ runs[r].glyphs[i].y \in Int
    BY <2>1, <2>2 DEF Values
  <2> DEFINE p == runs[r].glyphs[i]
  <2>4. Unit \in Int /\ Placed(r)[i] = [x |-> Unit * p.x, y |-> Unit * p.y]
    BY FrameAssumption
  <2> HIDE DEF p, Placed
  <2>5. Unit * p.x \in Int /\ Unit * p.y \in Int
    BY <2>3, <2>4 DEF p
  <2> QED
    BY <2>4, <2>5
<1>6. \A r \in DOMAIN runs : \A p \in ToSet(Placed(r)) : p.x \in Int /\ p.y \in Int
  BY <1>5 DEF ToSet
<1> HIDE DEF all, Placed
<1>7. /\ IsSequence(Glyphs)
      /\ ToSet(Glyphs) = UNION {ToSet(all[r]) : r \in DOMAIN all}
  BY <1>1, <1>2, <1>3, <1>4, FlattenIsSequence
<1>8. \A p \in ToSet(Glyphs) : p.x \in Int /\ p.y \in Int
  BY <1>3, <1>6, <1>7
<1> QED
  BY <1>7, <1>8, SequenceDomain

\* A glyph is one rectangle at most.
LEMMA CellFits ==
  ASSUME WholeFrame(line), PdfPlan = "admitted", NEW p, p.x \in Int, p.y \in Int
  PROVE  Fits(TextCell(p), 1)
<1> DEFINE width == line.canvas[1] * Unit
           height == line.canvas[2] * Unit
           left == Clamp(p.x, width)
           top == Clamp(p.y, height)
           right == Clamp(p.x + 5 * Unit, width)
           bottom == Clamp(p.y + 7 * Unit, height)
           box == Box(Points(left), Page(2) - Points(bottom), Points(right), Page(2) - Points(top))
<1>1. width \in Nat /\ height \in Nat /\ Unit \in Nat
  <2>1. line.canvas[1] \in Nat /\ line.canvas[2] \in Nat /\ Unit \in Nat
    BY AdmittedPage, FrameAssumption DEF WholeFrame
  <2> QED
    BY <2>1
<1>2. /\ left \in 0 .. width /\ right \in 0 .. width
      /\ top \in 0 .. height /\ bottom \in 0 .. height
  <2>1. p.x + 5 * Unit \in Int /\ p.y + 7 * Unit \in Int
    BY <1>1
  <2> HIDE DEF width, height
  <2> QED
    BY <1>1, <2>1, ClampStaysWithin
<1>3. TextCell(p) = IF right <= left \/ bottom <= top THEN <<>> ELSE <<Rectangle("f", box)>>
  BY DEF TextCell
<1>4. Fits(<<>>, 1)
  <2>1. Fits(<<>>, 0)
    BY PensAreBrief, FewOpsFit, Zenon
  <2> QED
    BY <2>1, WiderFits
<1>5. CASE right <= left \/ bottom <= top
  BY <1>3, <1>4, <1>5
<1>6. CASE ~(right <= left \/ bottom <= top)
  <2> HIDE DEF left, top, right, bottom
  <2>1. left \in Int /\ right \in Int /\ top \in Int /\ bottom \in Int /\ left <= right /\ top <= bottom
    BY <1>1, <1>2, <1>6
  <2>2. /\ Points(left) \in Extents /\ Points(right) \in Extents
        /\ Page(2) - Points(top) \in Extents /\ Page(2) - Points(bottom) \in Extents
    BY <1>2, PointsOnPage
  <2>3. /\ Points(left) \in Int /\ Points(right) \in Int /\ Points(left) <= Points(right)
        /\ Points(top) \in Int /\ Points(bottom) \in Int /\ Points(top) <= Points(bottom)
    BY <2>1, PointsRise
  <2>4. Page(2) \in Int /\ MaxDimension * Unit \in Int
    BY AdmittedPage, ExportAssumption, FrameAssumption
  <2>5. Points(right) - Points(left) \in Extents
    BY <2>2, <2>3, <2>4 DEF Extents
  <2>6. (Page(2) - Points(top)) - (Page(2) - Points(bottom)) \in Extents
    BY <2>2, <2>3, <2>4 DEF Extents
  <2>7. /\ box.left = Points(left) /\ box.right = Points(right)
        /\ box.top = Page(2) - Points(bottom) /\ box.bottom = Page(2) - Points(top)
    BY DEF Box
  <2> HIDE DEF box
  <2>8. Brief(Rectangle("f", box))
    BY <2>2, <2>5, <2>6, <2>7, BoxesAreBrief
  <2>9. Fits(<<Rectangle("f", box)>>, 1)
    BY <2>8, FewOpsFit, Zenon
  <2> QED
    BY <1>3, <1>6, <2>9
<1> QED
  BY <1>5, <1>6

\* Text has an operator for each glyph, and three around them.
LEMMA TextFits ==
  ASSUME WholeFrame(line), PdfPlan = "admitted"
  PROVE  Fits(TextOps, 3 + Len(Glyphs))
<1> DEFINE g == Len(Glyphs)
           cellOf == [i \in DOMAIN Glyphs |-> TextCell(Glyphs[i])]
           cells == FlattenSeq(cellOf)
           w == [i \in 0 .. g |-> i]
<1>1. g \in Nat /\ DOMAIN Glyphs = 1 .. g
  BY GlyphsAreSequence, SequenceDomain
<1>2. IsSequence(cellOf) /\ Len(cellOf) = g
  <2>1. cellOf = [i \in 1 .. g |-> cellOf[i]]
    BY <1>1
  <2> HIDE DEF cellOf, g
  <2> QED
    BY <1>1, <2>1, ListIsSequence
<1>3. \A i \in 1 .. g : Fits(cellOf[i], 1)
  <2>1. \A i \in 1 .. g : Glyphs[i].x \in Int /\ Glyphs[i].y \in Int
    BY GlyphsAreNumbers, AdmittedPage
  <2> QED
    BY <1>1, <2>1, CellFits
<1>4. Fits(cells, g)
  <2>1. /\ \A i \in 0 .. g : w[i] \in Int
        /\ w[0] = 0 /\ w[g] = g
        /\ \A i \in 1 .. g : w[i] - w[i - 1] = 1
    BY <1>1
  <2> HIDE DEF w, cellOf, g
  <2>2. Fits(FlattenSeq(cellOf), w[g])
    BY <1>2, <1>3, <2>1, FlattenFits
  <2> QED
    BY <2>1, <2>2
<1>5. Fits(<<Save, FillInk(BlackInk)>>, 2) /\ Fits(<<Restore>>, 1)
  <2>1. Brief(Save) /\ Brief(FillInk(BlackInk)) /\ Brief(Restore)
    BY PensAreBrief
  <2> QED
    BY <2>1, FewOpsFit
<1>6. TextOps = IF cells = <<>> THEN <<>>
                ELSE (<<Save, FillInk(BlackInk)>> \o cells) \o <<Restore>>
  BY DEF TextOps
<1> HIDE DEF cells, g
<1>7. Fits(<<Save, FillInk(BlackInk)>> \o cells, 2 + g)
  BY <1>1, <1>4, <1>5, ConcatFits
<1>8. Fits((<<Save, FillInk(BlackInk)>> \o cells) \o <<Restore>>, (2 + g) + 1)
  <2>1. 2 + g \in Int /\ 1 \in Int
    BY <1>1
  <2> QED
    BY <1>5, <1>7, <2>1, ConcatFits
<1>9. (2 + g) + 1 = 3 + g
  BY <1>1
<1>10. Fits(<<>>, 3 + g)
  <2>1. Fits(<<>>, 0)
    BY PensAreBrief, FewOpsFit, Zenon
  <2> QED
    BY <1>1, <2>1, WiderFits
<1>11. Fits(TextOps, 3 + g)
  BY <1>6, <1>8, <1>9, <1>10
<1> QED
  BY <1>11 DEF g

\* A page's content is no more operators than are counted.
LEMMA ContentFits ==
  ASSUME WholeFrame(line), PdfPlan = "admitted"
  PROVE  Fits(FlattenSeq(ContentParts), OperatorCount)
<1> DEFINE n == Len(line.series)
           first == <<BackgroundOps, OpenPlot, GridOps>>
           middle == [s \in DOMAIN line.series |-> SeriesOps(s)]
           last == <<<<Restore>>, TextOps>>
           grid == 3 + 3 * (Len(line.xTicks) + Len(line.yTicks))
           g == Len(Glyphs)
           curve == CurveSums[n] + SegmentSums[n]
           w == [i \in 0 .. (n + 5) |->
                   IF i = 0 THEN 0 ELSE IF i = 1 THEN 5 ELSE IF i = 2 THEN 7
                   ELSE IF i <= n + 3 THEN 7 + grid + 3 * (i - 3) + CurveSums[i - 3] + SegmentSums[i - 3]
                   ELSE IF i = n + 4 THEN 8 + grid + 3 * n + curve
                   ELSE 11 + grid + 3 * n + curve + g]
<1>1. /\ n \in Nat /\ DOMAIN line.series = 1 .. n
      /\ \A s \in 0 .. n : CurveSums[s] \in Nat /\ SegmentSums[s] \in Nat
      /\ CurveSums[0] = 0 /\ SegmentSums[0] = 0
      /\ g \in Nat /\ curve \in Nat /\ grid \in Nat
  <2>1. /\ n \in Nat /\ DOMAIN line.series = 1 .. n
        /\ \A s \in 0 .. n : CurveSums[s] \in Nat /\ SegmentSums[s] \in Nat
        /\ CurveSums[0] = 0 /\ SegmentSums[0] = 0 /\ g \in Nat
        /\ Len(line.xTicks) \in Nat /\ Len(line.yTicks) \in Nat
    BY FrameIsCounted
  <2>2. grid \in Nat
    <3> DEFINE a == Len(line.xTicks)
               b == Len(line.yTicks)
    <3>1. a \in Nat /\ b \in Nat /\ grid = 3 + 3 * (a + b)
      BY <2>1, Zenon
    <3> HIDE DEF a, b, grid
    <3> QED
      BY <3>1
  <2>3. curve \in Nat
    <3> DEFINE c == CurveSums[n]
               d == SegmentSums[n]
    <3>1. n \in 0 .. n
      BY <2>1
    <3>2. c \in Nat /\ d \in Nat /\ curve = c + d
      BY <2>1, <3>1
    <3> HIDE DEF c, d, curve
    <3> QED
      BY <3>2
  <2> QED
    BY <2>1, <2>2, <2>3
<1>2. ASSUME NEW s \in 1 .. n
      PROVE  /\ CurveSums[s] = CurveSums[s - 1] + PointCount(line.series[s])
             /\ SegmentSums[s] = SegmentSums[s - 1] + Len(line.series[s])
             /\ PointCount(line.series[s]) \in Nat /\ Len(line.series[s]) \in Nat
  BY FrameIsCounted
<1>3. /\ Len(ContentParts) = n + 5 /\ IsSequence(ContentParts)
      /\ ContentParts[1] = BackgroundOps /\ ContentParts[2] = OpenPlot /\ ContentParts[3] = GridOps
      /\ \A s \in 1 .. n : ContentParts[3 + s] = SeriesOps(s)
      /\ ContentParts[n + 4] = <<Restore>> /\ ContentParts[n + 5] = TextOps
  <2> DEFINE X == {BackgroundOps, OpenPlot, GridOps, <<Restore>>, TextOps}
                    \cup {SeriesOps(s) : s \in 1 .. n}
  <2>1. first \in Seq(X) /\ Len(first) = 3
    OBVIOUS
  <2>2. middle \in Seq(X) /\ Len(middle) = n /\ \A s \in 1 .. n : middle[s] = SeriesOps(s)
    <3>1. \A s \in 1 .. n : middle[s] = SeriesOps(s) /\ SeriesOps(s) \in X
      BY <1>1
    <3>2. middle = [s \in 1 .. n |-> middle[s]]
      BY <1>1
    <3> HIDE DEF X, middle, n
    <3>3. \A s \in 1 .. n : middle[s] \in X
      BY <3>1
    <3>4. middle \in [1 .. n -> X]
      BY <3>2, <3>3
    <3> QED
      BY <1>1, <3>1, <3>2, <3>4
  <2>3. last \in Seq(X) /\ Len(last) = 2
    OBVIOUS
  <2>4. ContentParts = first \o middle \o last
    BY DEF ContentParts
  <2>5. /\ first[1] = BackgroundOps /\ first[2] = OpenPlot /\ first[3] = GridOps
        /\ last[1] = <<Restore>> /\ last[2] = TextOps
    OBVIOUS
  <2> HIDE DEF X, first, middle, last, n
  <2>6. PICK st \in Seq(X) :
          /\ first \o middle \o last \in Seq(X)
          /\ Joins(st, first, middle) /\ Joins(first \o middle \o last, st, last)
    BY <2>1, <2>2, <2>3, ThreeInARow
  <2>7. IsSequence(ContentParts)
    BY <2>4, <2>6, SeqIsSequence
  <2>8. Len(st) = 3 + n /\ Len(ContentParts) = n + 5
    BY <1>1, <2>1, <2>2, <2>3, <2>4, <2>6 DEF Joins
  <2>9. /\ \A i \in 1 .. 3 : st[i] = first[i]
        /\ \A s \in 1 .. n : st[3 + s] = middle[s]
        /\ \A i \in 1 .. (3 + n) : ContentParts[i] = st[i]
        /\ \A i \in 1 .. 2 : ContentParts[(3 + n) + i] = last[i]
    BY <2>1, <2>2, <2>3, <2>4, <2>6, <2>8 DEF Joins
  <2>10. /\ 1 \in 1 .. 3 /\ 2 \in 1 .. 3 /\ 3 \in 1 .. 3 /\ 1 \in 1 .. 2 /\ 2 \in 1 .. 2
         /\ \A i \in 1 .. 3 : i \in 1 .. (3 + n)
         /\ \A s \in 1 .. n : 3 + s \in 1 .. (3 + n)
         /\ (3 + n) + 1 = n + 4 /\ (3 + n) + 2 = n + 5
    BY <1>1
  <2>11. ContentParts[1] = BackgroundOps /\ ContentParts[2] = OpenPlot /\ ContentParts[3] = GridOps
    BY <2>5, <2>9, <2>10
  <2>12. \A s \in 1 .. n : ContentParts[3 + s] = SeriesOps(s)
    BY <2>2, <2>9, <2>10
  <2>13. ContentParts[n + 4] = <<Restore>> /\ ContentParts[n + 5] = TextOps
    BY <2>5, <2>9, <2>10
  <2> QED
    BY <2>7, <2>8, <2>11, <2>12, <2>13
<1>4. \A i \in 0 .. (n + 5) :
        w[i] = IF i = 0 THEN 0 ELSE IF i = 1 THEN 5 ELSE IF i = 2 THEN 7
               ELSE IF i <= n + 3 THEN 7 + grid + 3 * (i - 3) + CurveSums[i - 3] + SegmentSums[i - 3]
               ELSE IF i = n + 4 THEN 8 + grid + 3 * n + curve
               ELSE 11 + grid + 3 * n + curve + g
  OBVIOUS
<1>5. /\ Fits(BackgroundOps, 5) /\ Fits(OpenPlot, 2) /\ Fits(<<Restore>>, 1)
      /\ Fits(GridOps, grid) /\ Fits(TextOps, 3 + g)
      /\ \A s \in 1 .. n : Fits(SeriesOps(s), 3 + PointCount(line.series[s]) + Len(line.series[s]))
  BY BackgroundFits, GridFits, TextFits, SeriesFits
<1>curve. curve = CurveSums[n] + SegmentSums[n]
  OBVIOUS
<1>6. OperatorCount = 11 + grid + 3 * n + curve + g
  <2> DEFINE a == Len(line.xTicks)
             b == Len(line.yTicks)
             c == CurveSums[n]
             d == SegmentSums[n]
  <2>1. /\ a \in Nat /\ b \in Nat /\ c \in Nat /\ d \in Nat
        /\ CurvePoints = c /\ PdfSegments = d + a + b
    BY <1>1, FrameIsCounted
  <2>2. PdfPathPoints = c + 2 * (a + b)
    BY <2>1 DEF PdfPathPoints, GridPoints
  <2>3. OperatorCount = 14 + 3 * n + PdfPathPoints + PdfSegments + g
    BY DEF OperatorCount
  <2>4. grid = 3 + 3 * (a + b) /\ curve = c + d
    OBVIOUS
  <2> HIDE DEF a, b, c, d, n, g, grid, curve
  <2> QED
    BY <1>1, <2>1, <2>2, <2>3, <2>4
<1> HIDE DEF n, w, grid, curve, g
<1>7. w[0] = 0 /\ w[1] = 5 /\ w[2] = 7 /\ w[3] = 7 + grid
  <2>1. 0 \in 0 .. (n + 5) /\ 1 \in 0 .. (n + 5) /\ 2 \in 0 .. (n + 5) /\ 3 \in 0 .. (n + 5) /\ 3 <= n + 3
    BY <1>1
  <2>2. w[0] = 0 /\ w[1] = 5 /\ w[2] = 7
    BY <1>4, <2>1
  <2>3. w[3] = 7 + grid + 3 * (3 - 3) + CurveSums[3 - 3] + SegmentSums[3 - 3]
    BY <1>4, <2>1
  <2>4. 3 - 3 = 0 /\ 3 * 0 = 0
    OBVIOUS
  <2>5. w[3] = 7 + grid + 0 + 0 + 0
    BY <1>1, <2>3, <2>4
  <2> QED
    BY <1>1, <2>2, <2>5
<1>8. ASSUME NEW s \in 0 .. n
      PROVE  /\ w[3 + s] = 7 + grid + 3 * s + CurveSums[s] + SegmentSums[s]
             /\ w[3 + s] \in Nat
  <2>1. 3 + s \in 0 .. (n + 5) /\ 3 + s <= n + 3 /\ 3 + s # 0 /\ 3 + s # 1 /\ 3 + s # 2 /\ (3 + s) - 3 = s
    BY <1>1
  <2>2. w[3 + s] = 7 + grid + 3 * s + CurveSums[s] + SegmentSums[s]
    BY <1>4, <2>1
  <2>3. CurveSums[s] \in Nat /\ SegmentSums[s] \in Nat /\ s \in Nat
    BY <1>1
  <2> QED
    BY <1>1, <2>2, <2>3
<1>9. w[n + 4] = 8 + grid + 3 * n + curve /\ w[n + 5] = 11 + grid + 3 * n + curve + g
  <2>1. /\ n + 4 \in 0 .. (n + 5) /\ n + 5 \in 0 .. (n + 5)
        /\ n + 4 \notin {0, 1, 2} /\ ~(n + 4 <= n + 3)
        /\ n + 5 \notin {0, 1, 2} /\ ~(n + 5 <= n + 3) /\ n + 5 # n + 4
    BY <1>1
  <2> QED
    BY <1>4, <2>1
<1>10. w[n + 3] = 7 + grid + 3 * n + curve
  <2>1. n \in 0 .. n /\ 3 + n = n + 3
    BY <1>1
  <2>2. w[n + 3] = 7 + grid + 3 * n + CurveSums[n] + SegmentSums[n]
    BY <1>8, <2>1
  <2>3. CurveSums[n] \in Nat /\ SegmentSums[n] \in Nat
    BY <1>1, <2>1
  <2> QED
    BY <1>1, <1>curve, <2>2, <2>3
<1>11. \A i \in 0 .. (n + 5) : w[i] \in Int
  <2> SUFFICES ASSUME NEW i \in 0 .. (n + 5) PROVE w[i] \in Int
    OBVIOUS
  <2>1. i \in {0, 1, 2} \/ i = n + 4 \/ i = n + 5 \/ i \in 3 .. (n + 3)
    BY <1>1
  <2>2. CASE i \in 3 .. (n + 3)
    <3>1. i - 3 \in 0 .. n /\ 3 + (i - 3) = i
      BY <1>1, <2>2
    <3> QED
      BY <1>8, <3>1
  <2>3. CASE i \in {0, 1, 2}
    BY <1>7, <2>3
  <2>4. w[n + 4] \in Int /\ w[n + 5] \in Int
    BY <1>1, <1>9
  <2> QED
    BY <2>1, <2>2, <2>3, <2>4
<1>12. \A i \in 1 .. (n + 5) : Fits(ContentParts[i], w[i] - w[i - 1])
  <2> SUFFICES ASSUME NEW i \in 1 .. (n + 5) PROVE Fits(ContentParts[i], w[i] - w[i - 1])
    OBVIOUS
  <2>1. i \in {1, 2, 3} \/ i = n + 4 \/ i = n + 5 \/ i \in 4 .. (n + 3)
    BY <1>1
  <2>2. CASE i \in {1, 2, 3}
    <3>1. w[1] - w[0] = 5 /\ w[2] - w[1] = 2 /\ w[3] - w[2] = grid
      BY <1>1, <1>7
    <3>2. 1 - 1 = 0 /\ 2 - 1 = 1 /\ 3 - 1 = 2
      OBVIOUS
    <3> QED
      BY <1>3, <1>5, <2>2, <3>1, <3>2
  <2>3. CASE i = n + 4
    <3>1. i - 1 = n + 3
      BY <1>1, <2>3
    <3>2. w[n + 4] - w[n + 3] = 1
      BY <1>1, <1>9, <1>10
    <3> QED
      BY <1>3, <1>5, <2>3, <3>1, <3>2
  <2>4. CASE i = n + 5
    <3>1. i - 1 = n + 4
      BY <1>1, <2>4
    <3>2. w[n + 5] - w[n + 4] = 3 + g
      BY <1>1, <1>9
    <3> QED
      BY <1>3, <1>5, <2>4, <3>1, <3>2
  <2>5. CASE i \in 4 .. (n + 3)
    <3> DEFINE s == i - 3
    <3>1. s \in 1 .. n /\ s \in 0 .. n /\ s - 1 \in 0 .. n /\ 3 + s = i /\ 3 + (s - 1) = i - 1 /\ s \in Int
      BY <1>1, <2>5
    <3> HIDE DEF s
    <3> DEFINE a == CurveSums[s]
               b == SegmentSums[s]
               c == CurveSums[s - 1]
               d == SegmentSums[s - 1]
               p == PointCount(line.series[s])
               l == Len(line.series[s])
    <3>2. w[i] = 7 + grid + 3 * s + a + b
      BY <1>8, <3>1
    <3>3. w[i - 1] = 7 + grid + 3 * (s - 1) + c + d
      BY <1>8, <3>1
    <3>4. a = c + p /\ b = d + l /\ p \in Nat /\ l \in Nat
      BY <1>2, <3>1
    <3>5. c \in Nat /\ d \in Nat
      BY <1>1, <3>1
    <3>6. ContentParts[i] = SeriesOps(s) /\ Fits(SeriesOps(s), 3 + p + l)
      BY <1>3, <1>5, <3>1
    <3> HIDE DEF a, b, c, d, p, l
    <3>7. w[i] - w[i - 1] = 3 + p + l
      BY <1>1, <3>1, <3>2, <3>3, <3>4, <3>5
    <3> QED
      BY <3>6, <3>7
  <2> QED
    BY <2>1, <2>2, <2>3, <2>4, <2>5
<1>13. Fits(FlattenSeq(ContentParts), w[n + 5])
  <2> DEFINE k == Len(ContentParts)
  <2>1. /\ k = n + 5 /\ IsSequence(ContentParts) /\ w[0] = 0
        /\ \A i \in 0 .. k : w[i] \in Int
        /\ \A i \in 1 .. k : Fits(ContentParts[i], w[i] - w[i - 1])
    BY <1>3, <1>7, <1>11, <1>12
  <2>2. Fits(FlattenSeq(ContentParts), w[Len(ContentParts)])
    BY <2>1, FlattenFits
  <2> QED
    BY <2>1, <2>2
<1> QED
  BY <1>6, <1>9, <1>13

\* What is written of a page is no longer than its estimate.
LEMMA ContentIsAsEstimated ==
  ASSUME WholeFrame(line), PdfPlan = "admitted"
  PROVE  LET content == FlattenSeq(ContentParts) IN
         /\ SizeOf(content) \in Nat
         /\ SizeOf(content) <= ContentEstimate /\ SizeOf(content) <= MaxOutput
<1> DEFINE size == SizeOf(FlattenSeq(ContentParts))
           n == Len(line.series)
<1>1. OperatorCount \in Nat /\ ContentEstimate \in Nat /\ 64 * OperatorCount <= ContentEstimate
  BY CountsAreNumbers, OperatorsAreEstimated
<1>2. size \in Nat /\ size <= 64 * OperatorCount
  BY <1>1, ContentFits, SizeOfFitting
<1>3. n \in Nat /\ OutputEstimate \in Nat /\ OutputEstimate = ContentEstimate + 288 * (n + 7) + 4096
  BY FrameIsCounted, ObjectsAreEstimated
<1>4. ~(OutputEstimate > MaxOutput) /\ MaxOutput \in Nat
  BY AdmittedPage, ExportAssumption
<1> HIDE DEF size, n
<1>5. size \in Nat /\ size <= ContentEstimate
  BY <1>1, <1>2
<1>6. size <= MaxOutput
  BY <1>1, <1>3, <1>4, <1>5
<1> QED
  BY <1>5, <1>6 DEF size

-----------------------------------------------------------------------------
(* A file keeps within its estimate *)

\* A whole number of a resolution as a number in the file.
LEMMA ResolutionsAreShort ==
  ASSUME NEW v \in Nat, v < 10 ^ 9
  PROVE  NumberSize(v * Unit) \in 8 .. 16
<1>1. Unit \in Nat \ {0}
  BY FrameAssumption
<1>2. ~(v * Unit < 0) /\ (v * Unit) \div Unit = v
  BY <1>1
<1>3. Digits(v) \in 1 .. 9
  BY DigitsAreFew
<1>4. NumberSize(v * Unit) = 7 + Digits(v)
  BY <1>2 DEF NumberSize
<1> DEFINE d == Digits(v)
<1> HIDE DEF d
<1>5. d \in 1 .. 9 /\ NumberSize(v * Unit) = 7 + d
  BY <1>3, <1>4 DEF d
<1> QED
  BY <1>5

\* The page with its states, each of which has two numbers.
LEMMA PageIsSmall ==
  ASSUME WholeFrame(line), PdfPlan = "admitted",
         NEW body, body = [type |-> "Page", contents |-> 4, background |-> 5, grid |-> 6,
                           series |-> [s \in DOMAIN line.series |-> 6 + s]]
  PROVE  BodySize(body) \in Nat /\ BodySize(body) <= 196 + 26 * Len(line.series)
<1> DEFINE n == Len(line.series)
           Entry(s) == 8 + Digits(s - 1) + Digits(body.series[s])
           a == [s \in DOMAIN body.series |-> Entry(s)]
           x == NumberSize(Page(1))
           y == NumberSize(Page(2))
<1>1. n \in Nat /\ DOMAIN line.series = 1 .. n
  BY FrameIsCounted
<1>2. n + 7 < 10 ^ 9
  BY PlansAreBounded
<1>3. body.type = "Page" /\ DOMAIN body.series = 1 .. n /\ \A s \in 1 .. n : body.series[s] = 6 + s
  BY <1>1
<1>4. Len(a) = n
  <2>1. a = [s \in 1 .. n |-> a[s]]
    BY <1>3
  <2> HIDE DEF a, n
  <2> QED
    BY <1>1, <2>1, ListIsSequence
<1>5. ASSUME NEW s \in 1 .. n
      PROVE  a[s] \in Nat /\ a[s] <= 26
  <2> DEFINE d == Digits(s - 1)
             e == Digits(6 + s)
  <2>1. a[s] = 8 + d + e
    BY <1>3
  <2> HIDE DEF a, n
  <2>2. s - 1 \in Nat /\ 6 + s \in Nat /\ s - 1 < 10 ^ 9 /\ 6 + s < 10 ^ 9
    BY <1>1, <1>2
  <2>3. d \in 1 .. 9 /\ e \in 1 .. 9
    BY <2>2, DigitsAreFew
  <2> HIDE DEF d, e
  <2> QED
    BY <2>1, <2>3
<1>6. x \in 0 .. 12 /\ y \in 0 .. 12
  <2>1. Page(1) \in 0 .. (MaxDimension * Unit) /\ Page(2) \in 0 .. (MaxDimension * Unit)
    BY AdmittedPage
  <2> QED
    BY <2>1, NumbersAreShort
<1>7. BodySize(body) = 44 + x + 1 + y + 101 + 26 + Total(a)
  BY <1>3 DEF BodySize
<1> HIDE DEF a, n, x, y
<1>8. Total(a) \in Nat
  BY <1>1, <1>4, <1>5, SumsAreNatural
<1>9. Total(a) <= 26 * n
  <2> DEFINE b == 26
  <2>1. b \in Nat /\ Len(a) \in Nat /\ \A s \in 1 .. Len(a) : a[s] \in Int /\ a[s] <= b
    BY <1>1, <1>4, <1>5
  <2> HIDE DEF b
  <2>2. Total(a) <= b * Len(a)
    BY <2>1, TotalBelowProduct
  <2> QED
    BY <1>4, <2>2 DEF b
<1> DEFINE t == Total(a)
<1>10. t \in Nat /\ t <= 26 * n /\ BodySize(body) = 44 + x + 1 + y + 101 + 26 + t
  BY <1>7, <1>8, <1>9
<1> HIDE DEF t
<1>11. BodySize(body) \in Nat /\ BodySize(body) <= 196 + 26 * n
  BY <1>1, <1>6, <1>10
<1> QED
  BY <1>11 DEF n

\* An object is small, but for the page and the contents.
LEMMA ObjectsAreSmall ==
  ASSUME WholeFrame(line), PdfPlan = "admitted", pdf.content = FlattenSeq(ContentParts),
         NEW i \in 1 .. (Len(line.series) + 7)
  PROVE  /\ ObjectSize(Objects[i]) \in Nat
         /\ ObjectSize(Objects[i]) <= 201 + (IF i = 3 THEN 18 + 26 * Len(line.series) ELSE 0)
                                          + (IF i = 4 THEN SizeOf(pdf.content) ELSE 0)
<1> DEFINE n == Len(line.series)
           body == Objects[i].body
           d == Digits(i)
           size == BodySize(body)
           length == SizeOf(pdf.content)
<1>1. /\ n \in Nat /\ Objects[i].id = i
      /\ i = 1 => body.type = "Catalog"
      /\ i = 2 => body.type = "Pages"
      /\ i = 3 => body = [type |-> "Page", contents |-> 4, background |-> 5, grid |-> 6,
                          series |-> [s \in DOMAIN line.series |-> 6 + s]]
      /\ i = 4 => body = [type |-> "Stream", length |-> length]
      /\ i \in 5 .. (n + 6) => body.type = "ExtGState"
      /\ i = n + 7 => body.type = "Info"
  BY ObjectsInPlace
<1>2. d \in 1 .. 9
  <2>1. n + 7 < 10 ^ 9
    BY PlansAreBounded
  <2> HIDE DEF n
  <2>2. i \in Nat /\ i < 10 ^ 9
    BY <1>1, <2>1 DEF n
  <2> QED
    BY <2>2, DigitsAreFew
<1>3. ObjectSize(Objects[i]) = d + 7 + size + 7
  BY <1>1 DEF ObjectSize
<1>4. length \in Nat /\ length < 10 ^ 9
  <2>1. length \in Nat /\ length <= MaxOutput
    BY ContentIsAsEstimated
  <2>2. MaxOutput \in Nat /\ MaxOutput < 10 ^ 9
    BY ExportAssumption
  <2> QED
    BY <2>1, <2>2
<1>5. i \in {1, 2} \cup (5 .. (n + 6)) => size \in Nat /\ size <= 178
  <2>1. body.type = "Catalog" => size = 34
    BY DEF BodySize
  <2>2. body.type = "Pages" => size = 42
    BY DEF BodySize
  <2>3. body.type = "ExtGState" => size = 24 + 8 + 5 + 8 + 4
    BY DEF BodySize
  <2>4. i \in {1, 2} \cup (5 .. (n + 6)) => body.type \in {"Catalog", "Pages", "ExtGState"}
    BY <1>1
  <2> HIDE DEF body, size, n
  <2> QED
    BY <2>1, <2>2, <2>3, <2>4
<1>6. i = 3 => size \in Nat /\ size <= 196 + 26 * n
  BY <1>1, PageIsSmall
<1>7. i = 4 => size \in Nat /\ size <= 42 + length
  <2> SUFFICES ASSUME i = 4 PROVE size \in Nat /\ size <= 42 + length
    OBVIOUS
  <2> DEFINE e == Digits(length)
  <2>1. e \in 1 .. 9
    BY <1>4, DigitsAreFew
  <2>2. size = 22 + e + length + 11
    <3>1. body.type = "Stream" /\ body.length = length
      BY <1>1
    <3> HIDE DEF body, length
    <3> QED
      BY <3>1 DEF BodySize
  <2> HIDE DEF e, size, length
  <2> QED
    BY <1>4, <2>1, <2>2
<1>8. i = n + 7 => size \in Nat /\ size <= 178
  <2> SUFFICES ASSUME i = n + 7 PROVE size \in Nat /\ size <= 178
    OBVIOUS
  <2> DEFINE x == NumberSize(line.sheet.perInch * Unit)
             y == NumberSize(line.sheet.dpi * Unit)
  <2>1. x \in 8 .. 16 /\ y \in 8 .. 16
    BY ResolutionsAreNumbers, ResolutionsAreShort
  <2>2. size = 125 + x + 16 + y + 5
    <3>1. body.type = "Info"
      BY <1>1
    <3> HIDE DEF body
    <3> QED
      BY <3>1 DEF BodySize
  <2> HIDE DEF x, y, size
  <2> QED
    BY <2>1, <2>2
<1>9. i \in {1, 2} \cup (5 .. (n + 6)) \/ i = 3 \/ i = 4 \/ i = n + 7
  <2> HIDE DEF n
  <2>1. i \in 1 .. (n + 7)
    BY DEF n
  <2> QED
    BY <1>1, <2>1
<1> HIDE DEF n, body, d, size, length
<1>10. /\ ObjectSize(Objects[i]) \in Nat
       /\ ObjectSize(Objects[i]) <= 201 + (IF i = 3 THEN 18 + 26 * n ELSE 0)
                                        + (IF i = 4 THEN length ELSE 0)
  <2>1. CASE i \in {1, 2} \cup (5 .. (n + 6)) \/ i = n + 7
    <3>1. size \in Nat /\ size <= 178
      BY <1>5, <1>8, <2>1
    <3>2. d + 7 + size + 7 \in Nat /\ d + 7 + size + 7 <= 201
      BY <1>2, <3>1
    <3>3. i # 3 /\ i # 4
      BY <1>1, <2>1
    <3> QED
      BY <1>3, <3>2, <3>3
  <2>2. CASE i = 3
    BY <1>1, <1>2, <1>3, <1>6, <2>2
  <2>3. CASE i = 4
    BY <1>2, <1>3, <1>4, <1>7, <2>3
  <2> QED
    BY <1>9, <2>1, <2>2, <2>3
<1> QED
  BY <1>10 DEF n, length

\* The part of a file that is written is no longer than the whole may be.
FileBound == 1445 + 227 * Len(line.series) + SizeOf(pdf.content)

\* It holds object by object, and hence for any number of them.
LEMMA PrefixIsShort ==
  ASSUME WholeFrame(line), PdfPlan = "admitted", pdf.content = FlattenSeq(ContentParts),
         NEW k \in 0 .. Len(Objects), NEW file, file = SubSeq(Objects, 1, k)
  PROVE  Length(file) \in Nat /\ Length(file) <= FileBound
<1> DEFINE n == Len(line.series)
           length == SizeOf(pdf.content)
           a == [i \in DOMAIN file |-> ObjectSize(file[i])]
           page == 18 + 26 * n
           w == [i \in 0 .. (n + 7) |-> 201 * i + (IF i >= 3 THEN page ELSE 0)
                                                + (IF i >= 4 THEN length ELSE 0)]
<1>1. n \in Nat /\ IsSequence(Objects) /\ Len(Objects) = n + 7
  BY ObjectsInPlace
<1>2. k \in 0 .. (n + 7) /\ k \in Nat
  BY <1>1
<1>3. DOMAIN file = 1 .. k /\ \A i \in 1 .. k : file[i] = Objects[i]
  <2> DEFINE X == ToSet(Objects)
  <2>1. Objects \in Seq(X) /\ k \in 0 .. Len(Objects)
    BY <1>1 DEF IsSequence
  <2> HIDE DEF X
  <2> QED
    BY <1>2, <2>1
<1>4. Len(a) = k
  <2>1. a = [i \in 1 .. k |-> a[i]]
    BY <1>3
  <2> HIDE DEF a
  <2> QED
    BY <1>2, <2>1, ListIsSequence
<1>5. length \in Nat
  BY ContentIsAsEstimated
<1>6. ASSUME NEW i \in 1 .. k
      PROVE  /\ a[i] \in Nat
             /\ a[i] <= 201 + (IF i = 3 THEN page ELSE 0) + (IF i = 4 THEN length ELSE 0)
  <2>1. a[i] = ObjectSize(Objects[i])
    BY <1>3
  <2>2. i \in 1 .. (n + 7)
    <3> HIDE DEF n
    <3> QED
      BY <1>1, <1>2
  <2> HIDE DEF a
  <2> QED
    BY <2>1, <2>2, ObjectsAreSmall
<1>7. Length(file) = 20 + Total(a)
  BY DEF Length, HeaderSize
<1>8. page \in Nat /\ page = 18 + 26 * n
  <2> HIDE DEF n
  <2> QED
    BY <1>1
<1>9. \A i \in 0 .. (n + 7) : w[i] = 201 * i + (IF i >= 3 THEN page ELSE 0)
                                              + (IF i >= 4 THEN length ELSE 0)
  OBVIOUS
<1> HIDE DEF a, w, n, length, page
<1>10. Total(a) \in Nat
  BY <1>2, <1>4, <1>6, SumsAreNatural
<1>11. \A i \in 0 .. (n + 7) : w[i] \in Int /\ w[i] <= 201 * (n + 7) + page + length
  BY <1>1, <1>5, <1>8, <1>9
<1>12. \A i \in 0 .. k : i \in 0 .. (n + 7) /\ w[i] \in Int
  BY <1>1, <1>2, <1>11
<1>13. w[0] = 0
  BY <1>1, <1>9
<1>14. ASSUME NEW i \in 1 .. k PROVE a[i] <= w[i] - w[i - 1]
  <2>1. i \in 0 .. (n + 7) /\ i - 1 \in 0 .. (n + 7)
    BY <1>1, <1>2
  <2>2. w[i] = 201 * i + (IF i >= 3 THEN page ELSE 0) + (IF i >= 4 THEN length ELSE 0)
    BY <1>9, <2>1
  <2>3. w[i - 1] = 201 * (i - 1) + (IF i - 1 >= 3 THEN page ELSE 0)
                                 + (IF i - 1 >= 4 THEN length ELSE 0)
    BY <1>9, <2>1
  <2>4. w[i] - w[i - 1] = 201 + (IF i = 3 THEN page ELSE 0) + (IF i = 4 THEN length ELSE 0)
    BY <1>5, <1>8, <2>1, <2>2, <2>3
  <2> QED
    BY <1>6, <2>4
<1>15. Total(a) <= w[k]
  <2>1. /\ Len(a) \in Nat /\ \A i \in 1 .. Len(a) : a[i] \in Int
        /\ \A i \in 0 .. Len(a) : w[i] \in Int
        /\ 0 <= w[0]
        /\ \A i \in 1 .. Len(a) : a[i] <= w[i] - w[i - 1]
    BY <1>2, <1>4, <1>6, <1>12, <1>13, <1>14
  <2>2. Total(a) <= w[Len(a)]
    BY <2>1, TotalBelow
  <2> QED
    BY <1>4, <2>2
<1> DEFINE t == Total(a)
<1>16. t \in Nat /\ t <= 201 * (n + 7) + page + length
  <2>1. w[k] \in Int /\ w[k] <= 201 * (n + 7) + page + length
    BY <1>2, <1>11
  <2>2. t \in Nat /\ t <= w[k]
    BY <1>10, <1>15
  <2> HIDE DEF t
  <2> QED
    BY <1>1, <1>5, <1>8, <2>1, <2>2
<1>17. Length(file) = 20 + t
  BY <1>7
<1> HIDE DEF t
<1>18. Length(file) \in Nat /\ Length(file) <= 1445 + 227 * n + length
  BY <1>1, <1>5, <1>8, <1>16, <1>17
<1> QED
  BY <1>18 DEF FileBound, n, length

\* What is written of a file is within the limit.
LEMMA PrefixFits ==
  ASSUME WholeFrame(line), PdfPlan = "admitted", pdf.content = FlattenSeq(ContentParts),
         NEW k \in 0 .. Len(Objects), NEW file, file = SubSeq(Objects, 1, k)
  PROVE  Length(file) \in Nat /\ Length(file) <= MaxOutput
<1> DEFINE n == Len(line.series)
           length == SizeOf(pdf.content)
           start == Length(file)
<1>1. n \in Nat
  BY FrameIsCounted
<1>2. length \in Nat /\ length <= ContentEstimate /\ ContentEstimate \in Nat
  BY ContentIsAsEstimated, OperatorsAreEstimated
<1>3. OutputEstimate \in Nat /\ OutputEstimate = ContentEstimate + 288 * (n + 7) + 4096
  BY ObjectsAreEstimated
<1>4. ~(OutputEstimate > MaxOutput) /\ MaxOutput \in Nat
  BY AdmittedPage, ExportAssumption
<1>5. start \in Nat /\ start <= 1445 + 227 * n + length
  <2>1. Length(file) \in Nat /\ Length(file) <= FileBound
    <3> HIDE DEF n, length, start
    <3> QED
      BY PrefixIsShort, Zenon
  <2>2. FileBound = 1445 + 227 * n + length
    BY DEF FileBound
  <2>3. start \in Nat /\ start <= FileBound
    BY <2>1
  <2> HIDE DEF n, length, start
  <2> QED
    BY <2>2, <2>3
<1> HIDE DEF n, start, length
<1>6. start <= MaxOutput
  BY <1>1, <1>2, <1>3, <1>4, <1>5
<1> QED
  BY <1>5, <1>6 DEF start

\* A file with all that follows its objects is no longer than its estimate.
LEMMA FileIsAsEstimated ==
  ASSUME WholeFrame(line), PdfPlan = "admitted", pdf.content = FlattenSeq(ContentParts),
         NEW k \in 0 .. Len(Objects), NEW file, file = SubSeq(Objects, 1, k),
         NEW offsets, Len(offsets) = ObjectCount
  PROVE  /\ Length(file) + TailSize(offsets, Length(file)) \in Nat
         /\ Length(file) + TailSize(offsets, Length(file)) <= OutputEstimate
         /\ Length(file) + TailSize(offsets, Length(file)) <= MaxOutput
<1> DEFINE n == Len(line.series)
           length == SizeOf(pdf.content)
           start == Length(file)
<1>1. n \in Nat
  BY FrameIsCounted
<1>2. length \in Nat /\ length <= ContentEstimate /\ ContentEstimate \in Nat
  BY ContentIsAsEstimated, OperatorsAreEstimated
<1>3. OutputEstimate \in Nat /\ OutputEstimate = ContentEstimate + 288 * (n + 7) + 4096
  BY ObjectsAreEstimated
<1>4. ~(OutputEstimate > MaxOutput) /\ MaxOutput \in Nat
  BY AdmittedPage, ExportAssumption
<1>5. start \in Nat /\ start <= 1445 + 227 * n + length
  <2>1. Length(file) \in Nat /\ Length(file) <= FileBound
    <3> HIDE DEF n, length, start
    <3> QED
      BY PrefixIsShort, Zenon
  <2>2. FileBound = 1445 + 227 * n + length
    BY DEF FileBound
  <2>3. start \in Nat /\ start <= FileBound
    BY <2>1
  <2> HIDE DEF n, length, start
  <2> QED
    BY <2>2, <2>3
<1>6. n + 7 < 10 ^ 9 /\ OutputEstimate < 10 ^ 9
  BY PlansAreBounded
<1>7. TailSize(offsets, start) \in Nat /\ TailSize(offsets, start) <= 265 + 20 * n
  <2> DEFINE entries == n + 8
             d == Digits(entries)
             e == Digits(InfoObject)
             f == Digits(start)
  <2>1. Len(offsets) + 1 = entries
    BY <1>1 DEF ObjectCount
  <2>2. InfoObject = n + 7
    BY <1>1 DEF InfoObject
  <2>3. TailSize(offsets, start) = 8 + d + 20 * entries + 44 + d + e + 17 + f
    BY <2>1 DEF TailSize
  <2> HIDE DEF n, start, length
  <2>4. /\ entries \in Nat /\ entries < 10 ^ 9
        /\ InfoObject \in Nat /\ InfoObject < 10 ^ 9
        /\ start < 10 ^ 9
    BY <1>1, <1>2, <1>3, <1>5, <1>6, <2>2
  <2>5. d \in 1 .. 9 /\ e \in 1 .. 9 /\ f \in 1 .. 9
    BY <1>5, <2>4, DigitsAreFew
  <2>6. entries = n + 8
    OBVIOUS
  <2> HIDE DEF d, e, f, entries
  <2> QED
    BY <1>1, <2>3, <2>5, <2>6
<1> DEFINE tail == TailSize(offsets, start)
<1>8. tail \in Nat /\ tail <= 265 + 20 * n
  BY <1>7
<1> HIDE DEF n, start, length, tail
<1>9. start + tail \in Nat /\ start + tail <= OutputEstimate
  BY <1>1, <1>2, <1>3, <1>5, <1>8
<1>10. start + tail <= MaxOutput
  BY <1>3, <1>4, <1>9
<1> QED
  BY <1>9, <1>10 DEF tail, start

-----------------------------------------------------------------------------
(* A picture's passes lie on it *)

OnIt(p) == p.x \in 0 .. CanvasClip.right /\ p.y \in 0 .. CanvasClip.bottom
LinesLie(lines) == IsSequence(lines) /\ \A path \in ToSet(lines) : \A p \in ToSet(path) : OnIt(p)

\* A box of numbers.
IsBox(box) == {box.left, box.top, box.right, box.bottom} \subseteq Int
BoxesLie(boxes) ==
  IsSequence(boxes) /\ \A box \in ToSet(boxes) : IsBox(box) /\ Within(box, CanvasClip)

\* What an admitted plan says of a frame.
LEMMA AdmittedPicture ==
  ASSUME WholeFrame(line), PngPlan = "admitted"
  PROVE  /\ LayoutIsValid(line.layout)
         /\ Side(1) \in 1 .. MaxDimension /\ Side(2) \in 1 .. MaxDimension
         /\ \A p \in AllPoints : OnPicture(p)
         /\ CanvasClip.left = 0 /\ CanvasClip.top = 0
         /\ CanvasClip.right = Side(1) * Unit /\ CanvasClip.right \in Nat
         /\ CanvasClip.bottom = Side(2) * Unit /\ CanvasClip.bottom \in Nat
<1>1. "admitted" # "InvalidInput" /\ "admitted" # "CapacityExceeded"
  OBVIOUS
<1>2. /\ LayoutIsValid(line.layout)
      /\ \A k \in {1, 2} : Side(k) \in 1 .. MaxDimension
      /\ \A p \in AllPoints : OnPicture(p)
  BY <1>1, Zenon DEF PngPlan
<1>3. /\ CanvasClip.left = 0 /\ CanvasClip.top = 0
      /\ CanvasClip.right = Side(1) * Unit /\ CanvasClip.bottom = Side(2) * Unit
  BY DEF CanvasClip, Box
<1>4. \A k \in {1, 2} : Side(k) * Unit \in Nat
  <2> SUFFICES ASSUME NEW k \in {1, 2} PROVE Side(k) * Unit \in Nat
    OBVIOUS
  <2> DEFINE side == Side(k)
  <2>1. side \in 1 .. MaxDimension /\ MaxDimension \in Nat /\ Unit \in Nat
    BY <1>2, ExportAssumption, FrameAssumption
  <2> HIDE DEF side
  <2>2. side * Unit \in Nat
    BY <2>1
  <2> QED
    BY <2>2 DEF side
<1> QED
  BY <1>2, <1>3, <1>4

\* The elements of nothing, of one and of two in a row.
LEMMA FewElements ==
  ASSUME NEW x, NEW y
  PROVE  /\ IsSequence(<<>>) /\ IsSequence(<<x>>) /\ IsSequence(<<x, y>>)
         /\ ToSet(<<>>) = {} /\ ToSet(<<x>>) = {x} /\ ToSet(<<x, y>>) = {x, y}
         /\ DOMAIN <<>> = {} /\ DOMAIN <<x>> = {1} /\ <<x>>[1] = x
<1>1. DOMAIN <<>> = {} /\ DOMAIN <<x>> = {1} /\ <<x>>[1] = x
  OBVIOUS
<1>2. DOMAIN <<x, y>> = {1, 2} /\ <<x, y>>[1] = x /\ <<x, y>>[2] = y
  OBVIOUS
<1>3. ToSet(<<>>) = {}
  BY <1>1, Zenon DEF ToSet
<1>4. ToSet(<<x>>) = {x}
  <2> DEFINE s == <<x>>
  <2>1. DOMAIN s = {1} /\ s[1] = x
    BY <1>1
  <2> HIDE DEF s
  <2>2. ToSet(s) = {x}
    BY <2>1 DEF ToSet
  <2> QED
    BY <2>2 DEF s
<1>5. ToSet(<<x, y>>) = {x, y}
  <2> DEFINE s == <<x, y>>
  <2>1. DOMAIN s = {1, 2} /\ s[1] = x /\ s[2] = y
    BY <1>2
  <2> HIDE DEF s
  <2>2. ToSet(s) = {x, y}
    BY <2>1 DEF ToSet
  <2> QED
    BY <2>2 DEF s
<1> QED
  BY <1>1, <1>3, <1>4, <1>5, PairIsSequence, Zenon

\* Where nothing is painted nothing lies outside.
LEMMA NothingLies == LinesLie(<<>>) /\ BoxesLie(<<>>)
<1>1. IsSequence(<<>>) /\ ToSet(<<>>) = {}
  BY FewElements
<1> QED
  BY <1>1 DEF LinesLie, BoxesLie

\* A single line through two points of the picture, or along a path on it.
LEMMA PathLies ==
  ASSUME NEW path, \A p \in ToSet(path) : OnIt(p)
  PROVE  LinesLie(<<path>>)
<1>1. IsSequence(<<path>>) /\ ToSet(<<path>>) = {path}
  BY FewElements, Zenon
<1> QED
  BY <1>1 DEF LinesLie

\* A line between two points of the picture.
LEMMA LineLies ==
  ASSUME NEW p, NEW q, OnIt(p), OnIt(q)
  PROVE  LinesLie(<< <<p, q>> >>)
<1>1. ToSet(<<p, q>>) = {p, q}
  BY FewElements, Zenon
<1>2. \A r \in ToSet(<<p, q>>) : OnIt(r)
  BY <1>1
<1> DEFINE path == <<p, q>>
<1> HIDE DEF path
<1>3. \A r \in ToSet(path) : OnIt(r)
  BY <1>2 DEF path
<1>4. LinesLie(<<path>>)
  BY <1>3, PathLies
<1> QED
  BY <1>4 DEF path

\* The lines of two parts.
LEMMA LinesJoin ==
  ASSUME NEW s, NEW t, LinesLie(s), LinesLie(t)
  PROVE  LinesLie(s \o t)
BY ConcatIsSequence DEF LinesLie

\* The lines and boxes of many parts.
LEMMA FlattenedLie ==
  ASSUME NEW seqs, IsSequence(seqs)
  PROVE  /\ (\A i \in DOMAIN seqs : LinesLie(seqs[i])) => LinesLie(FlattenSeq(seqs))
         /\ (\A i \in DOMAIN seqs : BoxesLie(seqs[i])) => BoxesLie(FlattenSeq(seqs))
<1>1. ASSUME \A i \in DOMAIN seqs : IsSequence(seqs[i])
      PROVE  /\ IsSequence(FlattenSeq(seqs))
             /\ ToSet(FlattenSeq(seqs)) = UNION {ToSet(seqs[i]) : i \in DOMAIN seqs}
  BY <1>1, FlattenIsSequence
<1>2. ASSUME \A i \in DOMAIN seqs : LinesLie(seqs[i])
      PROVE  LinesLie(FlattenSeq(seqs))
  BY <1>1, <1>2 DEF LinesLie
<1>3. ASSUME \A i \in DOMAIN seqs : BoxesLie(seqs[i])
      PROVE  BoxesLie(FlattenSeq(seqs))
  BY <1>1, <1>3 DEF BoxesLie
<1> QED
  BY <1>2, <1>3

\* A tick's line runs from side to side of the picture.
LEMMA GridLies ==
  ASSUME WholeFrame(line), PngPlan = "admitted"
  PROVE  LinesLie(GridPass.lines) /\ BoxesLie(GridPass.boxes)
<1> DEFINE width == Side(1) * Unit
           height == Side(2) * Unit
           Upright(v) ==
             IF Pixels(v) \in 0 .. width
             THEN << <<[x |-> Pixels(v), y |-> 0], [x |-> Pixels(v), y |-> height]>> >>
             ELSE <<>>
           Level(v) ==
             IF Pixels(v) \in 0 .. height
             THEN << <<[x |-> 0, y |-> Pixels(v)], [x |-> width, y |-> Pixels(v)]>> >>
             ELSE <<>>
           uprights == [i \in DOMAIN line.xTicks |-> Upright(line.xTicks[i])]
           levels == [i \in DOMAIN line.yTicks |-> Level(line.yTicks[i])]
           lines == FlattenSeq(uprights) \o FlattenSeq(levels)
<1>1. CanvasClip.right = width /\ CanvasClip.bottom = height /\ width \in Nat /\ height \in Nat
  BY AdmittedPicture
<1>2. GridPass.lines = (IF line.sheet.grid THEN lines ELSE <<>>) /\ GridPass.boxes = <<>>
  BY DEF GridPass, Pass
<1>3. IsSequence(uprights) /\ IsSequence(levels)
  BY MapIsSequence DEF WholeFrame
<1> HIDE DEF width, height
<1>4. \A v : LinesLie(Upright(v))
  <2> SUFFICES ASSUME NEW v PROVE LinesLie(Upright(v))
    OBVIOUS
  <2> DEFINE p == [x |-> Pixels(v), y |-> 0]
             q == [x |-> Pixels(v), y |-> height]
  <2>1. Pixels(v) \in 0 .. width => OnIt(p) /\ OnIt(q)
    BY <1>1 DEF OnIt
  <2>2. Upright(v) = IF Pixels(v) \in 0 .. width THEN << <<p, q>> >> ELSE <<>>
    OBVIOUS
  <2> HIDE DEF p, q, Upright
  <2> QED
    BY <2>1, <2>2, LineLies, NothingLies
<1>5. \A v : LinesLie(Level(v))
  <2> SUFFICES ASSUME NEW v PROVE LinesLie(Level(v))
    OBVIOUS
  <2> DEFINE p == [x |-> 0, y |-> Pixels(v)]
             q == [x |-> width, y |-> Pixels(v)]
  <2>1. Pixels(v) \in 0 .. height => OnIt(p) /\ OnIt(q)
    BY <1>1 DEF OnIt
  <2>2. Level(v) = IF Pixels(v) \in 0 .. height THEN << <<p, q>> >> ELSE <<>>
    OBVIOUS
  <2> HIDE DEF p, q, Level
  <2> QED
    BY <2>1, <2>2, LineLies, NothingLies
<1> HIDE DEF Upright, Level
<1>6. /\ \A i \in DOMAIN uprights : LinesLie(uprights[i])
      /\ \A i \in DOMAIN levels : LinesLie(levels[i])
  BY <1>4, <1>5
<1> HIDE DEF uprights, levels
<1>7. LinesLie(FlattenSeq(uprights)) /\ LinesLie(FlattenSeq(levels))
  BY <1>3, <1>6, FlattenedLie
<1>8. LinesLie(lines)
  BY <1>7, LinesJoin
<1> HIDE DEF lines
<1> QED
  BY <1>2, <1>8, NothingLies

\* A series' paths lie where the plan has looked.
LEMMA SeriesLies ==
  ASSUME WholeFrame(line), PngPlan = "admitted", NEW s \in DOMAIN line.series
  PROVE  LinesLie(SeriesPass(s).lines) /\ BoxesLie(SeriesPass(s).boxes)
<1> DEFINE paths == line.series[s]
           Drawn(path) == IF HasLength(path) THEN <<path>> ELSE <<>>
           drawn == [i \in DOMAIN paths |-> Drawn(InPixels(paths[i]))]
<1>1. SeriesPass(s).lines = FlattenSeq(drawn) /\ SeriesPass(s).boxes = <<>>
  BY DEF SeriesPass, Pass
<1>2. IsSequence(drawn)
  BY MapIsSequence DEF WholeFrame
<1>3. ASSUME NEW i \in DOMAIN paths, NEW p \in ToSet(InPixels(paths[i]))
      PROVE  OnIt(p)
  <2>1. PICK k \in DOMAIN paths[i] : p = [x |-> Pixels(paths[i][k].x), y |-> Pixels(paths[i][k].y)]
    BY DEF InPixels, ToSet
  <2>2. paths[i][k] \in AllPoints
    BY DEF AllPoints, ToSet
  <2>3. OnPicture(paths[i][k])
    BY <2>2, AdmittedPicture
  <2>4. CanvasClip.right = Side(1) * Unit /\ CanvasClip.bottom = Side(2) * Unit
    BY AdmittedPicture
  <2> QED
    BY <2>1, <2>3, <2>4, Zenon DEF OnPicture, OnIt
<1>4. \A i \in DOMAIN drawn : LinesLie(drawn[i])
  BY <1>3, PathLies, NothingLies
<1> HIDE DEF drawn
<1> QED
  BY <1>1, <1>2, <1>4, FlattenedLie, NothingLies

-----------------------------------------------------------------------------
(* Text and annotations *)

\* A box cut at the canvas lies on it, or nothing of it is left.
LEMMA CanvasCutLies ==
  ASSUME WholeFrame(line), PngPlan = "admitted", NEW box, IsBox(box)
  PROVE  /\ BoxesLie(OnCanvas(box))
         /\ DOMAIN OnCanvas(box) \subseteq {1}
<1> DEFINE right == CanvasClip.right
           bottom == CanvasClip.bottom
           a == Clamp(box.left, right)
           b == Clamp(box.top, bottom)
           c == Clamp(box.right, right)
           d == Clamp(box.bottom, bottom)
           cut == Box(a, b, c, d)
<1>1. right \in Nat /\ bottom \in Nat
  BY AdmittedPicture
<1>2. a \in 0 .. right /\ b \in 0 .. bottom /\ c \in 0 .. right /\ d \in 0 .. bottom
  <2> HIDE DEF right, bottom
  <2> QED
    BY <1>1, ClampStaysWithin DEF IsBox
<1>3. OnCanvas(box) = IF cut.left < cut.right /\ cut.top < cut.bottom THEN <<cut>> ELSE <<>>
  BY DEF OnCanvas
<1>4. cut.left = a /\ cut.top = b /\ cut.right = c /\ cut.bottom = d
  BY DEF Box
<1>5. CASE ~(cut.left < cut.right /\ cut.top < cut.bottom)
  BY <1>3, <1>5, NothingLies
<1>6. CASE cut.left < cut.right /\ cut.top < cut.bottom
  <2>1. OnCanvas(box) = <<cut>>
    BY <1>3, <1>6
  <2> HIDE DEF a, b, c, d
  <2>2. IsBox(cut) /\ Within(cut, CanvasClip)
    <3> HIDE DEF cut
    <3> QED
      BY <1>1, <1>2, <1>4, <1>6 DEF IsBox, Within
  <2> HIDE DEF cut
  <2>3. IsSequence(<<cut>>) /\ ToSet(<<cut>>) = {cut} /\ DOMAIN <<cut>> = {1}
    BY FewElements, Zenon
  <2> QED
    BY <2>1, <2>2, <2>3 DEF BoxesLie
<1> QED
  BY <1>5, <1>6

\* Lengths in pixels are numbers.
LEMMA PixelsAreNumbers ==
  ASSUME WholeFrame(line), NEW a \in Int
  PROVE  Pixels(a) \in Int
BY PixelsRise

\* Glyphs are painted where their cells are on the picture.
LEMMA TextLies ==
  ASSUME WholeFrame(line), PngPlan = "admitted"
  PROVE  LinesLie(TextPass.lines) /\ BoxesLie(TextPass.boxes)
<1> DEFINE cells == [i \in DOMAIN Glyphs |-> GlyphCell(Glyphs[i])]
<1>1. TextPass.lines = <<>> /\ TextPass.boxes = FlattenSeq(cells)
  BY DEF TextPass, Pass
<1>2. IsSequence(cells) /\ DOMAIN Glyphs = 1 .. Len(Glyphs)
  BY GlyphsAreSequence, MapIsSequence, SequenceDomain
<1>3. ASSUME NEW i \in DOMAIN Glyphs
      PROVE  BoxesLie(cells[i])
  <2> DEFINE p == Glyphs[i]
             box == Box(Pixels(p.x), Pixels(p.y), Pixels(p.x + 5 * Unit), Pixels(p.y + 7 * Unit))
  <2>1. p.x \in Int /\ p.y \in Int /\ Unit \in Int
    BY <1>2, AdmittedPicture, GlyphsAreNumbers, FrameAssumption
  <2> DEFINE right == p.x + 5 * Unit
             bottom == p.y + 7 * Unit
  <2>2. right \in Int /\ bottom \in Int
    <3> HIDE DEF p
    <3> QED
      BY <2>1
  <2>3. cells[i] = OnCanvas(box)
    BY DEF GlyphCell
  <2>4. IsBox(box)
    <3>1. /\ box.left = Pixels(p.x) /\ box.top = Pixels(p.y)
          /\ box.right = Pixels(right) /\ box.bottom = Pixels(bottom)
      BY DEF Box
    <3> HIDE DEF p, right, bottom, box
    <3> QED
      BY <2>1, <2>2, <3>1, PixelsAreNumbers DEF IsBox
  <2> HIDE DEF box, cells
  <2> QED
    BY <2>3, <2>4, CanvasCutLies
<1>4. \A i \in DOMAIN cells : BoxesLie(cells[i])
  BY <1>3
<1> HIDE DEF cells
<1>5. BoxesLie(FlattenSeq(cells))
  BY <1>2, <1>4, FlattenedLie
<1> QED
  BY <1>1, <1>5, NothingLies

\* A place of numbers.
IsPlace(p) == p.x \in Int /\ p.y \in Int

\* Of a few whole numbers there is a least and a greatest.
LEMMA ExtremesOfFew ==
  ASSUME NEW a \in Int, NEW b \in Int, NEW c \in Int, NEW d \in Int
  PROVE  Min({a, b, c, d}) \in Int /\ Max({a, b, c, d}) \in Int
<1> DEFINE K == {a, b, c, d}
<1>1. \E x \in K : \A y \in K : x <= y
  OBVIOUS
<1>2. \E x \in K : \A y \in K : x >= y
  OBVIOUS
<1>3. K \subseteq Int
  OBVIOUS
<1> HIDE DEF K
<1>4. Min(K) \in K
  BY <1>1 DEF Min
<1>5. Max(K) \in K
  BY <1>2 DEF Max
<1>6. Min(K) \in Int /\ Max(K) \in Int
  BY <1>3, <1>4, <1>5
<1> QED
  BY <1>6 DEF K

\* The box around four places is one of numbers.
LEMMA AroundFew ==
  ASSUME NEW p, NEW q, NEW r, NEW s, IsPlace(p), IsPlace(q), IsPlace(r), IsPlace(s)
  PROVE  IsBox(Around({p, q, r, s}))
<1> DEFINE points == {p, q, r, s}
           xs == {w.x : w \in points}
           ys == {w.y : w \in points}
<1>1. xs = {p.x, q.x, r.x, s.x} /\ ys = {p.y, q.y, r.y, s.y}
  OBVIOUS
<1>2. /\ Min({p.x, q.x, r.x, s.x}) \in Int /\ Max({p.x, q.x, r.x, s.x}) \in Int
      /\ Min({p.y, q.y, r.y, s.y}) \in Int /\ Max({p.y, q.y, r.y, s.y}) \in Int
  BY ExtremesOfFew DEF IsPlace
<1> HIDE DEF xs, ys
<1>3. Min(xs) \in Int /\ Max(xs) \in Int /\ Min(ys) \in Int /\ Max(ys) \in Int
  BY <1>1, <1>2
<1>4. Around(points) = Box(Min(xs), Min(ys), Max(xs), Max(ys))
  BY DEF Around, xs, ys
<1> HIDE DEF points
<1>5. IsBox(Around(points))
  BY <1>3, <1>4 DEF IsBox, Box
<1> QED
  BY <1>5 DEF points

\* A mark of a valid layout has its bounds at numbers, and its shaft if it has one.
LEMMA BoundsAreNumbers ==
  ASSUME NEW mark, MarkValid(mark)
  PROVE  /\ IsBox(mark.bounds)
         /\ mark.shape.kind \in MarkKinds
         /\ mark.shape.kind # "Text" => IsPlace(mark.shape.from) /\ IsPlace(mark.shape.to)
<1> DEFINE shape == mark.shape
           kind == shape.kind
<1>1. ShapeValid(shape) /\ mark.bounds = LocalBounds(shape)
  BY DEF MarkValid
<1> HIDE DEF shape
<1>2. kind \in MarkKinds
  BY <1>1, Zenon DEF ShapeValid, MarkKinds
<1>3. kind = "Text" => {shape.at, shape.half} \subseteq Values
  BY <1>1, <1>2 DEF ShapeValid
<1>4. kind # "Text" => {shape.from, shape.to} \subseteq Values
  BY <1>1, <1>2, Zenon DEF ShapeValid
<1>5. kind = "Arrow" => shape.head \in Int
  BY <1>1, <1>2 DEF ShapeValid
<1>6. CASE kind = "Text"
  <2>1. IsPlace(shape.at) /\ IsPlace(shape.half)
    BY <1>3, <1>6 DEF IsPlace, Values
  <2>2. LocalBounds(shape) = Box(shape.at.x - shape.half.x, shape.at.y - shape.half.y,
                                 shape.at.x + shape.half.x, shape.at.y + shape.half.y)
    BY <1>6 DEF LocalBounds
  <2>3. IsBox(LocalBounds(shape))
    BY <2>1, <2>2 DEF IsPlace, IsBox, Box
  <2> QED
    BY <1>1, <1>2, <1>6, <2>3 DEF shape
<1>7. CASE kind # "Text"
  <2> DEFINE box == Around({shape.from, shape.to})
             widened == IF kind = "Arrow" THEN shape.head ELSE 0
  <2>1. IsPlace(shape.from) /\ IsPlace(shape.to)
    BY <1>4, <1>7 DEF IsPlace, Values
  <2>2. IsBox(box)
    <3>1. {shape.from, shape.to} = {shape.from, shape.to, shape.to, shape.to}
      OBVIOUS
    <3>2. IsBox(Around({shape.from, shape.to, shape.to, shape.to}))
      BY <2>1, AroundFew
    <3> QED
      BY <3>1, <3>2
  <2>3. widened \in Int
    BY <1>5
  <2>4. LocalBounds(shape) = Box(box.left - widened, box.top - widened,
                                 box.right + widened, box.bottom + widened)
    BY <1>7 DEF LocalBounds
  <2> HIDE DEF box, widened
  <2>5. IsBox(LocalBounds(shape))
    BY <2>2, <2>3, <2>4 DEF IsBox, Box
  <2> QED
    BY <1>1, <1>2, <2>1, <2>5 DEF shape
<1> QED
  BY <1>6, <1>7

\* A valid transform moves places to places.
LEMMA MovedIsPlace ==
  ASSUME NEW t \in Affine, NEW p, IsPlace(p)
  PROVE  IsPlace(Moved(t, p))
<1>1. t[1] \in Int /\ t[2] \in Int /\ t[3] \in Int /\ t[4] \in Int /\ t[5] \in Int /\ t[6] \in Int
  BY DEF Affine
<1> DEFINE a == t[1]
           b == t[2]
           c == t[3]
           d == t[4]
           e == t[5]
           f == t[6]
           x == p.x
           y == p.y
<1>2. Moved(t, p) = [x |-> a * x + b * y + c, y |-> d * x + e * y + f]
  BY DEF Moved
<1>3. x \in Int /\ y \in Int
  BY DEF IsPlace
<1>4. a \in Int /\ b \in Int /\ c \in Int /\ d \in Int /\ e \in Int /\ f \in Int
  BY <1>1
<1> HIDE DEF a, b, c, d, e, f, x, y
<1>5. a * x \in Int /\ b * y \in Int /\ d * x \in Int /\ e * y \in Int
  BY <1>3, <1>4
<1> DEFINE ax == a * x
           by == b * y
           dx == d * x
           ey == e * y
<1>6. Moved(t, p) = [x |-> ax + by + c, y |-> dx + ey + f]
  BY <1>2
<1>7. ax \in Int /\ by \in Int /\ dx \in Int /\ ey \in Int
  BY <1>5
<1> HIDE DEF ax, by, dx, ey
<1> QED
  BY <1>4, <1>6, <1>7 DEF IsPlace

\* Whole units are numbers in parts and in pixels.
LEMMA UnitsAreNumbers ==
  ASSUME WholeFrame(line), NEW a \in Int
  PROVE  Unit * a \in Int /\ Pixels(Unit * a) \in Int
<1>1. Unit \in Int
  BY FrameAssumption
<1>2. Unit * a \in Int
  BY <1>1
<1> QED
  BY <1>2, PixelsAreNumbers

\* An annotation's box is cut at the canvas wherever its corners are moved.
LEMMA MarkBoxLies ==
  ASSUME WholeFrame(line), PngPlan = "admitted", NEW mark, MarkValid(mark)
  PROVE  BoxesLie(MarkBox(mark)) /\ DOMAIN MarkBox(mark) \subseteq {1}
<1> DEFINE b == mark.bounds
           Corner(x, y) == Moved(mark.transform, [x |-> x, y |-> y])
           corners == {Moved(mark.transform, [x |-> x, y |-> y]) :
                         x \in {mark.bounds.left, mark.bounds.right},
                         y \in {mark.bounds.top, mark.bounds.bottom}}
           InPixel(p) == [x |-> Pixels(Unit * p.x), y |-> Pixels(Unit * p.y)]
           k == Corner(b.left, b.top)
           l == Corner(b.left, b.bottom)
           m == Corner(b.right, b.top)
           n == Corner(b.right, b.bottom)
           points == {InPixel(p) : p \in corners}
<1>1. mark.transform \in Affine
  BY DEF MarkValid
<1>2. IsBox(b)
  BY BoundsAreNumbers
<1>3. \A x, y \in Int : IsPlace(Corner(x, y))
  <2> SUFFICES ASSUME NEW x \in Int, NEW y \in Int PROVE IsPlace(Corner(x, y))
    OBVIOUS
  <2> DEFINE p == [x |-> x, y |-> y]
  <2>1. IsPlace(p)
    BY DEF IsPlace
  <2> HIDE DEF p
  <2>2. IsPlace(Moved(mark.transform, p))
    BY <1>1, <2>1, MovedIsPlace
  <2> QED
    BY <2>2 DEF p
<1>4. corners = {k, l, m, n}
  <2>1. \A z : z \in corners <=> \E x \in {b.left, b.right}, y \in {b.top, b.bottom} : z = Corner(x, y)
    OBVIOUS
  <2> HIDE DEF corners, Corner, b
  <2>2. \A z : z \in corners <=> z = k \/ z = l \/ z = m \/ z = n
    BY <2>1
  <2> QED
    BY <2>2
<1>5. MarkBox(mark) = OnCanvas(Around(points))
  BY DEF MarkBox
<1> HIDE DEF Corner, corners
<1>6. IsPlace(k) /\ IsPlace(l) /\ IsPlace(m) /\ IsPlace(n)
  BY <1>2, <1>3 DEF IsBox
<1>7. \A p : IsPlace(p) => IsPlace(InPixel(p))
  <2> SUFFICES ASSUME NEW p, IsPlace(p) PROVE IsPlace(InPixel(p))
    OBVIOUS
  <2>1. Pixels(Unit * p.x) \in Int /\ Pixels(Unit * p.y) \in Int
    BY UnitsAreNumbers DEF IsPlace
  <2> QED
    BY <2>1 DEF IsPlace
<1> HIDE DEF InPixel, k, l, m, n
<1>8. points = {InPixel(k), InPixel(l), InPixel(m), InPixel(n)}
  BY <1>4
<1>9. IsBox(Around(points))
  <2> DEFINE kk == InPixel(k)
             ll == InPixel(l)
             mm == InPixel(m)
             nn == InPixel(n)
  <2>1. IsPlace(kk) /\ IsPlace(ll) /\ IsPlace(mm) /\ IsPlace(nn)
    BY <1>6, <1>7
  <2>2. points = {kk, ll, mm, nn}
    BY <1>8
  <2> HIDE DEF kk, ll, mm, nn, points
  <2>3. IsBox(Around({kk, ll, mm, nn}))
    BY <2>1, AroundFew
  <2> QED
    BY <2>2, <2>3
<1> HIDE DEF points
<1> QED
  BY <1>5, <1>9, CanvasCutLies

\* The outline of a box on the picture.
LEMMA OutlineLies ==
  ASSUME WholeFrame(line), PngPlan = "admitted", NEW box, IsBox(box), Within(box, CanvasClip)
  PROVE  IsSequence(Outline(box)) /\ \A p \in ToSet(Outline(box)) : OnIt(p)
<1> DEFINE a == [x |-> box.left, y |-> box.top]
           b == [x |-> box.right, y |-> box.top]
           c == [x |-> box.right, y |-> box.bottom]
           d == [x |-> box.left, y |-> box.bottom]
           corners == {a, b, c, d}
<1>1. OnIt(a) /\ OnIt(b) /\ OnIt(c) /\ OnIt(d)
  BY AdmittedPicture DEF IsBox, Within, OnIt
<1>2. Outline(box) = <<a, b, c, d, a>>
  BY DEF Outline
<1> HIDE DEF a, b, c, d
<1>3. \A p \in corners : OnIt(p)
  BY <1>1
<1>4. Outline(box) \in Seq(corners)
  BY <1>2
<1> HIDE DEF corners
<1>5. ToSet(Outline(box)) \subseteq corners
  <2> DEFINE s == Outline(box)
  <2> HIDE DEF s
  <2>1. \A A : s \in Seq(A) => ToSet(s) \subseteq A
    BY DEF ToSet
  <2> QED
    BY <1>4, <2>1 DEF s
<1> QED
  BY <1>3, <1>4, <1>5, SeqIsSequence

\* A shaft that would leave the picture is left out.
LEMMA ShaftLies ==
  ASSUME WholeFrame(line), PngPlan = "admitted", NEW mark
  PROVE  LinesLie(MarkShaft(mark))
<1> DEFINE Placed(p) == [x |-> Unit * Moved(mark.transform, p).x,
                         y |-> Unit * Moved(mark.transform, p).y]
           p == Placed(mark.shape.from)
           q == Placed(mark.shape.to)
           ends == <<p, q>>
           At(r) == [x |-> Pixels(r.x), y |-> Pixels(r.y)]
<1>1. MarkShaft(mark) = IF OnPicture(p) /\ OnPicture(q) /\ HasLength(InPixels(ends))
                        THEN <<InPixels(ends)>> ELSE <<>>
  BY DEF MarkShaft
<1>2. \A r : OnPicture(r) => OnIt(At(r))
  BY AdmittedPicture DEF OnPicture, OnIt
<1> HIDE DEF Placed, p, q
<1>3. InPixels(ends) = <<At(p), At(q)>>
  BY DEF InPixels
<1> HIDE DEF ends, At
<1>4. OnPicture(p) /\ OnPicture(q) => LinesLie(<<InPixels(ends)>>)
  BY <1>2, <1>3, LineLies
<1> QED
  BY <1>1, <1>4, NothingLies

\* All that is painted of an annotation lies on the picture.
LEMMA MarkLies ==
  ASSUME WholeFrame(line), PngPlan = "admitted", NEW mark, MarkValid(mark)
  PROVE  LinesLie(MarkLines(mark)) /\ BoxesLie(MarkBoxes(mark))
<1> DEFINE boxes == MarkBox(mark)
           outlines == [i \in DOMAIN boxes |-> Outline(boxes[i])]
<1>1. BoxesLie(boxes)
  BY MarkBoxLies
<1>2. BoxesLie(MarkBoxes(mark))
  BY <1>1, NothingLies DEF MarkBoxes
<1>3. LinesLie(outlines)
  <2>1. IsSequence(outlines)
    BY <1>1, MapIsSequence DEF BoxesLie
  <2>2. \A i \in DOMAIN boxes : boxes[i] \in ToSet(boxes)
    BY DEF ToSet
  <2> HIDE DEF boxes
  <2>3. ASSUME NEW path \in ToSet(outlines)
        PROVE  \A p \in ToSet(path) : OnIt(p)
    <3>1. PICK i \in DOMAIN boxes : path = Outline(boxes[i])
      BY DEF ToSet
    <3>2. IsBox(boxes[i]) /\ Within(boxes[i], CanvasClip)
      BY <1>1, <2>2 DEF BoxesLie
    <3> QED
      BY <3>1, <3>2, OutlineLies
  <2> QED
    BY <2>1, <2>3 DEF LinesLie
<1>4. LinesLie(MarkShaft(mark))
  BY ShaftLies
<1>5. LinesLie(MarkLines(mark))
  <2>1. MarkLines(mark) \in {<<>>, outlines, MarkShaft(mark)}
    BY DEF MarkLines
  <2> HIDE DEF outlines, boxes
  <2> QED
    BY <1>3, <1>4, <2>1, NothingLies
<1> QED
  BY <1>2, <1>5

\* And of all annotations.
LEMMA AnnotationsLie ==
  ASSUME WholeFrame(line), PngPlan = "admitted"
  PROVE  LinesLie(AnnotationPass.lines) /\ BoxesLie(AnnotationPass.boxes)
<1> DEFINE marks == line.layout.marks
           lines == [i \in DOMAIN marks |-> MarkLines(marks[i])]
           boxes == [i \in DOMAIN marks |-> MarkBoxes(marks[i])]
<1>1. AnnotationPass.lines = FlattenSeq(lines) /\ AnnotationPass.boxes = FlattenSeq(boxes)
  BY DEF AnnotationPass, Pass
<1>2. IsSequence(lines) /\ IsSequence(boxes)
  BY MapIsSequence DEF WholeFrame
<1>3. \A i \in DOMAIN marks : MarkValid(marks[i])
  BY AdmittedPicture DEF LayoutIsValid, ToSet
<1>4. \A i \in DOMAIN marks : LinesLie(lines[i]) /\ BoxesLie(boxes[i])
  BY <1>3, MarkLies
<1>5. /\ \A i \in DOMAIN lines : LinesLie(lines[i])
      /\ \A i \in DOMAIN boxes : BoxesLie(boxes[i])
  BY <1>4
<1> HIDE DEF lines, boxes
<1>6. LinesLie(FlattenSeq(lines)) /\ BoxesLie(FlattenSeq(boxes))
  BY <1>2, <1>5, FlattenedLie
<1> QED
  BY <1>1, <1>6

\* All there is to paint lies on the picture.
LEMMA PassesLie ==
  ASSUME WholeFrame(line), PngPlan = "admitted"
  PROVE  /\ IsSequence(Passes)
         /\ \A pass \in ToSet(Passes) : LinesLie(pass.lines) /\ BoxesLie(pass.boxes)
<1> DEFINE series == [s \in DOMAIN line.series |-> SeriesPass(s)]
           first == <<GridPass>>
           last == <<TextPass, AnnotationPass>>
           Lies(pass) == LinesLie(pass.lines) /\ BoxesLie(pass.boxes)
<1>1. IsSequence(series) /\ \A pass \in ToSet(series) : Lies(pass)
  <2>1. IsSequence(series)
    BY MapIsSequence DEF WholeFrame
  <2>2. ASSUME NEW pass \in ToSet(series) PROVE Lies(pass)
    <3>1. PICK s \in DOMAIN line.series : pass = SeriesPass(s)
      BY DEF ToSet
    <3> QED
      BY <3>1, SeriesLies
  <2> QED
    BY <2>1, <2>2
<1>2. IsSequence(first) /\ \A pass \in ToSet(first) : Lies(pass)
  <2>1. IsSequence(first) /\ ToSet(first) = {GridPass}
    BY FewElements, Zenon
  <2>2. Lies(GridPass)
    BY GridLies
  <2> HIDE DEF first, Lies
  <2> QED
    BY <2>1, <2>2
<1>3. IsSequence(last) /\ \A pass \in ToSet(last) : Lies(pass)
  <2>1. IsSequence(last) /\ ToSet(last) = {TextPass, AnnotationPass}
    BY FewElements
  <2> HIDE DEF last
  <2> QED
    BY <2>1, TextLies, AnnotationsLie
<1>4. Passes = first \o series \o last
  BY DEF Passes
<1> HIDE DEF first, series, last, Lies
<1>5. IsSequence(first \o series) /\ \A pass \in ToSet(first \o series) : Lies(pass)
  BY <1>1, <1>2, ConcatIsSequence
<1>6. IsSequence(Passes) /\ \A pass \in ToSet(Passes) : Lies(pass)
  BY <1>3, <1>4, <1>5, ConcatIsSequence
<1> QED
  BY <1>6 DEF Lies

-----------------------------------------------------------------------------
(* The strokes of an admitted picture *)

\* Lines of which none stays at its start.
Runs(lines) == IsSequence(lines) /\ \A path \in ToSet(lines) : ~StaysAtStart(path)

\* A line of a pixel or more is no fine one.
LEMMA LineRuns ==
  ASSUME NEW x0 \in Int, NEW y0 \in Int, NEW x1 \in Int, NEW y1 \in Int,
         x1 - x0 >= Unit \/ y1 - y0 >= Unit
  PROVE  Runs(<< <<[x |-> x0, y |-> y0], [x |-> x1, y |-> y1]>> >>)
<1> DEFINE p == [x |-> x0, y |-> y0]
           q == [x |-> x1, y |-> y1]
           path == <<p, q>>
<1>1. ToSet(path) = {p, q}
  BY FewElements, Zenon
<1>2. path[1].x = x0 /\ path[1].y = y0 /\ q.x = x1 /\ q.y = y1
  OBVIOUS
<1>3. ~(q.x - path[1].x \in (-Fine) .. Fine /\ q.y - path[1].y \in (-Fine) .. Fine)
  BY <1>2, StrokeAssumption, FrameAssumption
<1>4. ~StaysAtStart(path)
  <2> HIDE DEF p, q, path
  <2> QED
    BY <1>1, <1>3 DEF StaysAtStart
<1> HIDE DEF p, q, path
<1>5. IsSequence(<<path>>) /\ ToSet(<<path>>) = {path}
  BY FewElements, Zenon
<1>6. Runs(<<path>>)
  BY <1>4, <1>5 DEF Runs
<1> QED
  BY <1>6 DEF path, p, q

\* No lines, and those of many parts.
LEMMA FlattenedRun ==
  /\ Runs(<<>>)
  /\ \A seqs : IsSequence(seqs) /\ (\A i \in DOMAIN seqs : Runs(seqs[i])) => Runs(FlattenSeq(seqs))
  /\ \A s, t : Runs(s) /\ Runs(t) => Runs(s \o t)
<1>1. Runs(<<>>)
  BY FewElements DEF Runs
<1>2. ASSUME NEW seqs, IsSequence(seqs), \A i \in DOMAIN seqs : Runs(seqs[i])
      PROVE  Runs(FlattenSeq(seqs))
  <2>1. /\ IsSequence(FlattenSeq(seqs))
        /\ ToSet(FlattenSeq(seqs)) = UNION {ToSet(seqs[i]) : i \in DOMAIN seqs}
    BY <1>2, FlattenIsSequence DEF Runs
  <2> QED
    BY <1>2, <2>1 DEF Runs
<1>3. ASSUME NEW s, NEW t, Runs(s), Runs(t)
      PROVE  Runs(s \o t)
  BY <1>3, ConcatIsSequence DEF Runs
<1> QED
  BY <1>1, <1>2, <1>3

\* A tick's line is as long as the picture's side, a pixel at least.
LEMMA GridRuns ==
  ASSUME WholeFrame(line), PngPlan = "admitted"
  PROVE  Runs(GridPass.lines)
<1> DEFINE width == Side(1) * Unit
           height == Side(2) * Unit
           Upright(v) ==
             IF Pixels(v) \in 0 .. width
             THEN << <<[x |-> Pixels(v), y |-> 0], [x |-> Pixels(v), y |-> height]>> >>
             ELSE <<>>
           Level(v) ==
             IF Pixels(v) \in 0 .. height
             THEN << <<[x |-> 0, y |-> Pixels(v)], [x |-> width, y |-> Pixels(v)]>> >>
             ELSE <<>>
           uprights == [i \in DOMAIN line.xTicks |-> Upright(line.xTicks[i])]
           levels == [i \in DOMAIN line.yTicks |-> Level(line.yTicks[i])]
           lines == FlattenSeq(uprights) \o FlattenSeq(levels)
<1>1. width \in Int /\ height \in Int /\ width >= Unit /\ height >= Unit
  <2> DEFINE side(k) == Side(k)
  <2>1. side(1) \in 1 .. MaxDimension /\ side(2) \in 1 .. MaxDimension
    BY AdmittedPicture
  <2>2. MaxDimension \in Nat /\ Unit \in Nat
    BY ExportAssumption, FrameAssumption
  <2> HIDE DEF side
  <2>3. \A n \in 1 .. MaxDimension : n * Unit \in Int /\ n * Unit >= Unit
    BY <2>2
  <2>4. /\ side(1) * Unit \in Int /\ side(2) * Unit \in Int
        /\ side(1) * Unit >= Unit /\ side(2) * Unit >= Unit
    BY <2>1, <2>3
  <2> QED
    BY <2>4 DEF side
<1>2. GridPass.lines = IF line.sheet.grid THEN lines ELSE <<>>
  BY DEF GridPass, Pass
<1>3. IsSequence(uprights) /\ IsSequence(levels)
  BY MapIsSequence DEF WholeFrame
<1> HIDE DEF width, height
<1>4. \A v : Runs(Upright(v))
  <2> SUFFICES ASSUME NEW v PROVE Runs(Upright(v))
    OBVIOUS
  <2> DEFINE at == Pixels(v)
             drawn == << <<[x |-> at, y |-> 0], [x |-> at, y |-> height]>> >>
  <2>1. Upright(v) = IF at \in 0 .. width THEN drawn ELSE <<>>
    OBVIOUS
  <2> HIDE DEF at, Upright
  <2>2. at \in 0 .. width => Runs(drawn)
    BY <1>1, LineRuns
  <2> HIDE DEF drawn
  <2> QED
    BY <2>1, <2>2, FlattenedRun
<1>5. \A v : Runs(Level(v))
  <2> SUFFICES ASSUME NEW v PROVE Runs(Level(v))
    OBVIOUS
  <2> DEFINE at == Pixels(v)
             drawn == << <<[x |-> 0, y |-> at], [x |-> width, y |-> at]>> >>
  <2>1. Level(v) = IF at \in 0 .. height THEN drawn ELSE <<>>
    OBVIOUS
  <2> HIDE DEF at, Level
  <2>2. at \in 0 .. height => Runs(drawn)
    BY <1>1, LineRuns
  <2> HIDE DEF drawn
  <2> QED
    BY <2>1, <2>2, FlattenedRun
<1> HIDE DEF Upright, Level
<1>6. /\ \A i \in DOMAIN uprights : Runs(uprights[i])
      /\ \A i \in DOMAIN levels : Runs(levels[i])
  BY <1>4, <1>5
<1> HIDE DEF uprights, levels
<1>7. Runs(FlattenSeq(uprights)) /\ Runs(FlattenSeq(levels))
  BY <1>3, <1>6, FlattenedRun
<1>8. Runs(lines)
  BY <1>7, FlattenedRun
<1> HIDE DEF lines
<1> QED
  BY <1>2, <1>8, FlattenedRun

\* The kinds of passes: the grid is a pixel broad and its lines run, a curve is as
\* broad as the plan has seen, text has no lines.
IsSome(pass) ==
  \/ pass.pass = "grid" /\ pass.width = Unit /\ Runs(pass.lines)
  \/ pass.pass = "series" /\ pass.width \in 1 .. LargestFloat
  \/ pass.pass = "text" /\ pass.width = 0 /\ pass.lines = <<>>
  \/ pass.pass = "annotations" /\ pass.width \in Int

\* Every pass of an admitted picture is of one of them.
LEMMA PassesAreSome ==
  ASSUME WholeFrame(line), PngPlan = "admitted"
  PROVE  \A pass \in ToSet(Passes) : IsSome(pass)
<1> DEFINE series == [s \in DOMAIN line.series |-> SeriesPass(s)]
           first == <<GridPass>>
           last == <<TextPass, AnnotationPass>>
<1>1. IsSequence(series) /\ \A pass \in ToSet(series) : IsSome(pass)
  <2>1. IsSequence(series)
    BY MapIsSequence DEF WholeFrame
  <2>2. ASSUME NEW pass \in ToSet(series) PROVE IsSome(pass)
    <3>1. PICK s \in DOMAIN line.series : pass = SeriesPass(s)
      BY <2>2 DEF ToSet
    <3>2. line.series # <<>>
      BY <3>1
    <3>3. Pixels(line.sheet.style.width) \in 1 .. LargestFloat
      <4>1. "admitted" # "InvalidInput" /\ "admitted" # "CapacityExceeded"
        OBVIOUS
      <4> QED
        BY <3>2, <4>1, Zenon DEF PngPlan
    <3>4. pass.pass = "series" /\ pass.width = Pixels(line.sheet.style.width)
      BY <3>1 DEF SeriesPass, Pass
    <3> QED
      BY <3>3, <3>4, Zenon DEF IsSome
  <2> QED
    BY <2>1, <2>2
<1>2. IsSequence(first) /\ \A pass \in ToSet(first) : IsSome(pass)
  <2>1. IsSequence(first) /\ ToSet(first) = {GridPass}
    BY FewElements, Zenon
  <2>2. GridPass.pass = "grid" /\ GridPass.width = Unit
    BY DEF GridPass, Pass
  <2>3. IsSome(GridPass)
    BY <2>2, GridRuns, Zenon DEF IsSome
  <2> HIDE DEF first
  <2> QED
    BY <2>1, <2>3
<1>3. IsSequence(last) /\ \A pass \in ToSet(last) : IsSome(pass)
  <2>1. IsSequence(last) /\ ToSet(last) = {TextPass, AnnotationPass}
    BY FewElements
  <2>2. TextPass.pass = "text" /\ TextPass.width = 0 /\ TextPass.lines = <<>>
    BY DEF TextPass, Pass
  <2>3. AnnotationPass.pass = "annotations" /\ AnnotationPass.width = Pixels(Unit)
    BY DEF AnnotationPass, Pass
  <2>4. Pixels(Unit) \in Int
    BY PixelsAreNumbers, FrameAssumption
  <2>5. IsSome(TextPass)
    BY <2>2, Zenon DEF IsSome
  <2>6. IsSome(AnnotationPass)
    BY <2>3, <2>4, Zenon DEF IsSome
  <2> HIDE DEF last
  <2> QED
    BY <2>1, <2>5, <2>6
<1>4. Passes = first \o series \o last
  BY DEF Passes
<1> HIDE DEF first, series, last
<1>5. IsSequence(first \o series) /\ \A pass \in ToSet(first \o series) : IsSome(pass)
  BY <1>1, <1>2, ConcatIsSequence
<1> QED
  BY <1>3, <1>4, <1>5, ConcatIsSequence

\* A stroke that is not representable on an admitted picture is broad.
LEMMA UnrepresentableIsBroad ==
  ASSUME WholeFrame(line), PngPlan = "admitted", NEW pass,
         LinesLie(pass.lines), pass.width \in Int, ~IsRepresentable(pass)
  PROVE  \E k \in {1, 2} : Side(k) * Unit + 3 * pass.width > PathBound
<1> DEFINE w == pass.width
           right == Side(1) * Unit
           bottom == Side(2) * Unit
<1>1. /\ CanvasClip.right = right /\ CanvasClip.bottom = bottom
      /\ right \in Nat /\ bottom \in Nat
  BY AdmittedPicture
<1>2. w \in Int
  OBVIOUS
<1>3. PathBound \in Int
  BY StrokeAssumption DEF PathBound
<1>4. PICK path \in ToSet(pass.lines) : \E p \in ToSet(path) : \E v \in {p.x, p.y} :
        ~(-PathBound <= v - 3 * w /\ v + 3 * w <= PathBound)
  BY Zenon DEF IsRepresentable
<1>5. PICK p \in ToSet(path) : \E v \in {p.x, p.y} :
        ~(-PathBound <= v - 3 * w /\ v + 3 * w <= PathBound)
  BY <1>4
<1>6. OnIt(p)
  BY <1>5 DEF LinesLie
<1>7. p.x \in 0 .. right /\ p.y \in 0 .. bottom
  BY <1>1, <1>6 DEF OnIt
<1> HIDE DEF w, right, bottom
<1>8. ASSUME NEW side \in Nat, NEW v \in 0 .. side,
             ~(-PathBound <= v - 3 * w /\ v + 3 * w <= PathBound)
      PROVE  side + 3 * w > PathBound
  BY <1>2, <1>3, <1>8
<1>9. right + 3 * w > PathBound \/ bottom + 3 * w > PathBound
  BY <1>1, <1>5, <1>7, <1>8
<1> QED
  BY <1>9 DEF w, right, bottom

\* What is not painted of an admitted picture is a stroke with a cause of its own.
LEMMA RefusalsHaveCauses ==
  ASSUME WholeFrame(line), PngPlan = "admitted", NEW pass \in ToSet(Passes),
         NEW result \in PassResults(pass), result # "mask"
  PROVE  MayBeRefused(pass)
<1>1. IsSome(pass)
  BY PassesAreSome
<1>2. LinesLie(pass.lines)
  BY PassesLie
<1>3. /\ LargestFloat \in Nat /\ Fine \in Nat /\ PathBound \in Int
      /\ Unit \in Nat \ {0} /\ Fine < Unit /\ MaxDimension \in Nat
      /\ PathBound <= LargestFloat /\ (MaxDimension + 3) * Unit <= PathBound
  <2>1. /\ LargestFloat \in Nat /\ Fine \in Nat /\ Fine < Unit
        /\ (MaxDimension + 3) * Unit <= PathBound
    BY StrokeAssumption
  <2>2. PathBound \in Int /\ PathBound <= LargestFloat
    BY <2>1 DEF PathBound
  <2>3. Unit \in Nat \ {0} /\ MaxDimension \in Nat
    BY FrameAssumption, ExportAssumption
  <2> QED
    BY <2>1, <2>2, <2>3
<1>4. pass.width \in Int
  BY <1>1, <1>3 DEF IsSome
<1>5. pass.lines # <<>>
  <2>1. CASE Strokes(pass) /\ pass.width \notin 1 .. LargestFloat
    <3>1. pass.pass # "series"
      BY <1>1, <2>1 DEF IsSome
    <3> QED
      BY <2>1, <3>1 DEF Strokes
  <2>2. CASE ~(Strokes(pass) /\ pass.width \notin 1 .. LargestFloat)
    BY <2>2, Zenon DEF PassResults
  <2> QED
    BY <2>1, <2>2
<1>6. \/ pass.width \notin 1 .. LargestFloat
      \/ ~IsRepresentable(pass)
      \/ IsFine(pass)
  BY <1>5, Zenon DEF PassResults, StrokeResults
<1>7. \A k \in {1, 2} : /\ Side(k) * Unit \in Nat
                        /\ Side(k) * Unit <= MaxDimension * Unit
  <2> SUFFICES ASSUME NEW k \in {1, 2}
               PROVE  Side(k) * Unit \in Nat /\ Side(k) * Unit <= MaxDimension * Unit
    OBVIOUS
  <2> DEFINE side == Side(k)
  <2>1. side \in 1 .. MaxDimension
    BY AdmittedPicture
  <2> HIDE DEF side
  <2>2. side * Unit \in Nat /\ side * Unit <= MaxDimension * Unit
    BY <1>3, <2>1
  <2> QED
    BY <2>2 DEF side
<1>8. IsFine(pass) \/ \E k \in {1, 2} : Side(k) * Unit + 3 * pass.width > PathBound
  <2> DEFINE w == pass.width
             side == Side(1) * Unit
  <2>1. CASE pass.width \notin 1 .. LargestFloat
    <3>1. w \in Int /\ side \in Nat /\ w \notin 1 .. LargestFloat
      BY <1>4, <1>7, <2>1
    <3> HIDE DEF w, side
    <3>2. w <= Fine \/ side + 3 * w > PathBound
      BY <1>3, <3>1
    <3> QED
      BY <3>2 DEF w, side, IsFine
  <2>2. CASE ~IsRepresentable(pass)
    BY <1>2, <1>4, <2>2, UnrepresentableIsBroad
  <2> QED
    BY <1>6, <2>1, <2>2
<1>9. pass.pass # "grid"
  <2> SUFFICES ASSUME pass.pass = "grid" PROVE FALSE
    OBVIOUS
  <2>1. pass.width = Unit /\ Runs(pass.lines)
    BY <1>1 DEF IsSome
  <2>2. ~IsFine(pass)
    <3>1. ~(pass.width <= Fine)
      BY <1>3, <2>1
    <3>2. \E path \in ToSet(pass.lines) : ~StaysAtStart(path)
      <4>1. ToSet(pass.lines) # {}
        <5>1. Len(pass.lines) \in Nat /\ pass.lines = [i \in 1 .. Len(pass.lines) |-> pass.lines[i]]
          BY <2>1, SequenceDomain DEF Runs
        <5>2. Len(pass.lines) # 0
          BY <1>5, <2>1 DEF Runs, IsSequence
        <5>3. pass.lines[1] \in ToSet(pass.lines)
          BY <2>1, <5>1, <5>2, SequenceDomain DEF Runs
        <5> QED
          BY <5>3
      <4> QED
        BY <2>1, <4>1 DEF Runs
    <3> QED
      BY <3>1, <3>2 DEF IsFine
  <2>3. PICK k \in {1, 2} : Side(k) * Unit + 3 * pass.width > PathBound
    BY <1>8, <2>2
  <2> DEFINE side == Side(k) * Unit
             most == MaxDimension * Unit
  <2>4. side \in Nat /\ side <= most /\ side + 3 * Unit > PathBound
    BY <1>7, <2>1, <2>3
  <2>5. most \in Nat /\ most + 3 * Unit <= PathBound
    BY <1>3
  <2> HIDE DEF side, most
  <2> QED
    BY <1>3, <2>4, <2>5
<1>10. pass.pass \in {"series", "annotations"}
  BY <1>1, <1>5, <1>9 DEF IsSome
<1> QED
  BY <1>5, <1>8, <1>10, Zenon DEF MayBeRefused

\* And what is painted of it is no broader than an outline can be.
LEMMA MadeStrokesAreModerate ==
  ASSUME NEW pass, "mask" \in PassResults(pass), pass.lines # <<>>
  PROVE  pass.width \in 1 .. (3 * PathBound)
<1>1. "mask" # "InvalidInput" /\ "mask" # "CapacityExceeded" /\ "mask" # "Internal"
  OBVIOUS
<1>2. pass.width \in 1 .. LargestFloat
  BY <1>1, Zenon DEF PassResults, Strokes
<1>3. "mask" \in StrokeResults(pass)
  BY <1>2, Zenon DEF PassResults
<1>4. ~IsTooWide(pass)
  BY <1>1, <1>3, Zenon DEF StrokeResults
<1>5. PathBound \in Int
  BY StrokeAssumption DEF PathBound
<1> QED
  BY <1>2, <1>4, <1>5, StrokeAssumption DEF IsTooWide

-----------------------------------------------------------------------------
(* The calls *)

\* While a frame is held its content, its objects and their lengths stay.
LEMMA FrameStays ==
  ASSUME line' = line
  PROVE  /\ ContentParts' = ContentParts
         /\ (pdf.content)' = pdf.content => Objects' = Objects
         /\ \A file : Length(file)' = Length(file)
<1>1. Glyphs' = Glyphs
  BY DEF Glyphs
<1>2. \A parts : Points(parts)' = Points(parts)
  BY DEF Points
<1>3. \A k : Page(k)' = Page(k)
  BY <1>2 DEF Page
<1>4. \A p : PdfPoint(p)' = PdfPoint(p)
  BY <1>2, <1>3 DEF PdfPoint
<1>5. PdfPlot' = PdfPlot
  BY <1>2, <1>3 DEF PdfPlot
<1>6. BackgroundOps' = BackgroundOps
  BY <1>3 DEF BackgroundOps
<1>7. OpenPlot' = OpenPlot
  BY <1>5 DEF OpenPlot
<1>8. GridOps' = GridOps
  BY <1>2, <1>3, <1>5 DEF GridOps
<1>9. \A s : SeriesOps(s)' = SeriesOps(s)
  BY <1>2, <1>4 DEF SeriesOps
<1>10. \A p : TextCell(p)' = TextCell(p)
  BY <1>2, <1>3 DEF TextCell
<1>11. TextOps' = TextOps
  BY <1>1, <1>10 DEF TextOps
<1>12. ContentParts' = ContentParts
  BY <1>6, <1>7, <1>8, <1>9, <1>11 DEF ContentParts
<1>13. (pdf.content)' = pdf.content => Objects' = Objects
  BY DEF Objects, InfoObject
<1>14. \A body : BodySize(body)' = BodySize(body)
  BY <1>3 DEF BodySize
<1>15. \A object : ObjectSize(object)' = ObjectSize(object)
  BY <1>14 DEF ObjectSize
<1>16. \A file : Length(file)' = Length(file)
  BY <1>15 DEF Length
<1> QED
  BY <1>12, <1>13, <1>16

\* Steps that leave the frame and the file alone.
LEMMA OthersKeepFile ==
  ASSUME ExportIInv, line' = line, pdf' = pdf
  PROVE  ExportIInv'
<1>1. /\ ContentParts' = ContentParts
      /\ Objects' = Objects
      /\ \A file : Length(file)' = Length(file)
  BY FrameStays
<1>2. FrameIsWhole'
  BY DEF ExportIInv, FrameIsWhole, WholeFrame
<1>3. FileGrows'
  BY <1>1 DEF ExportIInv, FileGrows
<1> QED
  BY <1>2, <1>3 DEF ExportIInv

\* A document that failed is dropped with all it holds.
LEMMA FailureKeepsFile ==
  ASSUME ExportIInv, line' = line, NEW kind \in {"CapacityExceeded", "Internal", "AllocationFailed"},
         pdf' = FailedPdf(kind)
  PROVE  ExportIInv'
<1>1. /\ DOMAIN pdf' = {"stage", "content", "file", "offsets"}
      /\ (pdf.stage)' \notin {"idle", "content", "objects", "delivered"}
  BY DEF FailedPdf, IdlePdf
<1> QED
  BY <1>1 DEF ExportIInv, FrameIsWhole, FileGrows

\* A new frame is whole, and no document is under way.
LEMMA ResolveKeepsFile ==
  ASSUME ExportIInv, Resolve
  PROVE  ExportIInv'
<1>1. PICK scene \in Scenes, sheet \in Sheets :
        LET layout == FrameLayout(sheet.runs, sheet.live, sheet.stamp)
            v == scene.viewport
        IN /\ LayoutValid(v, scene.spec)
           /\ ~IsRefused(AxisTicks(v.minX, v.maxX)) /\ ~IsRefused(AxisTicks(v.minY, v.maxY))
           /\ ~IsRefused(layout)
           /\ line' = LineFrame(scene, sheet, layout)
  BY DEF Resolve
<1>2. line = Nothing /\ UNCHANGED pdf
  BY DEF Resolve
<1>3. WholeFrame(line')
  BY <1>1, ResolvedIsWhole
<1>4. FrameIsWhole'
  BY <1>3 DEF FrameIsWhole
<1>5. FileGrows'
  BY <1>2 DEF ExportIInv, FileGrows
<1> QED
  BY <1>4, <1>5 DEF ExportIInv

\* With the frame goes the document.
LEMMA ReleaseKeepsFile ==
  ASSUME ExportIInv, Release
  PROVE  ExportIInv'
BY DEF Release, IdlePdf, ExportIInv, FrameIsWhole, FileGrows

\* A document begins empty.
LEMMA StartKeepsFile ==
  ASSUME ExportIInv, StartPdf
  PROVE  ExportIInv'
<1> DEFINE stage == IF PdfPlan = "admitted" THEN "content" ELSE PdfPlan
<1>1. /\ line # Nothing /\ UNCHANGED line /\ pdf.stage = "idle"
      /\ pdf' = [pdf EXCEPT !.stage = stage]
  BY DEF StartPdf
<1>2. stage \in {"content", "InvalidInput", "CapacityExceeded"}
  BY DEF PdfPlan
<1> HIDE DEF stage
<1>3. /\ DOMAIN pdf' = {"stage", "content", "file", "offsets"}
      /\ (pdf.stage)' \in {"content", "InvalidInput", "CapacityExceeded"}
      /\ (pdf.file)' = <<>> /\ (pdf.offsets)' = <<>>
  BY <1>1, <1>2 DEF ExportIInv, FileGrows
<1>4. FrameIsWhole'
  BY <1>1 DEF ExportIInv, FrameIsWhole
<1>5. FileGrows'
  BY <1>1, <1>3 DEF FileGrows
<1> QED
  BY <1>4, <1>5 DEF ExportIInv

\* The content written is what the frame asks for.
LEMMA ContentKeepsFile ==
  ASSUME ExportIInv, WriteContent
  PROVE  ExportIInv'
<1> DEFINE content == FlattenSeq(ContentParts)
<1>1. UNCHANGED line /\ pdf.stage = "content" /\ line # Nothing /\ pdf.file = <<>> /\ pdf.offsets = <<>>
  BY DEF WriteContent, ExportIInv, FileGrows
<1>2. \/ pdf' = FailedPdf("CapacityExceeded")
      \/ pdf' = [pdf EXCEPT !.stage = "objects", !.content = content]
  BY DEF WriteContent
<1>3. CASE pdf' = FailedPdf("CapacityExceeded")
  BY <1>1, <1>3, FailureKeepsFile
<1>4. CASE pdf' = [pdf EXCEPT !.stage = "objects", !.content = content]
  <2> HIDE DEF content
  <2>1. /\ DOMAIN pdf' = {"stage", "content", "file", "offsets"}
        /\ (pdf.stage)' = "objects" /\ (pdf.content)' = content
        /\ (pdf.file)' = <<>> /\ (pdf.offsets)' = <<>>
    BY <1>1, <1>4 DEF ExportIInv, FileGrows
  <2>2. FrameIsWhole' /\ WholeFrame(line')
    BY <1>1 DEF ExportIInv, FrameIsWhole
  <2>3. ContentParts' = ContentParts
    BY <1>1, FrameStays
  <2>4. WholeFrame(line)' => (IsSequence(Objects) /\ Len(Objects) = ObjectCount /\ ObjectCount \in Nat)'
    BY ObjectsAreCounted, PTL
  <2>5. IsSequence(Objects') /\ Len(Objects') \in Nat
    BY <2>2, <2>4
  <2>6. SubSeq(Objects', 1, 0) = <<>> /\ Len(<<>>) = 0
    BY <2>5 DEF IsSequence
  <2>7. IsSequence((pdf.offsets)') /\ Len((pdf.offsets)') = 0
    BY <2>1, <2>6, EmptyIsNested DEF IsNested
  <2>8. FileGrows'
    BY <1>1, <2>1, <2>3, <2>5, <2>6, <2>7 DEF FileGrows, content
  <2> QED
    BY <2>2, <2>8 DEF ExportIInv
<1> QED
  BY <1>2, <1>3, <1>4

\* An object written continues the prefix, its offset the offsets.
LEMMA ObjectKeepsFile ==
  ASSUME ExportIInv, WriteObject
  PROVE  ExportIInv'
<1> DEFINE n == Len(pdf.file)
           object == Objects[n + 1]
<1>1. /\ UNCHANGED line /\ pdf.stage = "objects" /\ line # Nothing /\ n < Len(Objects)
      /\ n \in Nat
      /\ IsSequence(Objects) /\ Len(Objects) \in Nat
      /\ DOMAIN pdf = {"stage", "content", "file", "offsets"}
      /\ pdf.content = FlattenSeq(ContentParts) /\ pdf.file = SubSeq(Objects, 1, n)
      /\ IsSequence(pdf.offsets) /\ Len(pdf.offsets) = n
      /\ \A k \in 1 .. n : pdf.offsets[k] = Length(SubSeq(pdf.file, 1, k - 1))
  BY ObjectsAreCounted DEF WriteObject, ExportIInv, FrameIsWhole, FileGrows
<1>2. \/ pdf' = FailedPdf("CapacityExceeded")
      \/ pdf' = [pdf EXCEPT !.file = Append(@, object), !.offsets = Append(@, Length(pdf.file))]
  BY DEF WriteObject
<1>3. CASE pdf' = FailedPdf("CapacityExceeded")
  BY <1>1, <1>3, FailureKeepsFile
<1>4. CASE pdf' = [pdf EXCEPT !.file = Append(@, object), !.offsets = Append(@, Length(pdf.file))]
  <2> DEFINE X == ToSet(Objects)
             Y == ToSet(pdf.offsets) \cup {Length(pdf.file)}
             file == Append(pdf.file, object)
             offsets == Append(pdf.offsets, Length(pdf.file))
  <2>1. Objects \in Seq(X) /\ n + 1 \in 1 .. Len(Objects)
    BY <1>1 DEF IsSequence
  <2> HIDE DEF X
  <2>2. /\ file = SubSeq(Objects, 1, n + 1) /\ Len(file) = n + 1
        /\ \A k \in 1 .. (n + 1) : SubSeq(file, 1, k - 1) = SubSeq(Objects, 1, k - 1)
        /\ \A k \in 1 .. n : SubSeq(pdf.file, 1, k - 1) = SubSeq(Objects, 1, k - 1)
    BY <1>1, <2>1
  <2>3. /\ pdf.offsets \in Seq(Y) /\ Length(pdf.file) \in Y
    BY <1>1, SequenceDomain DEF IsSequence
  <2> HIDE DEF Y
  <2>4. /\ offsets \in Seq(Y) /\ Len(offsets) = n + 1
        /\ \A k \in 1 .. n : offsets[k] = pdf.offsets[k]
        /\ offsets[n + 1] = Length(pdf.file)
    BY <1>1, <2>3
  <2>5. IsSequence(offsets)
    BY <2>4, SeqIsSequence
  <2>6. \A k \in 1 .. (n + 1) : offsets[k] = Length(SubSeq(file, 1, k - 1))
    <3> SUFFICES ASSUME NEW k \in 1 .. (n + 1)
                 PROVE  offsets[k] = Length(SubSeq(file, 1, k - 1))
      OBVIOUS
    <3> HIDE DEF offsets, file
    <3>1. CASE k \in 1 .. n
      BY <1>1, <2>2, <2>4, <3>1
    <3>2. CASE k = n + 1
      <4>1. SubSeq(file, 1, k - 1) = SubSeq(Objects, 1, n)
        BY <1>1, <2>2, <3>2
      <4> QED
        BY <1>1, <2>4, <3>2, <4>1
    <3> QED
      BY <1>1, <3>1, <3>2
  <2>7. /\ DOMAIN pdf' = {"stage", "content", "file", "offsets"}
        /\ (pdf.stage)' = "objects" /\ (pdf.content)' = pdf.content
        /\ (pdf.file)' = file /\ (pdf.offsets)' = offsets
    BY <1>1, <1>4
  <2> HIDE DEF file, offsets
  <2>8. /\ ContentParts' = ContentParts /\ Objects' = Objects
        /\ \A f : Length(f)' = Length(f)
    BY <1>1, <2>7, FrameStays
  <2>9. FileGrows'
    BY <1>1, <2>1, <2>2, <2>4, <2>5, <2>6, <2>7, <2>8 DEF FileGrows
  <2>10. FrameIsWhole'
    BY <1>1 DEF ExportIInv, FrameIsWhole
  <2> QED
    BY <2>9, <2>10 DEF ExportIInv
<1> QED
  BY <1>2, <1>3, <1>4

\* A document is delivered when all its objects are written.
LEMMA FinishKeepsFile ==
  ASSUME ExportIInv, FinishPdf
  PROVE  ExportIInv'
<1>1. UNCHANGED line /\ pdf.stage = "objects" /\ Len(pdf.file) = Len(Objects)
  BY DEF FinishPdf
<1>2. \/ \E kind \in {"Internal", "CapacityExceeded"} : pdf' = FailedPdf(kind)
      \/ pdf' = [pdf EXCEPT !.stage = "delivered"]
  BY DEF FinishPdf
<1>3. CASE \E kind \in {"Internal", "CapacityExceeded"} : pdf' = FailedPdf(kind)
  BY <1>1, <1>3, FailureKeepsFile
<1>4. CASE pdf' = [pdf EXCEPT !.stage = "delivered"]
  <2>1. /\ DOMAIN pdf' = {"stage", "content", "file", "offsets"}
        /\ (pdf.stage)' = "delivered" /\ (pdf.content)' = pdf.content
        /\ (pdf.file)' = pdf.file /\ (pdf.offsets)' = pdf.offsets
    BY <1>4 DEF ExportIInv, FileGrows
  <2>2. /\ ContentParts' = ContentParts /\ Objects' = Objects
        /\ \A f : Length(f)' = Length(f)
    BY <1>1, <2>1, FrameStays
  <2>3. FileGrows'
    BY <1>1, <2>1, <2>2 DEF ExportIInv, FileGrows
  <2>4. FrameIsWhole'
    BY <1>1 DEF ExportIInv, FrameIsWhole
  <2> QED
    BY <2>3, <2>4 DEF ExportIInv
<1> QED
  BY <1>2, <1>3, <1>4

-----------------------------------------------------------------------------
(* Plans are kept *)

\* While a frame is held its plans and its passes stay.
LEMMA PictureStays ==
  ASSUME line' = line
  PROVE  /\ PngPlan' = PngPlan /\ Passes' = Passes /\ CanvasClip' = CanvasClip
         /\ \A pass : MayBeRefused(pass)' = MayBeRefused(pass)
         /\ \A pass : PassResults(pass)' = PassResults(pass)
<1>1. Glyphs' = Glyphs
  BY DEF Glyphs
<1>2. \A parts : Pixels(parts)' = Pixels(parts)
  BY DEF Pixels
<1>3. \A k : Side(k)' = Side(k)
  BY <1>2 DEF Side
<1>4. PixelCount' = PixelCount
  BY <1>3 DEF PixelCount
<1>5. CurvePoints' = CurvePoints /\ GridPoints' = GridPoints /\ GlyphPoints' = GlyphPoints
  BY <1>1 DEF CurvePoints, GridPoints, GlyphPoints
<1>6. PathPoints' = PathPoints
  BY <1>5 DEF PathPoints
<1>7. PngEstimate' = PngEstimate
  BY <1>3, <1>4 DEF PngEstimate
<1>8. PngWork' = PngWork
  BY <1>4, <1>6, <1>7 DEF PngWork
<1>9. PlotClip' = PlotClip
  BY <1>2 DEF PlotClip
<1>10. CanvasClip' = CanvasClip
  BY <1>3 DEF CanvasClip
<1>11. \A p : OnPicture(p)' = OnPicture(p)
  BY <1>2, <1>3 DEF OnPicture
<1>12. AllPoints' = AllPoints
  BY DEF AllPoints
<1>13. PngPlan' = PngPlan
  BY <1>2, <1>3, <1>4, <1>6, <1>7, <1>8, <1>9, <1>11, <1>12 DEF PngPlan
<1>14. \A path : InPixels(path)' = InPixels(path)
  BY <1>2 DEF InPixels
<1>15. GridPass' = GridPass
  BY <1>2, <1>3, <1>9 DEF GridPass
<1>16. \A s : SeriesPass(s)' = SeriesPass(s)
  BY <1>2, <1>9, <1>14 DEF SeriesPass
<1>17. \A box : OnCanvas(box)' = OnCanvas(box)
  BY <1>10 DEF OnCanvas
<1>18. \A p : GlyphCell(p)' = GlyphCell(p)
  BY <1>2, <1>17 DEF GlyphCell
<1>19. TextPass' = TextPass
  BY <1>1, <1>10, <1>18 DEF TextPass
<1>20. \A mark : MarkBox(mark)' = MarkBox(mark)
  BY <1>2, <1>17 DEF MarkBox
<1>21. \A mark : MarkShaft(mark)' = MarkShaft(mark)
  BY <1>11, <1>14 DEF MarkShaft
<1>22. \A mark : MarkBoxes(mark)' = MarkBoxes(mark) /\ MarkLines(mark)' = MarkLines(mark)
  BY <1>20, <1>21 DEF MarkBoxes, MarkLines
<1>23. AnnotationPass' = AnnotationPass
  BY <1>2, <1>10, <1>22 DEF AnnotationPass
<1>24. Passes' = Passes
  BY <1>15, <1>16, <1>19, <1>23 DEF Passes
<1>25. \A pass : MayBeRefused(pass)' = MayBeRefused(pass)
  BY <1>3 DEF MayBeRefused
<1>26. \A pass : PassResults(pass)' = PassResults(pass)
  BY DEF PassResults
<1> QED
  BY <1>10, <1>13, <1>24, <1>25, <1>26

\* So does the plan of the document.
LEMMA FilePlanStays ==
  ASSUME line' = line
  PROVE  PdfPlan' = PdfPlan
<1>1. Glyphs' = Glyphs
  BY DEF Glyphs
<1>2. \A parts : Points(parts)' = Points(parts)
  BY DEF Points
<1>3. \A k : Page(k)' = Page(k)
  BY <1>2 DEF Page
<1>4. CurvePoints' = CurvePoints /\ GridPoints' = GridPoints /\ GlyphPoints' = GlyphPoints
  BY <1>1 DEF CurvePoints, GridPoints, GlyphPoints
<1>5. PdfPathPoints' = PdfPathPoints /\ PdfSegments' = PdfSegments
  BY <1>4 DEF PdfPathPoints, PdfSegments
<1>6. ContentEstimate' = ContentEstimate
  BY <1>1, <1>5 DEF ContentEstimate
<1>7. ObjectCount' = ObjectCount
  BY DEF ObjectCount
<1>8. OutputEstimate' = OutputEstimate
  BY <1>6, <1>7 DEF OutputEstimate
<1>9. \A p : OnPage(p)' = OnPage(p)
  BY DEF OnPage
<1>10. AllPoints' = AllPoints
  BY DEF AllPoints
<1> QED
  BY <1>2, <1>3, <1>4, <1>5, <1>6, <1>7, <1>8, <1>9, <1>10 DEF PdfPlan

\* The invariant's parts about the two sinks.
PngFollows ==
  /\ DOMAIN png = {"stage", "painted"} /\ IsSequence(png.painted)
  /\ png.stage = "painting" \/ png.painted # <<>> =>
       /\ line # Nothing /\ PngPlan = "admitted" /\ ToSet(png.painted) \subseteq ToSet(Passes)
       /\ \A pass \in ToSet(png.painted) : "mask" \in PassResults(pass)
  /\ png.stage \in {"InvalidInput", "CapacityExceeded", "Internal"} =>
       PngPlan # "admitted" \/ \E pass \in ToSet(Passes) : MayBeRefused(pass)

PdfFollows ==
  /\ pdf.stage \in {"content", "objects", "delivered"} => PdfPlan = "admitted"
  /\ pdf.stage \in {"InvalidInput", "CapacityExceeded", "Internal"} => PdfPlan # "admitted"

\* The invariant says something of each sink.
LEMMA FollowsInParts ==
  SinksFollowPlans <=>
    (line = Nothing => png = IdlePng /\ pdf = IdlePdf) /\ PngFollows /\ PdfFollows
BY Zenon DEF SinksFollowPlans, PngFollows, PdfFollows

\* A sink that was not called says nothing yet.
LEMMA IdleFollows ==
  /\ png = IdlePng => PngFollows
  /\ pdf = IdlePdf => PdfFollows
<1>1. IsSequence(<<>>)
  BY PairIsSequence
<1>2. png = IdlePng => PngFollows
  BY <1>1 DEF IdlePng, PngFollows
<1>3. pdf = IdlePdf => PdfFollows
  BY DEF IdlePdf, PdfFollows
<1> QED
  BY <1>2, <1>3

\* A sink that fails has nothing, and a cause if it refuses.
LEMMA FailureFollows ==
  ASSUME line' = line, NEW kind, png' = FailedPng(kind), kind # "painting",
         kind \in {"InvalidInput", "CapacityExceeded", "Internal"} =>
           \E pass \in ToSet(Passes) : MayBeRefused(pass)
  PROVE  PngFollows'
<1>1. /\ Passes' = Passes
      /\ \A pass : MayBeRefused(pass)' = MayBeRefused(pass)
  BY PictureStays
<1>2. DOMAIN png' = {"stage", "painted"} /\ (png.stage)' = kind /\ (png.painted)' = <<>>
  BY DEF FailedPng
<1>3. IsSequence(<<>>)
  BY PairIsSequence
<1> QED
  BY <1>1, <1>2, <1>3 DEF PngFollows

\* A sink that is left alone, or that frees what it has after memory ran out.
LEMMA OtherFollows ==
  ASSUME line' = line
  PROVE  /\ PngFollows /\ png' = png => PngFollows'
         /\ PdfFollows /\ pdf' = pdf => PdfFollows'
         /\ png' = FailedPng("AllocationFailed") => PngFollows'
         /\ pdf' = FailedPdf("AllocationFailed") => PdfFollows'
<1>1. /\ PngPlan' = PngPlan /\ Passes' = Passes /\ PdfPlan' = PdfPlan
      /\ \A pass : MayBeRefused(pass)' = MayBeRefused(pass) /\ PassResults(pass)' = PassResults(pass)
  BY PictureStays, FilePlanStays
<1>2. PngFollows /\ png' = png => PngFollows'
  BY <1>1 DEF PngFollows
<1>3. PdfFollows /\ pdf' = pdf => PdfFollows'
  BY <1>1 DEF PdfFollows
<1>4. png' = FailedPng("AllocationFailed") => PngFollows'
  <2>1. "AllocationFailed" \notin {"painting", "InvalidInput", "CapacityExceeded", "Internal"}
    OBVIOUS
  <2> QED
    BY <2>1, FailureFollows
<1>5. pdf' = FailedPdf("AllocationFailed") => PdfFollows'
  BY DEF PdfFollows, FailedPdf, IdlePdf
<1> QED
  BY <1>2, <1>3, <1>4, <1>5

\* A picture is begun only if its plan is admitted.
LEMMA StartPngFollows ==
  ASSUME PngFollows, StartPng
  PROVE  PngFollows'
<1>1. /\ PngPlan' = PngPlan /\ Passes' = Passes
      /\ \A pass : PassResults(pass)' = PassResults(pass)
  BY PictureStays DEF StartPng
<1>2. PngPlan \in {"InvalidInput", "CapacityExceeded", "admitted"}
  BY Zenon DEF PngPlan
<1> DEFINE stage == IF PngPlan = "admitted" THEN "painting" ELSE PngPlan
<1>3. /\ line # Nothing /\ line' = line /\ png.stage = "idle"
      /\ png' = [png EXCEPT !.stage = stage]
  BY DEF StartPng
<1>4. /\ DOMAIN png' = {"stage", "painted"}
      /\ (png.stage)' = stage /\ (png.painted)' = png.painted
  <2> HIDE DEF stage
  <2> QED
    BY <1>3 DEF PngFollows
<1>5. /\ stage = "painting" => PngPlan = "admitted"
      /\ stage # "painting" => PngPlan # "admitted"
  BY <1>2
<1> HIDE DEF stage
<1>6. png.painted # <<>> =>
        /\ PngPlan = "admitted" /\ ToSet(png.painted) \subseteq ToSet(Passes)
        /\ \A pass \in ToSet(png.painted) : "mask" \in PassResults(pass)
  BY DEF PngFollows
<1>7. png.painted = <<>> => ToSet(png.painted) = {}
  BY FewElements
<1>8. /\ ToSet(png.painted) \subseteq ToSet(Passes)
      /\ \A pass \in ToSet(png.painted) : "mask" \in PassResults(pass)
  BY <1>6, <1>7
<1>9. IsSequence(png.painted)
  BY DEF PngFollows
<1>10. "painting" \notin {"InvalidInput", "CapacityExceeded", "Internal"}
  OBVIOUS
<1> QED
  BY <1>1, <1>3, <1>4, <1>5, <1>6, <1>8, <1>9, <1>10 DEF PngFollows

\* What is painted next is one of the passes, and what cannot be has its cause.
LEMMA PaintPassFollows ==
  ASSUME ExportIInv, PngFollows, PaintPass
  PROVE  PngFollows'
<1> DEFINE k == Len(png.painted) + 1
           pass == Passes[k]
           painted == Append(png.painted, pass)
<1>1. /\ PngPlan' = PngPlan /\ Passes' = Passes
      /\ \A p : PassResults(p)' = PassResults(p)
  BY PictureStays DEF PaintPass
<1>2. PICK result \in PassResults(pass) :
        /\ line' = line /\ png.stage = "painting" /\ Len(png.painted) < Len(Passes)
        /\ png' = IF result = "mask" THEN [png EXCEPT !.painted = painted] ELSE FailedPng(result)
  BY DEF PaintPass
<1>3. /\ line # Nothing /\ PngPlan = "admitted" /\ ToSet(png.painted) \subseteq ToSet(Passes)
      /\ \A p \in ToSet(png.painted) : "mask" \in PassResults(p)
      /\ IsSequence(png.painted) /\ DOMAIN png = {"stage", "painted"}
  BY <1>2 DEF PngFollows
<1>4. WholeFrame(line)
  BY <1>3 DEF ExportIInv, FrameIsWhole
<1>5. IsSequence(Passes)
  BY <1>3, <1>4, PassesLie
<1>6. pass \in ToSet(Passes)
  <2>1. Len(png.painted) \in Nat /\ Len(Passes) \in Nat
    BY <1>3, <1>5, SequenceDomain
  <2>2. k \in 1 .. Len(Passes)
    BY <1>2, <2>1
  <2> HIDE DEF k
  <2> QED
    BY <1>5, <2>2, SequenceDomain
<1> HIDE DEF pass
<1>7. CASE result = "mask"
  <2>1. IsSequence(painted) /\ ToSet(painted) = ToSet(png.painted) \cup {pass}
    <3>1. painted = png.painted \o <<pass>>
      <4> DEFINE A == ToSet(png.painted) \cup {pass}
      <4>1. png.painted \in Seq(A) /\ pass \in A
        BY <1>3, SequenceDomain DEF IsSequence
      <4> HIDE DEF A
      <4> QED
        BY <4>1
    <3>2. IsSequence(<<pass>>) /\ ToSet(<<pass>>) = {pass}
      BY FewElements
    <3> HIDE DEF painted
    <3> QED
      BY <1>3, <3>1, <3>2, ConcatIsSequence
  <2> HIDE DEF painted
  <2>2. /\ DOMAIN png' = {"stage", "painted"}
        /\ (png.stage)' = "painting" /\ (png.painted)' = painted
    BY <1>2, <1>3, <1>7
  <2>3. /\ ToSet(painted) \subseteq ToSet(Passes)
        /\ \A p \in ToSet(painted) : "mask" \in PassResults(p)
    BY <1>2, <1>3, <1>6, <1>7, <2>1
  <2>4. "painting" \notin {"InvalidInput", "CapacityExceeded", "Internal"}
    OBVIOUS
  <2> QED
    BY <1>1, <1>2, <1>3, <2>1, <2>2, <2>3, <2>4 DEF PngFollows
<1>8. CASE result # "mask"
  <2>1. MayBeRefused(pass)
    BY <1>2, <1>3, <1>4, <1>6, <1>8, RefusalsHaveCauses
  <2>2. png' = FailedPng(result)
    BY <1>2, <1>8
  <2>3. result # "painting"
    <3>1. result \in {"mask", "InvalidInput", "CapacityExceeded", "Internal"}
      BY <1>2, Zenon DEF PassResults, StrokeResults
    <3> QED
      BY <3>1
  <2> QED
    BY <1>2, <1>6, <2>1, <2>2, <2>3, FailureFollows
<1> QED
  BY <1>7, <1>8

\* A picture that is encoded, or cannot be, was admitted.
LEMMA EncodePngFollows ==
  ASSUME PngFollows, EncodePng
  PROVE  PngFollows'
<1>1. /\ PngPlan' = PngPlan /\ Passes' = Passes
      /\ \A pass : PassResults(pass)' = PassResults(pass)
  BY PictureStays DEF EncodePng
<1>2. PICK done \in {"delivered", "EncodingFailed"} : png' = [png EXCEPT !.stage = done]
  BY DEF EncodePng
<1>3. line' = line /\ png.stage = "painting"
  BY DEF EncodePng
<1>4. /\ DOMAIN png' = {"stage", "painted"}
      /\ (png.stage)' = done /\ (png.painted)' = png.painted
  BY <1>2 DEF PngFollows
<1>5. done \notin {"InvalidInput", "CapacityExceeded", "Internal"}
  BY <1>2
<1> QED
  BY <1>1, <1>3, <1>4, <1>5 DEF PngFollows

\* A document is begun only if its plan is admitted.
LEMMA StartPdfFollows ==
  ASSUME ExportIInv, PdfFollows, StartPdf
  PROVE  PdfFollows'
<1>1. PdfPlan' = PdfPlan
  BY FilePlanStays DEF StartPdf
<1> DEFINE stage == IF PdfPlan = "admitted" THEN "content" ELSE PdfPlan
<1>2. pdf' = [pdf EXCEPT !.stage = stage]
  BY DEF StartPdf
<1>3. PdfPlan \in {"InvalidInput", "CapacityExceeded", "admitted"}
  BY Zenon DEF PdfPlan
<1>4. (pdf.stage)' = stage
  <2> HIDE DEF stage
  <2> QED
    BY <1>2 DEF ExportIInv, FileGrows
<1>5. /\ stage = "content" => PdfPlan = "admitted"
      /\ stage # "content" => PdfPlan # "admitted" /\ stage \in {"InvalidInput", "CapacityExceeded"}
  BY <1>3
<1> HIDE DEF stage
<1> QED
  BY <1>1, <1>4, <1>5 DEF PdfFollows

\* The content's writer is not refused: the estimate has room for all of it.
LEMMA WriteContentFollows ==
  ASSUME ExportIInv, PdfFollows, WriteContent
  PROVE  PdfFollows'
<1>1. PdfPlan' = PdfPlan
  BY FilePlanStays DEF WriteContent
<1> DEFINE content == FlattenSeq(ContentParts)
<1>2. pdf.stage = "content" /\ PdfPlan = "admitted" /\ WholeFrame(line)
  BY DEF WriteContent, PdfFollows, ExportIInv, FileGrows, FrameIsWhole
<1>3. SizeOf(content) <= MaxOutput /\ SizeOf(content) <= ContentEstimate
  BY <1>2, ContentIsAsEstimated
<1>4. pdf' = [pdf EXCEPT !.stage = "objects", !.content = content]
  BY <1>3 DEF WriteContent
<1>5. (pdf.stage)' = "objects"
  <2> HIDE DEF content
  <2> QED
    BY <1>4 DEF ExportIInv, FileGrows
<1> QED
  BY <1>1, <1>2, <1>5 DEF PdfFollows

\* Nor is the writer of an object.
LEMMA WriteObjectFollows ==
  ASSUME ExportIInv, PdfFollows, WriteObject
  PROVE  PdfFollows'
<1>1. PdfPlan' = PdfPlan
  BY FilePlanStays DEF WriteObject
<1> DEFINE n == Len(pdf.file)
           object == Objects[n + 1]
           file == Append(pdf.file, object)
<1>2. /\ pdf.stage = "objects" /\ PdfPlan = "admitted" /\ WholeFrame(line)
      /\ n < Len(Objects) /\ n \in Nat /\ IsSequence(Objects) /\ Len(Objects) \in Nat
      /\ pdf.content = FlattenSeq(ContentParts) /\ pdf.file = SubSeq(Objects, 1, n)
  BY ObjectsAreCounted DEF WriteObject, PdfFollows, ExportIInv, FrameIsWhole, FileGrows
<1>3. file = SubSeq(Objects, 1, n + 1) /\ n + 1 \in 0 .. Len(Objects)
  <2> DEFINE X == ToSet(Objects)
  <2>1. Objects \in Seq(X)
    BY <1>2 DEF IsSequence
  <2> HIDE DEF X
  <2> QED
    BY <1>2, <2>1
<1>4. Length(file) <= MaxOutput
  <2> HIDE DEF file, n
  <2> QED
    BY <1>2, <1>3, PrefixFits
<1>5. pdf' = [pdf EXCEPT !.file = Append(@, object), !.offsets = Append(@, Length(pdf.file))]
  BY <1>4 DEF WriteObject
<1>6. (pdf.stage)' = "objects"
  <2> HIDE DEF object
  <2> QED
    BY <1>2, <1>5 DEF ExportIInv, FileGrows
<1> QED
  BY <1>1, <1>2, <1>6 DEF PdfFollows

\* A whole file has an offset for every object, and its tail fits.
LEMMA WholeFileFits ==
  ASSUME ExportIInv, PdfFollows, pdf.stage \in {"objects", "delivered"},
         Len(pdf.file) = Len(Objects)
  PROVE  /\ Len(pdf.offsets) = ObjectCount
         /\ LET start == Length(pdf.file)
                end == start + TailSize(pdf.offsets, start)
            IN end \in Nat /\ end <= OutputEstimate /\ end <= MaxOutput
<1> DEFINE n == Len(pdf.file)
<1>1. /\ PdfPlan = "admitted" /\ WholeFrame(line)
      /\ n = Len(Objects) /\ Len(Objects) = ObjectCount /\ ObjectCount \in Nat
      /\ pdf.content = FlattenSeq(ContentParts) /\ pdf.file = SubSeq(Objects, 1, n)
      /\ Len(pdf.offsets) = n
  BY ObjectsAreCounted DEF PdfFollows, ExportIInv, FrameIsWhole, FileGrows
<1>2. n \in 0 .. Len(Objects) /\ Len(pdf.offsets) = ObjectCount
  BY <1>1
<1> HIDE DEF n
<1> QED
  BY <1>1, <1>2, FileIsAsEstimated

\* Nor is the whole file.
LEMMA FinishPdfFollows ==
  ASSUME ExportIInv, PdfFollows, FinishPdf
  PROVE  PdfFollows'
<1>1. PdfPlan' = PdfPlan
  BY FilePlanStays DEF FinishPdf
<1> DEFINE start == Length(pdf.file)
<1>2. pdf.stage = "objects" /\ Len(pdf.file) = Len(Objects) /\ PdfPlan = "admitted"
  BY DEF FinishPdf, PdfFollows
<1> DEFINE end == start + TailSize(pdf.offsets, start)
<1>3. Len(pdf.offsets) = ObjectCount /\ end \in Nat /\ end <= MaxOutput
  BY <1>2, WholeFileFits
<1>4. ~(end > MaxOutput)
  <2> HIDE DEF end
  <2> QED
    BY <1>3, ExportAssumption
<1>5. pdf' = [pdf EXCEPT !.stage = "delivered"]
  BY <1>3, <1>4 DEF FinishPdf
<1>6. (pdf.stage)' = "delivered"
  BY <1>5 DEF ExportIInv, FileGrows
<1> QED
  BY <1>1, <1>2, <1>6 DEF PdfFollows

-----------------------------------------------------------------------------
(* Theorems *)

\* Whatever the sinks do, a frame is whole and a file a prefix of its objects
\* with an offset for each.
THEOREM FilesGrowInOrder == ExportSpec => []ExportIInv
<1>1. ExportInit => ExportIInv
  BY DEF ExportInit, IdlePdf, ExportIInv, FrameIsWhole, FileGrows
<1>2. ExportIInv /\ [ExportNext]_exportVars => ExportIInv'
  <2> SUFFICES ASSUME ExportIInv, [ExportNext]_exportVars PROVE ExportIInv'
    OBVIOUS
  <2>1. CASE Resolve
    BY <2>1, ResolveKeepsFile
  <2>2. CASE Release
    BY <2>2, ReleaseKeepsFile
  <2>3. CASE StartPng \/ PaintPass \/ EncodePng \/ FailPng
    BY <2>3, OthersKeepFile DEF StartPng, PaintPass, EncodePng, FailPng
  <2>4. CASE StartPdf
    BY <2>4, StartKeepsFile
  <2>5. CASE WriteContent
    BY <2>5, ContentKeepsFile
  <2>6. CASE WriteObject
    BY <2>6, ObjectKeepsFile
  <2>7. CASE FinishPdf
    BY <2>7, FinishKeepsFile
  <2>8. CASE FailPdf
    BY <2>8, FailureKeepsFile DEF FailPdf
  <2>9. CASE UNCHANGED exportVars
    BY <2>9, OthersKeepFile DEF exportVars
  <2> QED
    BY <2>1, <2>2, <2>3, <2>4, <2>5, <2>6, <2>7, <2>8, <2>9 DEF ExportNext
<1> QED
  BY <1>1, <1>2, PTL DEF ExportSpec

\* Whatever frame is written, whoever reads the file that is delivered finds every
\* object where the cross references say, of the kind that is referred to, and
\* for every state the content asks for a graphics state (encode_line_frame_pdf).
THEOREM DeliveredFilesResolve == ExportSpec => []FileResolves
<1>1. ExportIInv => FileResolves
  BY WholeFileResolves
<1> QED
  BY <1>1, FilesGrowInOrder, PTL

\* Whatever the sinks do, the PDF sink says of a frame what its plan says, the PNG
\* sink what its plan and the frame's strokes say, and passes of an admitted picture
\* only are painted, each of which the stroker has made (rasterize_series,
\* rasterize_annotations, ensure_stroked_path_is_representable).
THEOREM SinksKeepTheirPlans == ExportSpec => []SinksFollowPlans
<1>1. ExportInit => SinksFollowPlans
  BY IdleFollows, FollowsInParts, Zenon DEF ExportInit
<1>2. ExportIInv /\ SinksFollowPlans /\ [ExportNext]_exportVars => SinksFollowPlans'
  <2> SUFFICES ASSUME ExportIInv, SinksFollowPlans, [ExportNext]_exportVars
               PROVE  SinksFollowPlans'
    OBVIOUS
  <2>1. (line = Nothing => png = IdlePng /\ pdf = IdlePdf) /\ PngFollows /\ PdfFollows
    BY FollowsInParts
  <2>2. line = Nothing => png.stage = "idle" /\ pdf.stage = "idle"
    BY <2>1 DEF IdlePng, IdlePdf
  <2>3. (line = Nothing => png = IdlePng /\ pdf = IdlePdf)' /\ PngFollows' /\ PdfFollows'
    <3>1. CASE Resolve \/ Release
      <4>1. png' = IdlePng /\ pdf' = IdlePdf
        BY <2>1, <3>1 DEF Resolve, Release
      <4>2. (png = IdlePng => PngFollows)' /\ (pdf = IdlePdf => PdfFollows)'
        BY IdleFollows, PTL
      <4>3. IdlePng' = IdlePng /\ IdlePdf' = IdlePdf
        BY DEF IdlePng, IdlePdf
      <4> QED
        BY <4>1, <4>2, <4>3
    <3>2. CASE StartPng \/ PaintPass \/ EncodePng \/ FailPng
      <4>1. line # Nothing /\ line' = line /\ pdf' = pdf
        BY <2>2, <3>2 DEF StartPng, PaintPass, EncodePng, FailPng
      <4>2. PdfFollows'
        BY <2>1, <4>1, OtherFollows
      <4>3. PngFollows'
        <5>1. CASE StartPng
          BY <2>1, <5>1, StartPngFollows
        <5>2. CASE PaintPass
          BY <2>1, <5>2, PaintPassFollows
        <5>3. CASE EncodePng
          BY <2>1, <5>3, EncodePngFollows
        <5>4. CASE FailPng
          BY <4>1, <5>4, OtherFollows DEF FailPng
        <5> QED
          BY <3>2, <5>1, <5>2, <5>3, <5>4
      <4>4. (line = Nothing)' = FALSE
        BY <4>1 DEF Nothing
      <4> QED
        BY <4>2, <4>3, <4>4
    <3>3. CASE StartPdf \/ WriteContent \/ WriteObject \/ FinishPdf \/ FailPdf
      <4>1. line # Nothing /\ line' = line /\ png' = png
        BY <2>2, <3>3 DEF StartPdf, WriteContent, WriteObject, FinishPdf, FailPdf
      <4>2. PngFollows'
        BY <2>1, <4>1, OtherFollows
      <4>3. PdfFollows'
        <5>1. CASE StartPdf
          BY <2>1, <5>1, StartPdfFollows
        <5>2. CASE WriteContent
          BY <2>1, <5>2, WriteContentFollows
        <5>3. CASE WriteObject
          BY <2>1, <5>3, WriteObjectFollows
        <5>4. CASE FinishPdf
          BY <2>1, <5>4, FinishPdfFollows
        <5>5. CASE FailPdf
          BY <4>1, <5>5, OtherFollows DEF FailPdf
        <5> QED
          BY <3>3, <5>1, <5>2, <5>3, <5>4, <5>5
      <4>4. (line = Nothing)' = FALSE
        BY <4>1 DEF Nothing
      <4> QED
        BY <4>2, <4>3, <4>4
    <3>4. CASE UNCHANGED exportVars
      <4>1. line' = line /\ png' = png /\ pdf' = pdf
        BY <3>4 DEF exportVars
      <4>2. PngFollows' /\ PdfFollows'
        BY <2>1, <4>1, OtherFollows
      <4>3. (line = Nothing => png = IdlePng /\ pdf = IdlePdf)'
        BY <2>1, <4>1 DEF Nothing, IdlePng, IdlePdf
      <4> QED
        BY <4>2, <4>3
    <3> QED
      BY <3>1, <3>2, <3>3, <3>4 DEF ExportNext
  <2>4. (SinksFollowPlans <=>
           (line = Nothing => png = IdlePng /\ pdf = IdlePdf) /\ PngFollows /\ PdfFollows)'
    BY FollowsInParts, PTL
  <2> QED
    BY <2>3, <2>4
<1> QED
  BY <1>1, <1>2, FilesGrowInOrder, PTL DEF ExportSpec

\* A file that was admitted fails for want of memory alone and is no longer than
\* its estimate, for every frame, sheet and limit (PdfPlan::new and the writers' own
\* checks of what was planned).
THEOREM AcceptedFilesSucceed == ExportSpec => []PlannedFilesSucceed
<1>1. ExportIInv /\ SinksFollowPlans => PlannedFilesSucceed
  <2> SUFFICES ASSUME ExportIInv, SinksFollowPlans PROVE PlannedFilesSucceed
    OBVIOUS
  <2>1. PdfFollows
    BY FollowsInParts
  <2>2. pdf.stage \in {"InvalidInput", "CapacityExceeded", "Internal"} => PdfPlan # "admitted"
    BY <2>1 DEF PdfFollows
  <2>3. ASSUME pdf.stage = "delivered"
        PROVE  LET start == Length(pdf.file)
               IN start + TailSize(pdf.offsets, start) <= OutputEstimate
    <3>1. Len(pdf.file) = Len(Objects)
      BY <2>3 DEF ExportIInv, FileGrows
    <3> QED
      BY <2>1, <2>3, <3>1, WholeFileFits
  <2> QED
    BY <2>2, <2>3, Zenon DEF PlannedFilesSucceed
<1> QED
  BY <1>1, FilesGrowInOrder, SinksKeepTheirPlans, PTL

\* An admitted picture is refused for a stroke of its own curves or marks alone,
\* one too broad or too fine for its side, and never delivered without one that
\* cannot be drawn, for every frame, sheet, bound of paths and limit
\* (ensure_stroked_path_is_representable in rasterize_series, rasterize_grid and
\* rasterize_annotations).
THEOREM AdmittedPicturesArePainted == ExportSpec => []StrokesAreDrawnOrRefused
<1>1. ExportIInv /\ SinksFollowPlans => StrokesAreDrawnOrRefused
  <2> SUFFICES ASSUME ExportIInv, SinksFollowPlans PROVE StrokesAreDrawnOrRefused
    OBVIOUS
  <2>1. PngFollows
    BY FollowsInParts
  <2>2. /\ png.stage \in {"InvalidInput", "CapacityExceeded", "Internal"}
        /\ PngPlan = "admitted"
        => \E pass \in ToSet(Passes) : MayBeRefused(pass)
    BY <2>1 DEF PngFollows
  <2>3. ASSUME NEW pass \in ToSet(png.painted)
        PROVE  /\ pass.lines # <<>> => pass.width \in 1 .. (3 * PathBound)
               /\ \A path \in ToSet(pass.lines) :
                    \A p \in ToSet(path) :
                      p.x \in 0 .. CanvasClip.right /\ p.y \in 0 .. CanvasClip.bottom
               /\ \A box \in ToSet(pass.boxes) : Within(box, CanvasClip)
    <3>1. png.painted # <<>>
      BY <2>3, FewElements
    <3>2. /\ line # Nothing /\ PngPlan = "admitted" /\ pass \in ToSet(Passes)
          /\ "mask" \in PassResults(pass)
      BY <2>1, <2>3, <3>1 DEF PngFollows
    <3>3. WholeFrame(line)
      BY <3>2 DEF ExportIInv, FrameIsWhole
    <3>4. LinesLie(pass.lines) /\ BoxesLie(pass.boxes)
      BY <3>2, <3>3, PassesLie
    <3>5. pass.lines # <<>> => pass.width \in 1 .. (3 * PathBound)
      BY <3>2, MadeStrokesAreModerate
    <3> QED
      BY <3>4, <3>5 DEF LinesLie, BoxesLie, OnIt
  <2> QED
    BY <2>2, <2>3, Zenon DEF StrokesAreDrawnOrRefused
<1> QED
  BY <1>1, FilesGrowInOrder, SinksKeepTheirPlans, PTL
=============================================================================
