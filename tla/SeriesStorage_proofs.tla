------------------------- MODULE SeriesStorage_proofs -------------------------
(***************************************************************************)
(* Proofs about SeriesStorage, for every set of pieces and every limit:    *)
(* the storage holds what was accepted, however it arrived.  Then about    *)
(* ArrayIngestion, for all arrays and whatever is written to them: what is *)
(* drawn is what the arrays held, read without leaving their memory.       *)
(*                                                                         *)
(* Filtering and merging are recursive functions on numbers; that they     *)
(* exist and what they return is proved by the least number for which it   *)
(* fails.                                                                  *)
(***************************************************************************)
EXTENDS ArrayIngestion, FiniteSetTheorems, NaturalsInduction, WellFoundedInduction,
        SequenceTheorems, TLAPS

-----------------------------------------------------------------------------
(* Numbers *)

\* Every set of natural numbers that is not empty has a least element.
LEMMA LeastNatural ==
  ASSUME NEW T \in SUBSET Nat, T # {}
  PROVE  \E n \in T : \A m \in T : n <= m
<1> DEFINE R == OpToRel(<, Nat)
<1>1. IsWellFoundedOn(R, Nat)
  BY NatLessThanWellFounded
<1>2. \A i, j \in Nat : i < j => <<i, j>> \in R
  BY DEF OpToRel
<1> HIDE DEF R
<1>3. PICK n \in T : \A m \in T : ~(<<m, n>> \in R)
  BY <1>1, WFMin, Zenon
<1>4. \A m \in T : m \in Nat /\ n \in Nat
  OBVIOUS
<1>5. \A m \in T : ~(m < n)
  BY <1>2, <1>3, <1>4, Zenon
<1> QED
  BY <1>4, <1>5

LEMMA MinIsIn ==
  ASSUME NEW K \in SUBSET Nat, K # {}
  PROVE  Min(K) \in K
<1>1. \E n \in K : \A m \in K : n <= m
  BY LeastNatural
<1> QED
  BY <1>1 DEF Min

-----------------------------------------------------------------------------
(* What is filtered from a sequence *)

Filters(s, set, n, f) ==
  f = [i \in 0 .. n |-> IF i = 0 THEN <<>>
                        ELSE IF s[i] \in set THEN Append(f[i - 1], s[i]) ELSE f[i - 1]]

\* The recursion of Filtered has a solution.
LEMMA FilterExists ==
  ASSUME NEW s, NEW set, NEW n \in Nat
  PROVE  \E f : Filters(s, set, n, f)
<1> DEFINE T == {m \in Nat : ~\E f : Filters(s, set, m, f)}
<1> SUFFICES ASSUME T # {} PROVE FALSE
  OBVIOUS
<1>1. PICK m \in T : \A k \in T : m <= k
  <2>1. T \subseteq Nat
    OBVIOUS
  <2> HIDE DEF T
  <2> QED
    BY <2>1, LeastNatural
<1>2. m # 0
  <2> SUFFICES ASSUME m = 0 PROVE \E f : Filters(s, set, 0, f)
    OBVIOUS
  <2>1. Filters(s, set, 0, [i \in 0 .. 0 |-> <<>>])
    BY DEF Filters
  <2> QED
    BY <2>1
<1>3. m - 1 \in Nat /\ m - 1 \notin T /\ m \in Nat
  BY <1>1, <1>2
<1>4. PICK f : Filters(s, set, m - 1, f)
  BY <1>3
<1> HIDE DEF T
<1> DEFINE g == [i \in 0 .. m |->
                   IF i = m THEN IF s[i] \in set THEN Append(f[i - 1], s[i]) ELSE f[i - 1]
                            ELSE f[i]]
<1>5. \A i \in 0 .. m : g[i] = IF i = 0 THEN <<>>
                               ELSE IF s[i] \in set THEN Append(g[i - 1], s[i]) ELSE g[i - 1]
  <2> SUFFICES ASSUME NEW i \in 0 .. m
               PROVE  g[i] = IF i = 0 THEN <<>>
                             ELSE IF s[i] \in set THEN Append(g[i - 1], s[i]) ELSE g[i - 1]
    OBVIOUS
  <2>1. i # 0 => g[i - 1] = f[i - 1]
    BY <1>3
  <2>2. CASE i = m
    BY <1>2, <2>1, <2>2
  <2>3. CASE i # m
    <3>1. i \in 0 .. (m - 1)
      BY <1>3, <2>3
    <3>2. f[i] = IF i = 0 THEN <<>>
                 ELSE IF s[i] \in set THEN Append(f[i - 1], s[i]) ELSE f[i - 1]
      BY <1>4, <3>1 DEF Filters
    <3> QED
      BY <2>1, <2>3, <3>2
  <2> QED
    BY <2>2, <2>3
<1>6. Filters(s, set, m, g)
  BY <1>5 DEF Filters
<1> QED
  BY <1>1, <1>6 DEF T

LEMMA FilteredFilters ==
  ASSUME NEW s, NEW set, Len(s) \in Nat
  PROVE  \E f : Filters(s, set, Len(s), f) /\ Filtered(s, set) = f[Len(s)]
<1> DEFINE f == CHOOSE g : g = [i \in 0 .. Len(s) |->
                                  IF i = 0 THEN <<>>
                                  ELSE IF s[i] \in set THEN Append(g[i - 1], s[i])
                                                       ELSE g[i - 1]]
<1>1. \E g : g = [i \in 0 .. Len(s) |->
                    IF i = 0 THEN <<>>
                    ELSE IF s[i] \in set THEN Append(g[i - 1], s[i]) ELSE g[i - 1]]
  <2>1. \E g : Filters(s, set, Len(s), g)
    BY FilterExists
  <2> QED
    BY <2>1 DEF Filters
<1>2. Filters(s, set, Len(s), f)
  BY <1>1 DEF Filters
<1>3. Filtered(s, set) = f[Len(s)]
  BY DEF Filtered
<1> QED
  BY <1>2, <1>3

\* t is what the first m elements of s have in the set, at ascending positions.
Picks(A, s, set, m, t, at) ==
  /\ t \in Seq(A)
  /\ at \in [1 .. Len(t) -> 1 .. m]
  /\ \A j \in 1 .. Len(t) : t[j] = s[at[j]]
  /\ \A i, j \in 1 .. Len(t) : i < j => at[i] < at[j]
  /\ \A i \in 1 .. m : s[i] \in set <=> \E j \in 1 .. Len(t) : at[j] = i

LEMMA PickOneMore ==
  ASSUME NEW A, NEW s \in Seq(A), NEW set, NEW m \in 1 .. Len(s), NEW t, NEW at,
         Picks(A, s, set, m - 1, t, at)
  PROVE  \E more : Picks(A, s, set, m, IF s[m] \in set THEN Append(t, s[m]) ELSE t, more)
<1>1. /\ t \in Seq(A) /\ Len(t) \in Nat /\ m \in Nat /\ s[m] \in A
      /\ at \in [1 .. Len(t) -> 1 .. (m - 1)]
      /\ \A j \in 1 .. Len(t) : t[j] = s[at[j]]
      /\ \A i, j \in 1 .. Len(t) : i < j => at[i] < at[j]
      /\ \A i \in 1 .. (m - 1) : s[i] \in set <=> \E j \in 1 .. Len(t) : at[j] = i
  BY DEF Picks
<1>2. CASE s[m] \notin set
  <2>1. at \in [1 .. Len(t) -> 1 .. m]
    BY <1>1
  <2>2. \A i \in 1 .. m : s[i] \in set <=> \E j \in 1 .. Len(t) : at[j] = i
    <3> SUFFICES ASSUME NEW i \in 1 .. m
                 PROVE  s[i] \in set <=> \E j \in 1 .. Len(t) : at[j] = i
      OBVIOUS
    <3>1. CASE i = m
      BY <1>1, <1>2, <3>1
    <3>2. CASE i # m
      BY <1>1, <3>2
    <3> QED
      BY <3>1, <3>2
  <2>3. Picks(A, s, set, m, t, at)
    BY <1>1, <2>1, <2>2 DEF Picks
  <2> QED
    BY <1>2, <2>3
<1>3. CASE s[m] \in set
  <2> DEFINE u    == Append(t, s[m])
             more == [j \in 1 .. (Len(t) + 1) |-> IF j = Len(t) + 1 THEN m ELSE at[j]]
  <2>1. /\ u \in Seq(A) /\ Len(u) = Len(t) + 1
        /\ \A j \in 1 .. (Len(t) + 1) : u[j] = IF j = Len(t) + 1 THEN s[m] ELSE t[j]
    BY <1>1
  <2>2. \A j \in 1 .. (Len(t) + 1) : more[j] = IF j = Len(t) + 1 THEN m ELSE at[j]
    OBVIOUS
  <2>3. more \in [1 .. (Len(t) + 1) -> 1 .. m]
    BY <1>1
  <2> HIDE DEF u, more
  <2>4. \A j \in 1 .. Len(u) : u[j] = s[more[j]]
    BY <1>1, <2>1, <2>2
  <2>5. \A i, j \in 1 .. Len(u) : i < j => more[i] < more[j]
    <3> SUFFICES ASSUME NEW i \in 1 .. Len(u), NEW j \in 1 .. Len(u), i < j
                 PROVE  more[i] < more[j]
      OBVIOUS
    <3>1. i \in 1 .. Len(t) /\ more[i] = at[i] /\ at[i] \in 1 .. (m - 1)
      BY <1>1, <2>1, <2>2
    <3>2. CASE j = Len(t) + 1
      <4>1. more[j] = m
        BY <2>1, <2>2, <3>2
      <4> QED
        BY <1>1, <3>1, <4>1
    <3>3. CASE j # Len(t) + 1
      <4>1. j \in 1 .. Len(t) /\ more[j] = at[j]
        BY <1>1, <2>1, <2>2, <3>3
      <4> QED
        BY <1>1, <3>1, <4>1
    <3> QED
      BY <3>2, <3>3
  <2>6. \A i \in 1 .. m : s[i] \in set <=> \E j \in 1 .. Len(u) : more[j] = i
    <3> SUFFICES ASSUME NEW i \in 1 .. m
                 PROVE  s[i] \in set <=> \E j \in 1 .. Len(u) : more[j] = i
      OBVIOUS
    <3>1. CASE i = m
      <4>1. Len(t) + 1 \in 1 .. Len(u) /\ more[Len(t) + 1] = i
        BY <1>1, <2>1, <2>2, <3>1
      <4> QED
        BY <1>3, <3>1, <4>1
    <3>2. CASE i # m
      <4>1. i \in 1 .. (m - 1)
        BY <1>1, <3>2
      <4>2. s[i] \in set <=> \E j \in 1 .. Len(t) : at[j] = i
        BY <1>1, <4>1
      <4>3. \A j \in 1 .. Len(t) : j \in 1 .. Len(u) /\ more[j] = at[j]
        BY <1>1, <2>1, <2>2
      <4>4. \A j \in 1 .. Len(u) : more[j] = i => j \in 1 .. Len(t) /\ more[j] = at[j]
        BY <1>1, <2>1, <2>2, <3>2
      <4>5. (\E j \in 1 .. Len(t) : at[j] = i) <=> \E j \in 1 .. Len(u) : more[j] = i
        BY <4>3, <4>4
      <4> QED
        BY <4>2, <4>5
    <3> QED
      BY <3>1, <3>2
  <2>7. Picks(A, s, set, m, u, more)
    BY <2>1, <2>3, <2>4, <2>5, <2>6 DEF Picks
  <2> QED
    BY <1>3, <2>7 DEF u
<1> QED
  BY <1>2, <1>3

\* Filtering keeps the elements of a set, each once and in their order.
LEMMA FilteredPicks ==
  ASSUME NEW A, NEW s \in Seq(A), NEW set
  PROVE  \E at : Picks(A, s, set, Len(s), Filtered(s, set), at)
<1>1. Len(s) \in Nat
  OBVIOUS
<1>2. PICK f : Filters(s, set, Len(s), f) /\ Filtered(s, set) = f[Len(s)]
  BY <1>1, FilteredFilters
<1> DEFINE Good(m) == \E at : Picks(A, s, set, m, f[m], at)
           T == {m \in 0 .. Len(s) : ~Good(m)}
<1>3. T = {}
  <2> SUFFICES ASSUME T # {} PROVE FALSE
    OBVIOUS
  <2>1. PICK m \in T : \A k \in T : m <= k
    <3>1. T \subseteq Nat
      BY <1>1
    <3> HIDE DEF T
    <3> QED
      BY <3>1, LeastNatural
  <2>2. m \in 0 .. Len(s) /\ ~Good(m)
    OBVIOUS
  <2>3. f[m] = IF m = 0 THEN <<>>
               ELSE IF s[m] \in set THEN Append(f[m - 1], s[m]) ELSE f[m - 1]
    BY <1>2, <2>2 DEF Filters
  <2>4. CASE m = 0
    <3>1. Picks(A, s, set, 0, <<>>, <<>>)
      BY DEF Picks
    <3> QED
      BY <2>2, <2>3, <2>4, <3>1
  <2>5. CASE m # 0
    <3>1. m - 1 \in 0 .. Len(s) /\ m \in 1 .. Len(s) /\ ~(m <= m - 1)
      BY <1>1, <2>2, <2>5
    <3>2. Good(m - 1)
      BY <2>1, <3>1
    <3>3. PICK at : Picks(A, s, set, m - 1, f[m - 1], at)
      BY <3>2
    <3>4. Good(m)
      BY <2>3, <2>5, <3>1, <3>3, PickOneMore
    <3> QED
      BY <2>2, <3>4
  <2> QED
    BY <2>4, <2>5
<1>4. Good(Len(s))
  BY <1>1, <1>3
<1> QED
  BY <1>2, <1>4

-----------------------------------------------------------------------------
(* Ranges *)

LEMMA CoveredMembers ==
  ASSUME NEW ranges, NEW k
  PROVE  k \in Covered(ranges) <=>
           \E i \in DOMAIN ranges : k \in ranges[i].start .. (ranges[i].end - 1)
BY DEF Covered

LEMMA RangesHaveEnds ==
  ASSUME NEW r \in Seq(Ranges)
  PROVE  /\ Len(r) \in Nat /\ DOMAIN r = 1 .. Len(r)
         /\ \A i \in 1 .. Len(r) :
              /\ r[i] \in Ranges
              /\ r[i].start \in Nat /\ r[i].end \in Nat
              /\ r[i] = [start |-> r[i].start, end |-> r[i].end]
<1>1. \A g \in Ranges : g.start \in Nat /\ g.end \in Nat /\ g = [start |-> g.start, end |-> g.end]
  BY DEF Ranges
<1>2. \A i \in 1 .. Len(r) : r[i] \in Ranges
  OBVIOUS
<1>3. Len(r) \in Nat /\ DOMAIN r = 1 .. Len(r)
  OBVIOUS
<1> QED
  BY <1>1, <1>2, <1>3, Zenon

LEMMA NotEmptyByIndex ==
  ASSUME NEW r \in Seq(Ranges)
  PROVE  NotEmpty(r) <=> \A i \in 1 .. Len(r) : r[i].start < r[i].end
BY RangesHaveEnds DEF NotEmpty

\* Ranges that are apart are the maximal runs of what they cover, in order.
LEMMA ApartAreRuns ==
  ASSUME NEW r \in Seq(Ranges), NotEmpty(r), Apart(r)
  PROVE  AreRunsOf(r, Covered(r))
<1> DEFINE C == Covered(r)
<1>1. /\ Len(r) \in Nat /\ DOMAIN r = 1 .. Len(r)
      /\ \A i \in 1 .. Len(r) :
           /\ r[i] \in Ranges
           /\ r[i].start \in Nat /\ r[i].end \in Nat /\ r[i].start < r[i].end
           /\ r[i] = [start |-> r[i].start, end |-> r[i].end]
  BY RangesHaveEnds, NotEmptyByIndex
<1>2. \A i, j \in 1 .. Len(r) : i < j => r[i].end < r[j].start
  BY <1>1 DEF Apart
<1>3. \A k : k \in C <=> \E i \in 1 .. Len(r) : k \in Int /\ r[i].start <= k /\ k < r[i].end
  <2>1. \A k : k \in C <=> \E i \in 1 .. Len(r) : k \in r[i].start .. (r[i].end - 1)
    BY <1>1, CoveredMembers
  <2>2. \A i \in 1 .. Len(r) : \A k :
          k \in r[i].start .. (r[i].end - 1) <=> k \in Int /\ r[i].start <= k /\ k < r[i].end
    BY <1>1
  <2> HIDE DEF C
  <2> QED
    BY <2>1, <2>2, Zenon
<1> HIDE DEF C
<1>4. ASSUME NEW i \in 1 .. Len(r)
      PROVE  /\ r[i].end \notin C
             /\ r[i].start - 1 \notin C
  <2>1. \A j \in 1 .. Len(r) : ~(r[j].start <= r[i].end /\ r[i].end < r[j].end)
    <3> SUFFICES ASSUME NEW j \in 1 .. Len(r), r[j].start <= r[i].end, r[i].end < r[j].end
                 PROVE  FALSE
      OBVIOUS
    <3>1. CASE j < i
      BY <1>1, <1>2, <3>1
    <3>2. CASE i < j
      BY <1>1, <1>2, <3>2
    <3>3. CASE i = j
      BY <1>1, <3>3
    <3> QED
      BY <1>1, <3>1, <3>2, <3>3
  <2>2. \A j \in 1 .. Len(r) : ~(r[j].start <= r[i].start - 1 /\ r[i].start - 1 < r[j].end)
    <3> SUFFICES ASSUME NEW j \in 1 .. Len(r), r[j].start <= r[i].start - 1,
                        r[i].start - 1 < r[j].end
                 PROVE  FALSE
      OBVIOUS
    <3>1. CASE j < i
      BY <1>1, <1>2, <3>1
    <3>2. CASE i < j
      BY <1>1, <1>2, <3>2
    <3>3. CASE i = j
      BY <1>1, <3>3
    <3> QED
      BY <1>1, <3>1, <3>2, <3>3
  <2> QED
    BY <1>3, <2>1, <2>2
<1>5. ToSet(r) \subseteq RunsOf(C)
  <2> SUFFICES ASSUME NEW i \in 1 .. Len(r) PROVE r[i] \in RunsOf(C)
    BY <1>1 DEF ToSet
  <2>1. \A k \in r[i].start .. (r[i].end - 1) : k \in C
    BY <1>1, <1>3
  <2>2. r[i].start \in C /\ r[i].end - 1 \in C /\ r[i].end = (r[i].end - 1) + 1
    BY <1>1, <2>1
  <2>3. r[i] \in [start : C, end : {p + 1 : p \in C}]
    BY <1>1, <2>2
  <2>4. IsMaximalRun(r[i], C)
    BY <1>1, <1>4, <2>1 DEF IsMaximalRun
  <2> QED
    BY <2>3, <2>4 DEF RunsOf
<1>6. RunsOf(C) \subseteq ToSet(r)
  <2> SUFFICES ASSUME NEW q \in RunsOf(C) PROVE \E i \in 1 .. Len(r) : q = r[i]
    BY <1>1 DEF ToSet
  <2>1. /\ q \in [start : C, end : {p + 1 : p \in C}]
        /\ IsMaximalRun(q, C)
    BY DEF RunsOf
  <2>2. q = [start |-> q.start, end |-> q.end] /\ q.start \in C
    BY <2>1
  <2>3. q.end \in Int
    <3>1. PICK p \in C : q.end = p + 1
      BY <2>1
    <3> QED
      BY <1>3, <3>1
  <2>4. PICK i \in 1 .. Len(r) : q.start \in Int /\ r[i].start <= q.start /\ q.start < r[i].end
    BY <1>3, <2>2
  <2>5. /\ q.start < q.end
        /\ \A k \in q.start .. (q.end - 1) : k \in C
        /\ q.start - 1 \notin C /\ q.end \notin C
    BY <2>1 DEF IsMaximalRun
  <2>6. q.start = r[i].start
    <3>1. CASE r[i].start < q.start
      <4>1. r[i].start <= q.start - 1 /\ q.start - 1 < r[i].end /\ q.start - 1 \in Int
        BY <1>1, <2>4, <3>1
      <4> QED
        BY <1>3, <2>5, <4>1
    <3> QED
      BY <1>1, <2>4, <3>1
  <2>7. q.end = r[i].end
    <3>1. CASE q.end < r[i].end
      <4>1. r[i].start <= q.end
        BY <1>1, <2>3, <2>4, <2>5
      <4> QED
        BY <1>3, <2>3, <2>5, <3>1, <4>1
    <3>2. CASE r[i].end < q.end
      <4>1. r[i].end \in q.start .. (q.end - 1)
        BY <1>1, <2>3, <2>4, <3>2
      <4> QED
        BY <1>4, <2>5, <4>1
    <3> QED
      BY <1>1, <2>3, <3>1, <3>2
  <2>8. q = r[i]
    BY <1>1, <2>2, <2>6, <2>7
  <2> QED
    BY <2>8
<1>7. \A i \in 1 .. (Len(r) - 1) : r[i].start < r[i + 1].start
  <2> SUFFICES ASSUME NEW i \in 1 .. (Len(r) - 1) PROVE r[i].start < r[i + 1].start
    OBVIOUS
  <2>1. i \in 1 .. Len(r) /\ i + 1 \in 1 .. Len(r) /\ i < i + 1
    BY <1>1
  <2>2. r[i].end < r[i + 1].start
    BY <1>2, <2>1
  <2> QED
    BY <1>1, <2>1, <2>2
<1> QED
  BY <1>5, <1>6, <1>7 DEF AreRunsOf, C

-----------------------------------------------------------------------------
(* Merging gaps *)

Merges(gaps, n, f) ==
  f = [g \in 0 .. n |-> IF g = 0 THEN <<>> ELSE MergeGap(f[g - 1], gaps[g])]

\* The recursion of MergeAdjacentGaps has a solution.
LEMMA MergeExists ==
  ASSUME NEW gaps, NEW n \in Nat
  PROVE  \E f : Merges(gaps, n, f)
<1> DEFINE T == {m \in Nat : ~\E f : Merges(gaps, m, f)}
<1> SUFFICES ASSUME T # {} PROVE FALSE
  OBVIOUS
<1>1. PICK m \in T : \A k \in T : m <= k
  <2>1. T \subseteq Nat
    OBVIOUS
  <2> HIDE DEF T
  <2> QED
    BY <2>1, LeastNatural
<1>2. m # 0
  <2> SUFFICES ASSUME m = 0 PROVE \E f : Merges(gaps, 0, f)
    OBVIOUS
  <2>1. Merges(gaps, 0, [g \in 0 .. 0 |-> <<>>])
    BY DEF Merges
  <2> QED
    BY <2>1
<1>3. m - 1 \in Nat /\ m - 1 \notin T /\ m \in Nat
  BY <1>1, <1>2
<1>4. PICK f : Merges(gaps, m - 1, f)
  BY <1>3
<1> HIDE DEF T
<1> DEFINE h == [g \in 0 .. m |-> IF g = m THEN MergeGap(f[g - 1], gaps[g]) ELSE f[g]]
<1>5. \A g \in 0 .. m : h[g] = IF g = 0 THEN <<>> ELSE MergeGap(h[g - 1], gaps[g])
  <2> SUFFICES ASSUME NEW g \in 0 .. m
               PROVE  h[g] = IF g = 0 THEN <<>> ELSE MergeGap(h[g - 1], gaps[g])
    OBVIOUS
  <2>1. g # 0 => h[g - 1] = f[g - 1]
    BY <1>3
  <2>2. CASE g = m
    BY <1>2, <2>1, <2>2
  <2>3. CASE g # m
    <3>1. g \in 0 .. (m - 1)
      BY <1>3, <2>3
    <3>2. f[g] = IF g = 0 THEN <<>> ELSE MergeGap(f[g - 1], gaps[g])
      BY <1>4, <3>1 DEF Merges
    <3> QED
      BY <2>1, <2>3, <3>2
  <2> QED
    BY <2>2, <2>3
<1>6. Merges(gaps, m, h)
  BY <1>5 DEF Merges
<1> QED
  BY <1>1, <1>6 DEF T

LEMMA MergedMerges ==
  ASSUME NEW gaps, Len(gaps) \in Nat
  PROVE  \E f : Merges(gaps, Len(gaps), f) /\ MergeAdjacentGaps(gaps) = f[Len(gaps)]
<1> DEFINE f == CHOOSE h : h = [g \in 0 .. Len(gaps) |->
                                  IF g = 0 THEN <<>> ELSE MergeGap(h[g - 1], gaps[g])]
<1>1. \E h : h = [g \in 0 .. Len(gaps) |->
                    IF g = 0 THEN <<>> ELSE MergeGap(h[g - 1], gaps[g])]
  <2>1. \E h : Merges(gaps, Len(gaps), h)
    BY MergeExists
  <2> QED
    BY <2>1 DEF Merges
<1>2. Merges(gaps, Len(gaps), f)
  BY <1>1 DEF Merges
<1>3. MergeAdjacentGaps(gaps) = f[Len(gaps)]
  BY DEF MergeAdjacentGaps
<1> QED
  BY <1>2, <1>3

CoveredFirst(gaps, k) == UNION {gaps[i].start .. (gaps[i].end - 1) : i \in 1 .. k}

\* m is what merging makes of the first k gaps.
MergesTo(gaps, k, m) ==
  /\ m \in Seq(Ranges) /\ NotEmpty(m) /\ Apart(m)
  /\ Covered(m) = CoveredFirst(gaps, k)
  /\ k > 0 => m # <<>> /\ m[Len(m)].end = gaps[k].end

InOrder(gaps) == \A i \in 1 .. (Len(gaps) - 1) : gaps[i].end <= gaps[i + 1].start

LEMMA MergeOneMore ==
  ASSUME NEW gaps \in Seq(Ranges), NotEmpty(gaps), InOrder(gaps),
         NEW k \in 1 .. Len(gaps), NEW m, MergesTo(gaps, k - 1, m)
  PROVE  MergesTo(gaps, k, MergeGap(m, gaps[k]))
<1> DEFINE gap  == gaps[k]
           n    == MergeGap(m, gap)
           last == Len(m)
<1>1. /\ Len(gaps) \in Nat /\ k \in Nat
      /\ gap \in Ranges /\ gap.start \in Nat /\ gap.end \in Nat /\ gap.start < gap.end
  <2>1. gaps[k] \in Ranges /\ gaps[k].start \in Nat /\ gaps[k].end \in Nat
    BY RangesHaveEnds, Zenon
  <2>2. gaps[k].start < gaps[k].end
    BY NotEmptyByIndex, Zenon
  <2> QED
    BY <2>1, <2>2
<1>2. ASSUME k # 1
      PROVE  gaps[k - 1].end \in Nat /\ gaps[k - 1].end <= gap.start
  <2>1. k - 1 \in 1 .. (Len(gaps) - 1) /\ k - 1 \in 1 .. Len(gaps) /\ k - 1 + 1 = k
    BY <1>1, <1>2
  <2>2. gaps[k - 1] \in Ranges
    BY <2>1
  <2>3. gaps[k - 1].end <= gaps[k - 1 + 1].start
    BY <2>1 DEF InOrder
  <2> QED
    BY <2>1, <2>2, <2>3 DEF Ranges
<1>3. m \in Seq(Ranges) /\ last \in Nat /\ DOMAIN m = 1 .. last
  BY DEF MergesTo
<1>4. \A i \in 1 .. last :
        /\ m[i] \in Ranges
        /\ m[i].start \in Nat /\ m[i].end \in Nat /\ m[i].start < m[i].end
  <2>1. \A i \in 1 .. last : m[i].start < m[i].end
    BY <1>3 DEF MergesTo, NotEmpty
  <2> QED
    BY <1>3, <2>1, RangesHaveEnds
<1>5. \A i, j \in 1 .. last : i < j => m[i].end < m[j].start
  BY <1>3 DEF MergesTo, Apart
<1>6. Covered(m) = CoveredFirst(gaps, k - 1)
  BY DEF MergesTo
<1>7. k # 1 => m # <<>> /\ m[last].end = gaps[k - 1].end
  <2>1. k # 1 => k - 1 > 0
    BY <1>1
  <2> QED
    BY <2>1 DEF MergesTo
<1>8. m # <<>> => last \in 1 .. last
  BY <1>3
<1>9. \A x : x \in CoveredFirst(gaps, k) <=>
               x \in CoveredFirst(gaps, k - 1) \/ x \in gap.start .. (gap.end - 1)
  <2>1. \A i \in 1 .. k : i = k \/ i \in 1 .. (k - 1)
    BY <1>1
  <2>2. k \in 1 .. k /\ \A i \in 1 .. (k - 1) : i \in 1 .. k
    BY <1>1
  <2> QED
    BY <2>1, <2>2 DEF CoveredFirst
<1>10. CASE m # <<>> /\ m[last].end = gap.start
  <2>1. last \in 1 .. last
    BY <1>8, <1>10
  <2> DEFINE longer == [m[last] EXCEPT !.end = gap.end]
  <2>2. longer \in Ranges /\ longer.start = m[last].start /\ longer.end = gap.end
    BY <1>1, <1>4, <2>1 DEF Ranges
  <2>3. n = [m EXCEPT ![last] = longer]
    BY <1>10 DEF MergeGap, Last
  <2> HIDE DEF longer, n
  <2>4. /\ n \in Seq(Ranges) /\ Len(n) = last /\ DOMAIN n = 1 .. last
        /\ n[last] = longer
    BY <1>3, <2>1, <2>2, <2>3
  <2>5. \A i \in 1 .. last : i # last => n[i] = m[i]
    BY <1>3, <2>3
  <2> HIDE DEF last
  <2>6. m[last].start < gap.start /\ gap.start < gap.end
    BY <1>1, <1>4, <1>10, <2>1
  <2>7. \A i \in 1 .. last : n[i].start < n[i].end
    <3>1. n[last].start < n[last].end
      BY <1>1, <1>4, <2>1, <2>2, <2>4, <2>6
    <3> QED
      BY <1>4, <2>5, <3>1
  <2>8. \A i, j \in 1 .. last : i < j => n[i].end < n[j].start
    <3> SUFFICES ASSUME NEW i \in 1 .. last, NEW j \in 1 .. last, i < j
                 PROVE  n[i].end < n[j].start
      OBVIOUS
    <3>1. i # last
      BY <1>3
    <3>2. n[i] = m[i] /\ n[j].start = m[j].start
      BY <2>2, <2>4, <2>5, <3>1
    <3> QED
      BY <1>5, <3>2
  <2>9. \A x : x \in n[last].start .. (n[last].end - 1) <=>
                 \/ x \in m[last].start .. (m[last].end - 1)
                 \/ x \in gap.start .. (gap.end - 1)
    BY <1>1, <1>4, <1>10, <2>1, <2>2, <2>4, <2>6
  <2>10. \A x : x \in Covered(n) <=> x \in Covered(m) \/ x \in gap.start .. (gap.end - 1)
    <3>1. \A x : x \in Covered(n) <=> \E i \in 1 .. last : x \in n[i].start .. (n[i].end - 1)
      BY <2>4, CoveredMembers
    <3>2. \A x : x \in Covered(m) <=> \E i \in 1 .. last : x \in m[i].start .. (m[i].end - 1)
      BY <1>3, CoveredMembers
    <3> QED
      BY <2>1, <2>5, <2>9, <3>1, <3>2, Zenon
  <2>11. Covered(n) = CoveredFirst(gaps, k)
    BY <1>6, <1>9, <2>10
  <2>12. n # <<>> /\ n[Len(n)].end = gap.end
    BY <2>1, <2>2, <2>4
  <2>13. NotEmpty(n) /\ Apart(n)
    BY <2>4, <2>7, <2>8 DEF NotEmpty, Apart
  <2> QED
    BY <2>4, <2>11, <2>12, <2>13 DEF MergesTo, n
<1>11. CASE ~(m # <<>> /\ m[last].end = gap.start)
  <2>1. n = Append(m, gap)
    BY <1>11 DEF MergeGap, Last
  <2> HIDE DEF n
  <2>2. /\ n \in Seq(Ranges) /\ Len(n) = last + 1 /\ DOMAIN n = 1 .. (last + 1)
        /\ n[last + 1] = gap
    BY <1>1, <1>3, <2>1
  <2>3. \A i \in 1 .. last : n[i] = m[i]
    BY <1>1, <1>3, <2>1
  <2>4. /\ \A i \in 1 .. (last + 1) : i = last + 1 \/ i \in 1 .. last
        /\ \A i \in 1 .. last : i \in 1 .. (last + 1)
        /\ last + 1 \in 1 .. (last + 1)
    BY <1>3
  <2>5. \A i \in 1 .. last : m[i].end < gap.start
    <3> SUFFICES ASSUME NEW i \in 1 .. last PROVE m[i].end < gap.start
      OBVIOUS
    <3>1. m # <<>> /\ last \in 1 .. last
      BY <1>3
    <3>2. k # 1
      <4> SUFFICES ASSUME k = 1 PROVE FALSE
        OBVIOUS
      <4>1. CoveredFirst(gaps, k - 1) = {}
        BY DEF CoveredFirst
      <4>2. m[i].start \in m[i].start .. (m[i].end - 1)
        BY <1>4
      <4>3. m[i].start \in Covered(m)
        BY <1>3, <4>2, CoveredMembers
      <4> QED
        BY <1>6, <4>1, <4>3
    <3>3. m[last].end <= gap.start /\ m[last].end # gap.start
      BY <1>2, <1>7, <1>11, <3>1, <3>2
    <3> HIDE DEF last, gap
    <3>4. m[last].end < gap.start
      BY <1>1, <1>4, <3>1, <3>3
    <3>5. CASE i # last
      <4>1. i < last
        BY <1>3, <3>5
      <4>2. m[i].end < m[last].start /\ m[last].start < m[last].end
        BY <1>4, <1>5, <3>1, <4>1
      <4> QED
        BY <1>1, <1>4, <3>1, <3>4, <4>2
    <3> QED
      BY <3>4, <3>5
  <2> HIDE DEF last, gap
  <2>6. NotEmpty(n)
    BY <1>1, <1>4, <2>2, <2>3, <2>4 DEF NotEmpty
  <2>7. Apart(n)
    <3> SUFFICES ASSUME NEW i \in 1 .. (last + 1), NEW j \in 1 .. (last + 1), i < j
                 PROVE  n[i].end < n[j].start
      BY <2>2 DEF Apart
    <3>1. i \in 1 .. last
      BY <1>3
    <3>2. CASE j = last + 1
      BY <2>2, <2>3, <2>5, <3>1, <3>2
    <3>3. CASE j \in 1 .. last
      BY <1>5, <2>3, <3>1, <3>3
    <3> QED
      BY <2>4, <3>2, <3>3
  <2>8. \A x : x \in Covered(n) <=> x \in Covered(m) \/ x \in gap.start .. (gap.end - 1)
    <3>1. \A x : x \in Covered(n) <=>
                   \E i \in 1 .. (last + 1) : x \in n[i].start .. (n[i].end - 1)
      BY <2>2, CoveredMembers
    <3>2. \A x : x \in Covered(m) <=> \E i \in 1 .. last : x \in m[i].start .. (m[i].end - 1)
      BY <1>3, CoveredMembers
    <3>3. \A x : x \in n[last + 1].start .. (n[last + 1].end - 1) <=>
                   x \in gap.start .. (gap.end - 1)
      BY <2>2
    <3> QED
      BY <2>3, <2>4, <3>1, <3>2, <3>3, Zenon
  <2>9. Covered(n) = CoveredFirst(gaps, k)
    BY <1>6, <1>9, <2>8
  <2>10. n # <<>> /\ n[Len(n)].end = gap.end
    BY <1>3, <2>2
  <2> QED
    BY <2>2, <2>6, <2>7, <2>9, <2>10 DEF MergesTo, n, gap
<1> QED
  BY <1>10, <1>11

\* Merging ranges in order leaves ranges apart that cover the same.
LEMMA MergingKeepsApart ==
  ASSUME NEW gaps \in Seq(Ranges), NotEmpty(gaps), InOrder(gaps)
  PROVE  /\ MergeAdjacentGaps(gaps) \in Seq(Ranges)
         /\ NotEmpty(MergeAdjacentGaps(gaps))
         /\ Apart(MergeAdjacentGaps(gaps))
         /\ Covered(MergeAdjacentGaps(gaps)) = Covered(gaps)
<1>1. Len(gaps) \in Nat /\ DOMAIN gaps = 1 .. Len(gaps)
  OBVIOUS
<1>2. PICK f : Merges(gaps, Len(gaps), f) /\ MergeAdjacentGaps(gaps) = f[Len(gaps)]
  BY <1>1, MergedMerges
<1> DEFINE T == {k \in 0 .. Len(gaps) : ~MergesTo(gaps, k, f[k])}
<1>3. T = {}
  <2> SUFFICES ASSUME T # {} PROVE FALSE
    OBVIOUS
  <2>1. PICK k \in T : \A j \in T : k <= j
    <3>1. T \subseteq Nat
      BY <1>1
    <3> HIDE DEF T
    <3> QED
      BY <3>1, LeastNatural
  <2>2. k \in 0 .. Len(gaps) /\ ~MergesTo(gaps, k, f[k])
    OBVIOUS
  <2>3. f[k] = IF k = 0 THEN <<>> ELSE MergeGap(f[k - 1], gaps[k])
    BY <1>2, <2>2 DEF Merges
  <2>4. CASE k = 0
    <3>1. Covered(<<>>) = {} /\ CoveredFirst(gaps, 0) = {}
      BY DEF Covered, CoveredFirst
    <3>2. <<>> \in Seq(Ranges) /\ DOMAIN <<>> = {}
      OBVIOUS
    <3>3. NotEmpty(<<>>) /\ Apart(<<>>)
      BY <3>2 DEF NotEmpty, Apart
    <3>4. ~(0 > 0)
      OBVIOUS
    <3>5. MergesTo(gaps, 0, <<>>)
      BY <3>1, <3>2, <3>3, <3>4, Zenon DEF MergesTo
    <3> QED
      BY <2>2, <2>3, <2>4, <3>5
  <2>5. CASE k # 0
    <3>1. k - 1 \in 0 .. Len(gaps) /\ k \in 1 .. Len(gaps) /\ ~(k <= k - 1)
      BY <1>1, <2>2, <2>5
    <3>2. MergesTo(gaps, k - 1, f[k - 1])
      BY <2>1, <3>1
    <3>3. MergesTo(gaps, k, MergeGap(f[k - 1], gaps[k]))
      BY <3>1, <3>2, MergeOneMore
    <3> QED
      BY <2>2, <2>3, <2>5, <3>3
  <2> QED
    BY <2>4, <2>5
<1>4. MergesTo(gaps, Len(gaps), f[Len(gaps)])
  BY <1>1, <1>3
<1>5. CoveredFirst(gaps, Len(gaps)) = Covered(gaps)
  BY <1>1 DEF CoveredFirst, Covered
<1> QED
  BY <1>2, <1>4, <1>5 DEF MergesTo

-----------------------------------------------------------------------------
(* Normalising a piece *)

\* Segments that are well formed one after the other are apart, all of them.
LEMMA WellFormedIsApart ==
  ASSUME NEW segs \in Seq(Ranges), NEW len \in Nat, WellFormed(len, segs)
  PROVE  NotEmpty(segs) /\ Apart(segs) /\ \A i \in 1 .. Len(segs) : segs[i].end <= len
<1>1. /\ Len(segs) \in Nat /\ DOMAIN segs = 1 .. Len(segs)
      /\ \A i \in 1 .. Len(segs) : segs[i].start \in Nat /\ segs[i].end \in Nat
  BY RangesHaveEnds
<1>2. \A i \in 1 .. Len(segs) :
        /\ segs[i].start < segs[i].end
        /\ segs[i].end <= len
        /\ i > 1 => segs[i].start > segs[i - 1].end
  BY <1>1 DEF WellFormed
<1> DEFINE Behind(j) == \A i \in 1 .. (j - 1) : segs[i].end < segs[j].start
           T == {j \in 1 .. Len(segs) : ~Behind(j)}
<1>3. T = {}
  <2> SUFFICES ASSUME T # {} PROVE FALSE
    OBVIOUS
  <2>1. PICK j \in T : \A k \in T : j <= k
    <3>1. T \subseteq Nat
      BY <1>1
    <3> HIDE DEF T
    <3> QED
      BY <3>1, LeastNatural
  <2>2. j \in 1 .. Len(segs) /\ ~Behind(j)
    OBVIOUS
  <2>3. PICK i \in 1 .. (j - 1) : ~(segs[i].end < segs[j].start)
    BY <2>2
  <2>4. j - 1 \in 1 .. Len(segs) /\ j > 1 /\ i \in 1 .. Len(segs) /\ ~(j <= j - 1)
    BY <1>1, <2>2
  <2>5. Behind(j - 1)
    BY <2>1, <2>4
  <2>6. CASE i = j - 1
    BY <1>1, <1>2, <2>2, <2>3, <2>4, <2>6
  <2>7. CASE i # j - 1
    <3>1. i \in 1 .. (j - 1 - 1)
      BY <2>2, <2>4, <2>7
    <3>2. segs[i].end < segs[j - 1].start
      BY <2>5, <3>1
    <3>3. segs[j - 1].start < segs[j - 1].end /\ segs[j].start > segs[j - 1].end
      BY <1>2, <2>2, <2>4
    <3>4. /\ segs[i].end \in Nat /\ segs[j].start \in Nat
          /\ segs[j - 1].start \in Nat /\ segs[j - 1].end \in Nat
      BY <1>1, <2>2, <2>4
    <3>5. \A a, b, c, d \in Nat : a < b /\ b < c /\ d > c => a < d
      OBVIOUS
    <3> QED
      BY <2>3, <3>2, <3>3, <3>4, <3>5, Zenon
  <2> QED
    BY <2>6, <2>7
<1>4. \A i, j \in 1 .. Len(segs) : i < j => segs[i].end < segs[j].start
  <2> SUFFICES ASSUME NEW i \in 1 .. Len(segs), NEW j \in 1 .. Len(segs), i < j
               PROVE  segs[i].end < segs[j].start
    OBVIOUS
  <2>1. i \in 1 .. (j - 1)
    BY <1>1
  <2>2. Behind(j)
    BY <1>3
  <2> QED
    BY <2>1, <2>2
<1> QED
  BY <1>1, <1>2, <1>4 DEF NotEmpty, Apart

\* The gaps between segments are apart, and cover what the segments do not.
LEMMA GapsAreTheRest ==
  ASSUME NEW segs \in Seq(Ranges), NEW len \in Nat, NotEmpty(segs), Apart(segs),
         \A i \in 1 .. Len(segs) : segs[i].end <= len
  PROVE  /\ GapsBetween(len, segs) \in Seq(Ranges)
         /\ NotEmpty(GapsBetween(len, segs))
         /\ Apart(GapsBetween(len, segs))
         /\ Covered(GapsBetween(len, segs)) = (0 .. (len - 1)) \ Covered(segs)
<1> DEFINE n      == Len(segs)
           ends   == <<0>> \o [i \in DOMAIN segs |-> segs[i].end]
           starts == [i \in DOMAIN segs |-> segs[i].start] \o <<len>>
           raw    == [i \in DOMAIN ends |-> [start |-> ends[i], end |-> starts[i]]]
           set    == {r \in ToSet(raw) : r.start < r.end}
           t      == GapsBetween(len, segs)
<1>1. /\ n \in Nat /\ DOMAIN segs = 1 .. n
      /\ \A i \in 1 .. n : /\ segs[i].start \in Nat /\ segs[i].end \in Nat
                           /\ segs[i].start < segs[i].end /\ segs[i].end <= len
  BY RangesHaveEnds, NotEmptyByIndex
<1>2. \A i, j \in 1 .. n : i < j => segs[i].end < segs[j].start
  BY <1>1 DEF Apart
<1>3. /\ DOMAIN ends = 1 .. (n + 1)
      /\ ends[1] = 0 /\ \A i \in 1 .. n : ends[i + 1] = segs[i].end
  <2> DEFINE e == [i \in 1 .. n |-> segs[i].end]
  <2>1. e \in Seq(Nat) /\ Len(e) = n /\ \A i \in 1 .. n : e[i] = segs[i].end
    BY <1>1
  <2>2. ends = <<0>> \o e
    BY <1>1
  <2> HIDE DEF e, ends, n
  <2>3. <<0>> \in Seq(Nat) /\ Len(<<0>>) = 1 /\ <<0>>[1] = 0
    OBVIOUS
  <2>4. /\ DOMAIN ends = 1 .. (n + 1)
        /\ \A k \in 1 .. (n + 1) : ends[k] = IF k <= 1 THEN <<0>>[k] ELSE e[k - 1]
    BY <1>1, <2>1, <2>2, <2>3
  <2>5. \A i \in 1 .. n : i + 1 \in 1 .. (n + 1) /\ ~(i + 1 <= 1) /\ i + 1 - 1 = i
    BY <1>1
  <2>6. 1 \in 1 .. (n + 1)
    BY <1>1
  <2> QED
    BY <2>1, <2>3, <2>4, <2>5, <2>6
<1>4. starts[n + 1] = len /\ \A i \in 1 .. n : starts[i] = segs[i].start
  <2> DEFINE b   == [i \in 1 .. n |-> segs[i].start]
             end == <<len>>
  <2>1. b \in Seq(Nat) /\ Len(b) = n /\ \A i \in 1 .. n : b[i] = segs[i].start
    BY <1>1
  <2>2. starts = b \o end
    BY <1>1
  <2> HIDE DEF b, starts, n
  <2>3. end \in Seq(Nat) /\ Len(end) = 1 /\ end[1] = len
    OBVIOUS
  <2>4. \A k \in 1 .. (n + 1) : starts[k] = IF k <= n THEN b[k] ELSE end[k - n]
    BY <1>1, <2>1, <2>2, <2>3
  <2> HIDE DEF end
  <2>5. n + 1 \in 1 .. (n + 1) /\ ~(n + 1 <= n) /\ n + 1 - n = 1
    BY <1>1
  <2>6. \A i \in 1 .. n : i \in 1 .. (n + 1) /\ i <= n
    BY <1>1
  <2>7. starts[n + 1] = len
    <3>1. n \in Nat
      BY <1>1
    <3>2. starts[n + 1] = end[n + 1 - n]
      BY <2>4, <2>5, <3>1
    <3> QED
      BY <2>3, <3>1, <3>2
  <2>8. \A i \in 1 .. n : starts[i] = segs[i].start
    BY <2>1, <2>4, <2>6
  <2> QED
    BY <2>7, <2>8
<1>5. /\ raw = [i \in 1 .. (n + 1) |-> [start |-> ends[i], end |-> starts[i]]]
      /\ \A i \in 1 .. (n + 1) : raw[i].start = ends[i] /\ raw[i].end = starts[i]
  BY <1>3
<1>6. t = Filtered(raw, set)
  BY DEF GapsBetween, NonEmptyRanges
<1> HIDE DEF ends, starts, t
<1>7. \A i \in 1 .. (n + 1) :
        /\ ends[i] \in Nat /\ starts[i] \in Nat
        /\ i # 1 => i - 1 \in 1 .. n /\ ends[i] = segs[i - 1].end
        /\ i # n + 1 => i \in 1 .. n /\ starts[i] = segs[i].start
  <2> SUFFICES ASSUME NEW i \in 1 .. (n + 1)
               PROVE  /\ ends[i] \in Nat /\ starts[i] \in Nat
                      /\ i # 1 => i - 1 \in 1 .. n /\ ends[i] = segs[i - 1].end
                      /\ i # n + 1 => i \in 1 .. n /\ starts[i] = segs[i].start
    OBVIOUS
  <2> HIDE DEF n
  <2>1. i # 1 => i - 1 \in 1 .. n /\ i - 1 + 1 = i
    BY <1>1
  <2>2. i # 1 => ends[i] = segs[i - 1].end /\ ends[i] \in Nat
    BY <1>1, <1>3, <2>1
  <2>3. i # n + 1 => i \in 1 .. n /\ starts[i] = segs[i].start /\ starts[i] \in Nat
    BY <1>1, <1>4
  <2> QED
    BY <1>3, <1>4, <2>1, <2>2, <2>3
<1>8. raw \in Seq(Ranges) /\ Len(raw) = n + 1
  <2>1. \A i \in 1 .. (n + 1) : [start |-> ends[i], end |-> starts[i]] \in Ranges
    BY <1>7 DEF Ranges
  <2> HIDE DEF n
  <2> QED
    BY <1>1, <1>5, <2>1
<1> HIDE DEF n
<1>9. ASSUME NEW i \in 1 .. (n + 1), NEW j \in 1 .. (n + 1), i < j
      PROVE  raw[i].end < raw[j].start
  <2>1. i \in 1 .. n /\ raw[i].end = segs[i].start /\ j - 1 \in 1 .. n /\ raw[j].start = segs[j - 1].end
    BY <1>1, <1>5, <1>7, <1>9
  <2>2. CASE i = j - 1
    BY <1>1, <2>1, <2>2
  <2>3. CASE i # j - 1
    <3>1. i < j - 1
      BY <1>1, <1>9, <2>3
    <3>2. segs[i].end < segs[j - 1].start
      BY <1>2, <2>1, <3>1
    <3> QED
      BY <1>1, <2>1, <3>2
  <2> QED
    BY <2>2, <2>3
<1> DEFINE In(i, x) == ends[i] <= x /\ x < starts[i]
<1>10. ASSUME NEW x \in Int, NEW i \in 1 .. (n + 1), In(i, x)
       PROVE  x \in (0 .. (len - 1)) \ Covered(segs)
  <2>1. 0 <= x /\ x < len
    <3>1. starts[i] <= len
      <4>1. CASE i = n + 1
        BY <1>4, <4>1
      <4>2. CASE i # n + 1
        <5>1. i \in 1 .. n /\ starts[i] = segs[i].start
          BY <1>7, <4>2
        <5>2. segs[i].start < segs[i].end /\ segs[i].end <= len /\ segs[i].start \in Nat /\ segs[i].end \in Nat
          BY <1>1, <5>1
        <5> QED
          BY <5>1, <5>2
      <4> QED
        BY <4>1, <4>2
    <3> QED
      BY <1>7, <1>10, <3>1
  <2>2. \A j \in 1 .. n : ~(segs[j].start <= x /\ x < segs[j].end)
    <3> SUFFICES ASSUME NEW j \in 1 .. n, segs[j].start <= x, x < segs[j].end
                 PROVE  FALSE
      OBVIOUS
    <3>1. CASE j < i
      <4>1. i # 1 /\ i - 1 \in 1 .. n /\ ends[i] = segs[i - 1].end
        BY <1>1, <1>7, <3>1
      <4>2. segs[j].end <= segs[i - 1].end
        <5>1. CASE j = i - 1
          BY <1>1, <5>1
        <5>2. CASE j # i - 1
          <6>1. j < i - 1
            BY <1>1, <3>1, <5>2
          <6>2. segs[j].end < segs[i - 1].start
            BY <1>2, <4>1, <6>1
          <6> QED
            BY <1>1, <4>1, <6>2
        <5> QED
          BY <5>1, <5>2
      <4> QED
        BY <1>1, <1>10, <4>1, <4>2
    <3>2. CASE i <= j
      <4>1. i \in 1 .. n /\ starts[i] = segs[i].start
        BY <1>1, <1>7, <3>2
      <4>2. segs[i].start <= segs[j].start
        <5>1. CASE i = j
          BY <1>1, <5>1
        <5>2. CASE i # j
          <6>1. segs[i].end < segs[j].start
            BY <1>2, <3>2, <4>1, <5>2
          <6> QED
            BY <1>1, <4>1, <6>1
        <5> QED
          BY <5>1, <5>2
      <4> QED
        BY <1>1, <1>10, <4>1, <4>2
    <3> QED
      BY <1>1, <3>1, <3>2
  <2>3. x \notin Covered(segs)
    BY <1>1, <2>2, CoveredMembers
  <2> QED
    BY <2>1, <2>3
<1>11. ASSUME NEW x \in 0 .. (len - 1), x \notin Covered(segs)
       PROVE  \E i \in 1 .. (n + 1) : In(i, x)
  <2>1. \A j \in 1 .. n : x < segs[j].start \/ segs[j].end <= x
    BY <1>1, <1>11, CoveredMembers
  <2> DEFINE T == {i \in 1 .. (n + 1) : x < starts[i]}
  <2>2. n + 1 \in T
    BY <1>1, <1>4
  <2>3. PICK i \in T : \A k \in T : i <= k
    <3>1. T \subseteq Nat /\ T # {}
      BY <1>1, <2>2
    <3> HIDE DEF T
    <3> QED
      BY <3>1, LeastNatural
  <2>4. i \in 1 .. (n + 1) /\ x < starts[i]
    OBVIOUS
  <2>5. CASE i = 1
    <3>1. ends[i] <= x
      BY <1>3, <2>5
    <3> QED
      BY <2>4, <3>1
  <2>6. CASE i # 1
    <3>1. i - 1 \in 1 .. n /\ ends[i] = segs[i - 1].end
      BY <1>7, <2>4, <2>6
    <3>2. i - 1 \in 1 .. (n + 1) /\ ~(i <= i - 1) /\ starts[i - 1] = segs[i - 1].start
      BY <1>1, <1>4, <3>1
    <3>3. ~(x < segs[i - 1].start)
      BY <2>3, <3>2
    <3>4. ends[i] <= x
      BY <2>1, <3>1, <3>3
    <3> QED
      BY <2>4, <3>4
  <2> QED
    BY <2>5, <2>6
<1> HIDE DEF raw
<1>12. PICK at : Picks(Ranges, raw, set, n + 1, t, at)
  BY <1>6, <1>8, FilteredPicks
<1>13. /\ t \in Seq(Ranges) /\ Len(t) \in Nat /\ DOMAIN t = 1 .. Len(t)
       /\ at \in [1 .. Len(t) -> 1 .. (n + 1)]
       /\ \A j \in 1 .. Len(t) : t[j] = raw[at[j]]
       /\ \A i, j \in 1 .. Len(t) : i < j => at[i] < at[j]
       /\ \A i \in 1 .. (n + 1) : raw[i] \in set <=> \E j \in 1 .. Len(t) : at[j] = i
  BY <1>12 DEF Picks
<1>14. \A i \in 1 .. (n + 1) : raw[i] \in set <=> raw[i].start < raw[i].end
  <2>1. \A i \in 1 .. (n + 1) : raw[i] \in ToSet(raw)
    BY <1>1, <1>8 DEF ToSet
  <2> QED
    BY <2>1
<1> HIDE DEF set
<1>15. NotEmpty(t)
  <2>1. \A j \in 1 .. Len(t) : t[j].start < t[j].end
    BY <1>13, <1>14
  <2> QED
    BY <1>13, <2>1 DEF NotEmpty
<1>16. Apart(t)
  <2>1. \A i, j \in 1 .. Len(t) : i < j => t[i].end < t[j].start
    BY <1>9, <1>13
  <2> QED
    BY <1>13, <2>1 DEF Apart
<1>17. \A x : x \in Covered(t) <=> x \in Int /\ \E i \in 1 .. (n + 1) : In(i, x)
  <2>1. \A x : x \in Covered(t) <=> \E j \in 1 .. Len(t) : x \in t[j].start .. (t[j].end - 1)
    BY <1>13, CoveredMembers
  <2>2. \A i \in 1 .. (n + 1) : \A x :
          x \in raw[i].start .. (raw[i].end - 1) <=> x \in Int /\ In(i, x)
    BY <1>5, <1>7
  <2>3. \A i \in 1 .. (n + 1) : \A x :
          x \in Int /\ In(i, x) => raw[i].start < raw[i].end
    BY <1>5, <1>7
  <2>4. ASSUME NEW x, x \in Covered(t)
        PROVE  x \in Int /\ \E i \in 1 .. (n + 1) : In(i, x)
    <3>1. PICK j \in 1 .. Len(t) : x \in t[j].start .. (t[j].end - 1)
      BY <2>1, <2>4
    <3>2. at[j] \in 1 .. (n + 1) /\ t[j] = raw[at[j]]
      BY <1>13
    <3> HIDE DEF In
    <3> QED
      BY <2>2, <3>1, <3>2
  <2>5. ASSUME NEW x \in Int, NEW i \in 1 .. (n + 1), In(i, x)
        PROVE  x \in Covered(t)
    <3>1. PICK j \in 1 .. Len(t) : at[j] = i
      BY <1>13, <1>14, <2>3, <2>5
    <3>2. t[j] = raw[i] /\ x \in raw[i].start .. (raw[i].end - 1)
      BY <1>13, <2>2, <2>5, <3>1
    <3> QED
      BY <2>1, <3>2
  <2> QED
    BY <2>4, <2>5
<1>18. Covered(t) = (0 .. (len - 1)) \ Covered(segs)
  <2> HIDE DEF In
  <2>1. \A x : x \in Covered(t) => x \in (0 .. (len - 1)) \ Covered(segs)
    BY <1>10, <1>17
  <2>2. \A x \in (0 .. (len - 1)) \ Covered(segs) : x \in Covered(t)
    BY <1>11, <1>17
  <2> QED
    BY <2>1, <2>2
<1> QED
  BY <1>13, <1>15, <1>16, <1>18 DEF t

\* Ascending lists the members of a set up to n, each once and in order.
Lists(t, set) ==
  /\ t \in Seq(Nat)
  /\ \A i, j \in 1 .. Len(t) : i < j => t[i] < t[j]
  /\ \A x : x \in set <=> \E j \in 1 .. Len(t) : t[j] = x

LEMMA AscendingLists ==
  ASSUME NEW n \in Nat, NEW set \in SUBSET (0 .. n)
  PROVE  Lists(Ascending(n, set), set)
<1> DEFINE s == [k \in 1 .. (n + 1) |-> k - 1]
           t == Ascending(n, set)
<1>1. s \in Seq(Nat) /\ Len(s) = n + 1 /\ \A k \in 1 .. (n + 1) : s[k] = k - 1
  OBVIOUS
<1>2. t = Filtered(s, set)
  BY DEF Ascending
<1> HIDE DEF s, t
<1>3. PICK at : Picks(Nat, s, set, n + 1, t, at)
  BY <1>1, <1>2, FilteredPicks
<1>4. /\ t \in Seq(Nat) /\ Len(t) \in Nat
      /\ at \in [1 .. Len(t) -> 1 .. (n + 1)]
      /\ \A j \in 1 .. Len(t) : t[j] = s[at[j]]
      /\ \A i, j \in 1 .. Len(t) : i < j => at[i] < at[j]
      /\ \A i \in 1 .. (n + 1) : s[i] \in set <=> \E j \in 1 .. Len(t) : at[j] = i
  BY <1>3 DEF Picks
<1>5. \A j \in 1 .. Len(t) : at[j] \in 1 .. (n + 1) /\ t[j] = at[j] - 1
  BY <1>1, <1>4
<1>6. \A i, j \in 1 .. Len(t) : i < j => t[i] < t[j]
  BY <1>4, <1>5
<1>7. ASSUME NEW x \in set
      PROVE  \E j \in 1 .. Len(t) : t[j] = x
  <2>1. x + 1 \in 1 .. (n + 1) /\ s[x + 1] = x
    BY <1>1
  <2>2. PICK j \in 1 .. Len(t) : at[j] = x + 1
    BY <1>4, <1>7, <2>1
  <2> QED
    BY <1>5, <2>2
<1>8. ASSUME NEW j \in 1 .. Len(t)
      PROVE  t[j] \in set
  <2>1. at[j] \in 1 .. (n + 1) /\ s[at[j]] = t[j]
    BY <1>4
  <2> QED
    BY <1>4, <2>1
<1> QED
  BY <1>4, <1>6, <1>7, <1>8 DEF Lists, t

Cells == Values \cup {NotFinite}

\* What a caller may hand in.
IsPiece(piece) ==
  /\ piece.cells \in Seq(Cells)
  /\ "segments" \in DOMAIN piece => piece.segments \in Seq(Ranges)

LEMMA PiecesArePieces == \A piece \in Pieces : IsPiece(piece)
BY PieceAssumption DEF IsPiece, Cells

LEMMA SegmentsAreRanges ==
  ASSUME NEW piece, IsPiece(piece)
  PROVE  SegmentsOf(piece) \in Seq(Ranges) /\ piece.cells \in Seq(Cells)
<1>1. piece.cells \in Seq(Cells)
  BY DEF IsPiece
<1>2. "segments" \in DOMAIN piece => piece.segments \in Seq(Ranges)
  BY DEF IsPiece
<1>3. [start |-> 0, end |-> Len(piece.cells)] \in Ranges
  BY <1>1 DEF Ranges
<1>4. \A r \in Ranges : <<r>> \in Seq(Ranges)
  OBVIOUS
<1>5. <<>> \in Seq(Ranges)
  OBVIOUS
<1>6. <<[start |-> 0, end |-> Len(piece.cells)]>> \in Seq(Ranges)
  BY <1>3, <1>4
<1> QED
  BY <1>1, <1>2, <1>5, <1>6, Zenon DEF SegmentsOf

\* Where no offender is found, every sample is a value.
LEMMA NoOffenderIsFinite ==
  ASSUME NEW topology, NEW cells \in Seq(Cells), FirstOffender(topology, cells) = 0
  PROVE  \A k \in 1 .. Len(cells) : cells[k] \in Values
<1> DEFINE Offends(k) ==
             \/ cells[k] = NotFinite
             \/ /\ topology = "MonotonicX"
                /\ k > 1 /\ cells[k - 1] # NotFinite
                /\ cells[k].x < cells[k - 1].x
           offenders == {k \in DOMAIN cells : Offends(k)}
<1>1. DOMAIN cells = 1 .. Len(cells) /\ Len(cells) \in Nat
  OBVIOUS
<1>2. FirstOffender(topology, cells) = IF offenders = {} THEN 0 ELSE Min(offenders)
  BY DEF FirstOffender
<1>3. offenders \in SUBSET Nat /\ 0 \notin offenders
  BY <1>1
<1>4. \A k \in 1 .. Len(cells) : cells[k] = NotFinite => k \in offenders
  BY <1>1
<1> HIDE DEF offenders
<1>5. offenders = {}
  BY <1>2, <1>3, MinIsIn
<1> QED
  BY <1>1, <1>4, <1>5 DEF Cells

LEMMA AbsentIsNoValue == Absent \notin Values
<1>1. \A v \in Values : DOMAIN v = {"x", "y"}
  BY DEF Values
<1>2. DOMAIN Absent = {"present"}
  BY DEF Absent
<1> QED
  BY <1>1, <1>2

\* What is normalised holds the samples of its piece.
Normalized(new, samples) ==
  /\ DOMAIN new = {"topology", "sourceLen", "points", "gaps"}
  /\ samples \in Seq(Values \cup {Absent})
  /\ new.sourceLen = Len(samples)
  /\ HoldPoints(new.points, samples)
  /\ HoldGaps(new.gaps, samples)

LEMMA NormalizedHolds ==
  ASSUME NEW topology, NEW piece, IsPiece(piece), ~IsRefused(Normalize(topology, piece))
  PROVE  Normalized(Normalize(topology, piece), Samples(piece))
<1> DEFINE cells     == piece.cells
           len       == Len(cells)
           segs      == SegmentsOf(piece)
           positions == Positions(len, segs)
           samples   == [k \in DOMAIN positions |-> cells[positions[k] + 1]]
           points    == [k \in DOMAIN positions |->
                           [source |-> positions[k], x |-> samples[k].x, y |-> samples[k].y]]
           new       == Normalize(topology, piece)
           held      == Samples(piece)
<1>1. segs \in Seq(Ranges) /\ cells \in Seq(Cells) /\ len \in Nat /\ DOMAIN cells = 1 .. len
  BY SegmentsAreRanges
<1>2. /\ WellFormed(len, segs)
      /\ FirstOffender(topology, samples) = 0
      /\ new = [topology |-> topology, sourceLen |-> len, points |-> points,
                gaps |-> GapsBetween(len, segs)]
  <2>1. \A kind : IsRefused(Refused(kind))
    BY DEF IsRefused, Refused
  <2> QED
    BY <2>1 DEF Normalize
<1>3. held = [k \in 1 .. len |-> IF k - 1 \in ToSet(positions) THEN cells[k] ELSE Absent]
  BY <1>1 DEF Samples
<1> HIDE DEF cells, segs, new, held
<1>4. NotEmpty(segs) /\ Apart(segs) /\ \A i \in 1 .. Len(segs) : segs[i].end <= len
  BY <1>1, <1>2, WellFormedIsApart
<1>5. Covered(segs) \in SUBSET (0 .. (len - 1))
  <2>1. \A x : x \in Covered(segs) <=> \E i \in 1 .. Len(segs) : x \in segs[i].start .. (segs[i].end - 1)
    BY <1>1, CoveredMembers
  <2>2. \A i \in 1 .. Len(segs) : segs[i].start \in Nat /\ segs[i].end \in Nat
    BY <1>1, RangesHaveEnds
  <2>3. \A i \in 1 .. Len(segs) : \A x \in segs[i].start .. (segs[i].end - 1) : x \in 0 .. (len - 1)
    BY <1>1, <1>4, <2>2
  <2> QED
    BY <2>1, <2>3
<1>6. Lists(positions, Covered(segs))
  <2>1. UNION {s.start .. (s.end - 1) : s \in ToSet(segs)} = Covered(segs)
    BY DEF ToSet, Covered
  <2>2. Covered(segs) \in SUBSET (0 .. len)
    BY <1>1, <1>5
  <2> QED
    BY <1>1, <2>1, <2>2, AscendingLists DEF Positions
<1> HIDE DEF positions
<1>7. /\ positions \in Seq(Nat) /\ Len(positions) \in Nat
      /\ DOMAIN positions = 1 .. Len(positions)
      /\ \A i, j \in 1 .. Len(positions) : i < j => positions[i] < positions[j]
      /\ \A x : x \in Covered(segs) <=> \E j \in 1 .. Len(positions) : positions[j] = x
  BY <1>6 DEF Lists
<1>8. ToSet(positions) = Covered(segs)
  BY <1>7 DEF ToSet
<1>9. \A k \in 1 .. Len(positions) : positions[k] \in 0 .. (len - 1) /\ positions[k] + 1 \in 1 .. len
  BY <1>1, <1>5, <1>7
<1>10. /\ samples \in Seq(Cells) /\ Len(samples) = Len(positions)
       /\ \A k \in 1 .. Len(positions) : samples[k] = cells[positions[k] + 1]
  BY <1>1, <1>7, <1>9
<1> HIDE DEF samples
<1>11. \A k \in 1 .. Len(positions) : samples[k] \in Values
  BY <1>2, <1>10, NoOffenderIsFinite
<1>12. \A k \in 1 .. len : k - 1 \in Covered(segs) => cells[k] \in Values
  <2> SUFFICES ASSUME NEW k \in 1 .. len, k - 1 \in Covered(segs)
               PROVE  cells[k] \in Values
    OBVIOUS
  <2>1. PICK j \in 1 .. Len(positions) : positions[j] = k - 1
    BY <1>7
  <2>2. positions[j] + 1 = k
    BY <1>1, <2>1
  <2> QED
    BY <1>10, <1>11, <2>2
<1> HIDE DEF len
<1>13. /\ held \in Seq(Values \cup {Absent}) /\ Len(held) = len
       /\ \A k \in 1 .. len : held[k] = IF k - 1 \in Covered(segs) THEN cells[k] ELSE Absent
  <2>1. \A k \in 1 .. len : held[k] \in Values \cup {Absent}
    BY <1>3, <1>8, <1>12
  <2>2. held = [k \in 1 .. len |-> held[k]]
    BY <1>3
  <2> QED
    BY <1>1, <1>3, <1>8, <2>1, <2>2
<1>14. Valid(held) = Covered(segs)
  <2>1. \A k \in 0 .. (len - 1) : k + 1 \in 1 .. len /\ k + 1 - 1 = k
    BY <1>1
  <2>2. \A k \in 0 .. (len - 1) : held[k + 1] # Absent <=> k \in Covered(segs)
    BY <1>12, <1>13, <2>1, AbsentIsNoValue
  <2> QED
    BY <1>5, <1>13, <2>2 DEF Valid
<1>15. HoldPoints(points, held)
  <2>1. /\ DOMAIN points = 1 .. Len(positions)
        /\ \A k \in 1 .. Len(positions) :
             points[k] = [source |-> positions[k], x |-> samples[k].x, y |-> samples[k].y]
    BY <1>7
  <2>2. \A v \in Values : v.x \in Int /\ v.y \in Int /\ v = [x |-> v.x, y |-> v.y]
    BY DEF Values
  <2>3. \A k \in 1 .. Len(positions) : points[k] \in [source : Nat, x : Int, y : Int]
    BY <1>7, <1>11, <2>1, <2>2
  <2>4. points \in Seq([source : Nat, x : Int, y : Int])
    BY <1>7, <2>1, <2>3
  <2> HIDE DEF points
  <2>5. \A i, j \in DOMAIN points : i < j => points[i].source < points[j].source
    BY <1>7, <2>1
  <2>6. \A k \in 1 .. Len(positions) :
          held[points[k].source + 1] = [x |-> points[k].x, y |-> points[k].y]
    <3> SUFFICES ASSUME NEW k \in 1 .. Len(positions)
                 PROVE  held[points[k].source + 1] = [x |-> points[k].x, y |-> points[k].y]
      OBVIOUS
    <3>1. points[k].source = positions[k] /\ points[k].x = samples[k].x /\ points[k].y = samples[k].y
      BY <2>1
    <3>2. PICK q \in 1 .. len : q = positions[k] + 1 /\ q - 1 = positions[k]
      <4>1. positions[k] + 1 \in 1 .. len
        BY <1>9
      <4>2. positions[k] \in Nat
        BY <1>7
      <4> QED
        BY <4>1, <4>2
    <3>3. q - 1 \in Covered(segs)
      BY <1>7, <3>2
    <3>4. held[positions[k] + 1] = samples[k]
      <4>1. held[q] = cells[q]
        BY <1>13, <3>3
      <4>2. samples[k] = cells[q]
        BY <1>10, <3>2, Zenon
      <4> QED
        BY <3>2, <4>1, <4>2, Zenon
    <3>5. samples[k] = [x |-> samples[k].x, y |-> samples[k].y]
      BY <1>11, <2>2
    <3> QED
      BY <3>1, <3>4, <3>5
  <2>7. {points[k].source : k \in DOMAIN points} = Valid(held)
    BY <1>7, <1>14, <2>1
  <2> QED
    BY <2>1, <2>4, <2>5, <2>6, <2>7 DEF HoldPoints
<1>16. HoldGaps(GapsBetween(len, segs), held)
  <2>1. Missing(held) = (0 .. (len - 1)) \ Covered(segs)
    BY <1>13, <1>14 DEF Missing
  <2> QED
    BY <1>1, <1>4, <2>1, GapsAreTheRest DEF HoldGaps
<1> HIDE DEF points
<1>17. /\ DOMAIN new = {"topology", "sourceLen", "points", "gaps"}
       /\ new.sourceLen = len /\ new.points = points /\ new.gaps = GapsBetween(len, segs)
  BY <1>2
<1> QED
  BY <1>13, <1>15, <1>16, <1>17 DEF Normalized, new, held

-----------------------------------------------------------------------------
(* Logical segments *)

Points == [source : Nat, x : Int, y : Int]

Ascends(points) ==
  /\ points \in Seq(Points)
  /\ \A i, j \in 1 .. Len(points) : i < j => points[i].source < points[j].source

\* Segments that cut points into their stretches of neighbouring sources.
Tiles(points, segs) ==
  /\ Len(segs) \in Nat /\ DOMAIN segs = 1 .. Len(segs)
  /\ \A i \in 1 .. Len(segs) :
       /\ segs[i].pointStart \in 0 .. Len(points)
       /\ segs[i].pointEnd \in 0 .. Len(points)
       /\ segs[i].pointStart < segs[i].pointEnd
       /\ segs[i].sourceStart = points[segs[i].pointStart + 1].source
       /\ segs[i].sourceEnd = points[segs[i].pointEnd].source + 1
  /\ \A i \in 1 .. Len(segs) : \A k \in (segs[i].pointStart + 1) .. segs[i].pointEnd :
       points[k].source = segs[i].sourceStart + k - segs[i].pointStart - 1
  /\ \A k \in 1 .. Len(points) : \E i \in 1 .. Len(segs) :
       segs[i].pointStart < k /\ k <= segs[i].pointEnd
  /\ \A i, j \in 1 .. Len(segs) : i < j => segs[i].pointEnd <= segs[j].pointStart
  /\ \A i, j \in 1 .. Len(segs) : i < j => segs[i].sourceEnd < segs[j].sourceStart

\* Neighbouring points between two cuts have neighbouring sources.
LEMMA StretchIsDense ==
  ASSUME NEW points, Ascends(points), NEW a \in 0 .. Len(points), NEW b \in 0 .. Len(points),
         \A k \in (a + 1) .. (b - 1) : points[k + 1].source - points[k].source = 1,
         NEW k \in (a + 1) .. b
  PROVE  points[k].source = points[a + 1].source + k - a - 1
<1> DEFINE T == {j \in (a + 1) .. b : points[j].source # points[a + 1].source + j - a - 1}
<1>1. /\ Len(points) \in Nat
      /\ \A j \in 1 .. Len(points) : points[j].source \in Nat
  <2>1. \A q \in Points : q.source \in Nat
    BY DEF Points
  <2>2. points \in Seq(Points)
    BY DEF Ascends
  <2>3. Len(points) \in Nat /\ \A j \in 1 .. Len(points) : points[j] \in Points
    BY <2>2
  <2> QED
    BY <2>1, <2>3
<1>2. T = {}
  <2> SUFFICES ASSUME T # {} PROVE FALSE
    OBVIOUS
  <2>1. PICK j \in T : \A m \in T : j <= m
    <3>1. T \subseteq Nat
      BY <1>1
    <3> HIDE DEF T
    <3> QED
      BY <3>1, LeastNatural
  <2>2. j \in (a + 1) .. b /\ points[j].source # points[a + 1].source + j - a - 1
    OBVIOUS
  <2>3. /\ a \in Nat /\ b \in Nat /\ j \in Nat /\ a + 1 \in 1 .. Len(points) /\ j \in 1 .. Len(points)
        /\ b <= Len(points) /\ a + 1 <= j /\ j <= b
    BY <1>1, <2>2
  <2> HIDE DEF T
  <2>4. CASE j = a + 1
    BY <1>1, <2>2, <2>3, <2>4
  <2>5. CASE j # a + 1
    <3> DEFINE i == j - 1
    <3>1. /\ i \in (a + 1) .. (b - 1) /\ i \in (a + 1) .. b /\ ~(j <= i) /\ i + 1 = j
          /\ i \in 1 .. Len(points) /\ i \in Nat
      <4> DEFINE N == Len(points)
      <4>1. N \in Nat /\ b <= N
        BY <1>1, <2>3
      <4> HIDE DEF N
      <4>2. /\ i \in (a + 1) .. (b - 1) /\ i \in (a + 1) .. b /\ ~(j <= i) /\ i + 1 = j
            /\ i \in 1 .. N /\ i \in Nat
        BY <2>3, <2>5, <4>1
      <4> QED
        BY <4>2 DEF N
    <3> HIDE DEF i
    <3>2. points[i].source = points[a + 1].source + i - a - 1
      BY <2>1, <3>1 DEF T
    <3>3. points[i + 1].source - points[i].source = 1
      BY <3>1
    <3>4. points[j].source - points[i].source = 1
      BY <3>1, <3>3
    <3>5. points[a + 1].source \in Nat /\ points[i].source \in Nat /\ points[j].source \in Nat
      BY <1>1, <2>3, <3>1
    <3>6. points[j].source = points[a + 1].source + j - a - 1
      <4> DEFINE p == points[j].source
                 q == points[i].source
                 r == points[a + 1].source
      <4>1. /\ p \in Nat /\ q \in Nat /\ r \in Nat /\ i \in Nat
            /\ q = r + i - a - 1 /\ p - q = 1 /\ i + 1 = j
        BY <3>1, <3>2, <3>4, <3>5
      <4> HIDE DEF p, q, r
      <4>2. a \in Nat /\ j \in Nat
        BY <2>3
      <4>3. p = q + 1 /\ j = i + 1
        BY <4>1, <4>2
      <4>4. p = r + j - a - 1
        BY <4>1, <4>2, <4>3
      <4> QED
        BY <4>4 DEF p, r
    <3> QED
      BY <2>2, <3>6
  <2> QED
    BY <2>4, <2>5
<1> QED
  BY <1>2

LEMMA SegmentsTile ==
  ASSUME NEW points, Ascends(points)
  PROVE  Tiles(points, SegmentsOfPoints(points))
<1> DEFINE n    == Len(points)
           segs == SegmentsOfPoints(points)
           cuts == {0, n} \cup {k \in 1 .. (n - 1) : points[k + 1].source - points[k].source # 1}
           order == Ascending(n, cuts)
           m    == Len(order)
<1>1. n \in Nat /\ points \in Seq(Points) /\ \A k \in 1 .. n : points[k].source \in Nat
  <2>1. points \in Seq(Points)
    BY DEF Ascends
  <2>2. \A q \in Points : q.source \in Nat
    BY DEF Points
  <2>3. n \in Nat /\ \A k \in 1 .. n : points[k] \in Points
    BY <2>1
  <2> QED
    BY <2>1, <2>2, <2>3
<1>2. \A i, j \in 1 .. n : i < j => points[i].source < points[j].source
  BY DEF Ascends
<1>3. \A i, j \in 1 .. n : i <= j => points[i].source <= points[j].source
  BY <1>1, <1>2
<1>4. CASE points = <<>>
  <2>1. segs = <<>> /\ n = 0
    BY <1>4 DEF SegmentsOfPoints
  <2>2. Len(segs) = 0 /\ DOMAIN segs = 1 .. 0
    BY <2>1
  <2> QED
    BY <2>1, <2>2 DEF Tiles
<1>5. CASE points # <<>>
  <2>1. n >= 1
    BY <1>1, <1>5
  <2>2. segs = [i \in 1 .. (m - 1) |->
                  [pointStart  |-> order[i],
                   pointEnd    |-> order[i + 1],
                   sourceStart |-> points[order[i] + 1].source,
                   sourceEnd   |-> points[order[i + 1]].source + 1,
                   bounds      |-> BoundsOf(Slice(points, order[i], order[i + 1]))]]
    BY <1>5 DEF SegmentsOfPoints, BuildSegments
  <2>3. cuts \in SUBSET (0 .. n) /\ 0 \in cuts /\ n \in cuts
    BY <1>1
  <2>4. \A k \in 1 .. (n - 1) : k \notin cuts => points[k + 1].source - points[k].source = 1
    OBVIOUS
  <2>5. \A k \in cuts : k # 0 /\ k # n =>
          k \in 1 .. (n - 1) /\ points[k + 1].source - points[k].source # 1
    OBVIOUS
  <2> HIDE DEF n, segs, cuts
  <2>6. Lists(order, cuts)
    BY <1>1, <2>3, AscendingLists
  <2> HIDE DEF order
  <2>7. /\ m \in Nat /\ order \in Seq(Nat)
        /\ \A i \in 1 .. m : order[i] \in cuts /\ order[i] \in 0 .. n
        /\ \A i, j \in 1 .. m : i < j => order[i] < order[j]
        /\ \A x \in cuts : \E j \in 1 .. m : order[j] = x
    BY <2>3, <2>6 DEF Lists
  <2> HIDE DEF m
  <2>8. m >= 2 /\ order[1] = 0 /\ order[m] = n
    <3>1. PICK i \in 1 .. m : order[i] = 0
      BY <2>3, <2>7
    <3>2. PICK j \in 1 .. m : order[j] = n
      BY <2>3, <2>7
    <3>3. i = 1
      <4> SUFFICES ASSUME i # 1 PROVE FALSE
        OBVIOUS
      <4>1. 1 \in 1 .. m /\ 1 < i
        BY <2>7
      <4>2. order[1] < 0 /\ order[1] \in 0 .. n
        BY <2>7, <3>1, <4>1
      <4> QED
        BY <1>1, <4>2
    <3>4. j = m
      <4> SUFFICES ASSUME j # m PROVE FALSE
        OBVIOUS
      <4>1. m \in 1 .. m /\ j < m
        BY <2>7
      <4>2. n < order[m] /\ order[m] \in 0 .. n
        BY <2>7, <3>2, <4>1
      <4> QED
        BY <1>1, <4>2
    <3>5. i # j
      BY <2>1, <3>1, <3>2
    <3> QED
      BY <2>7, <3>1, <3>2, <3>3, <3>4, <3>5
  <2>9. \A i \in 1 .. (m - 1) :
          /\ i \in 1 .. m /\ i + 1 \in 1 .. m
          /\ order[i] \in 0 .. n /\ order[i + 1] \in 0 .. n /\ order[i] < order[i + 1]
          /\ order[i] + 1 \in 1 .. n /\ order[i + 1] \in 1 .. n
    <3> SUFFICES ASSUME NEW i \in 1 .. (m - 1)
                 PROVE  /\ i \in 1 .. m /\ i + 1 \in 1 .. m
                        /\ order[i] \in 0 .. n /\ order[i + 1] \in 0 .. n /\ order[i] < order[i + 1]
                        /\ order[i] + 1 \in 1 .. n /\ order[i + 1] \in 1 .. n
      OBVIOUS
    <3>1. i \in 1 .. m /\ i + 1 \in 1 .. m /\ i < i + 1
      BY <2>7
    <3>2. order[i] \in 0 .. n /\ order[i + 1] \in 0 .. n /\ order[i] < order[i + 1]
      BY <2>7, <3>1
    <3> QED
      BY <1>1, <3>1, <3>2
  <2>10. ASSUME NEW i \in 1 .. (m - 1), NEW c \in cuts, order[i] < c, c < order[i + 1]
         PROVE  FALSE
    <3>1. PICK j \in 1 .. m : order[j] = c
      BY <2>7
    <3>2. ~(j <= i)
      <4> SUFFICES ASSUME j <= i PROVE FALSE
        OBVIOUS
      <4>1. j = i \/ order[j] < order[i]
        BY <2>7, <2>9
      <4> QED
        BY <1>1, <2>9, <2>10, <2>7, <3>1, <4>1
    <3>3. ~(i + 1 <= j)
      <4> SUFFICES ASSUME i + 1 <= j PROVE FALSE
        OBVIOUS
      <4>1. j = i + 1 \/ order[i + 1] < order[j]
        BY <2>7, <2>9
      <4> QED
        BY <1>1, <2>9, <2>10, <2>7, <3>1, <4>1
    <3> QED
      BY <2>7, <3>2, <3>3
  <2>11. /\ Len(segs) = m - 1 /\ DOMAIN segs = 1 .. (m - 1)
         /\ \A i \in 1 .. (m - 1) :
              /\ segs[i].pointStart = order[i]
              /\ segs[i].pointEnd = order[i + 1]
              /\ segs[i].sourceStart = points[order[i] + 1].source
              /\ segs[i].sourceEnd = points[order[i + 1]].source + 1
    <3>1. m - 1 \in Nat
      BY <2>7, <2>8
    <3> QED
      BY <2>2, <3>1
  <2>12. \A i \in 1 .. (m - 1) : \A k \in (order[i] + 1) .. order[i + 1] :
           points[k].source = points[order[i] + 1].source + k - order[i] - 1
    <3> SUFFICES ASSUME NEW i \in 1 .. (m - 1), NEW k \in (order[i] + 1) .. order[i + 1]
                 PROVE  points[k].source = points[order[i] + 1].source + k - order[i] - 1
      OBVIOUS
    <3>1. \A c \in (order[i] + 1) .. (order[i + 1] - 1) :
            points[c + 1].source - points[c].source = 1
      <4> SUFFICES ASSUME NEW c \in (order[i] + 1) .. (order[i + 1] - 1)
                   PROVE  points[c + 1].source - points[c].source = 1
        OBVIOUS
      <4>1. order[i] < c /\ c < order[i + 1] /\ c \in 1 .. (n - 1)
        BY <1>1, <2>9
      <4>2. c \notin cuts
        BY <2>10, <4>1
      <4> QED
        BY <2>4, <4>1, <4>2
    <3>2. order[i] \in 0 .. Len(points) /\ order[i + 1] \in 0 .. Len(points)
      BY <2>9 DEF n
    <3> QED
      BY <3>1, <3>2, StretchIsDense
  <2>13. \A k \in 1 .. n : \E i \in 1 .. (m - 1) : order[i] < k /\ k <= order[i + 1]
    <3> SUFFICES ASSUME NEW k \in 1 .. n
                 PROVE  \E i \in 1 .. (m - 1) : order[i] < k /\ k <= order[i + 1]
      OBVIOUS
    <3> DEFINE T == {j \in 1 .. m : k <= order[j]}
    <3>1. m \in T
      BY <1>1, <2>7, <2>8
    <3>2. PICK j \in T : \A l \in T : j <= l
      <4>1. T \subseteq Nat
        BY <2>7
      <4> HIDE DEF T
      <4> QED
        BY <3>1, <4>1, LeastNatural
    <3>3. j \in 1 .. m /\ k <= order[j]
      OBVIOUS
    <3>4. j # 1
      BY <2>8, <3>3
    <3>5. j - 1 \in 1 .. m /\ j - 1 \in 1 .. (m - 1) /\ ~(j <= j - 1) /\ j - 1 + 1 = j
      BY <2>7, <3>3, <3>4
    <3>6. ~(k <= order[j - 1])
      BY <3>2, <3>5
    <3>7. order[j - 1] < k
      BY <1>1, <2>7, <3>5, <3>6
    <3> QED
      BY <3>3, <3>5, <3>7
  <2>14. ASSUME NEW i \in 1 .. (m - 1), NEW j \in 1 .. (m - 1), i < j
         PROVE  /\ order[i + 1] <= order[j]
                /\ points[order[i + 1]].source + 1 < points[order[j] + 1].source
    <3>1. i + 1 \in 1 .. m /\ j \in 1 .. m /\ i + 1 <= j
      BY <2>9, <2>14
    <3>2. order[i + 1] <= order[j]
      <4>1. i + 1 = j \/ order[i + 1] < order[j]
        BY <2>7, <3>1
      <4> QED
        BY <2>9, <4>1
    <3> DEFINE c == order[j]
    <3>3. c \in cuts /\ c # 0 /\ c # n
      <4>1. order[j] \in cuts
        BY <2>7, <3>1
      <4>2. order[i + 1] \in 1 .. n /\ order[j + 1] \in 1 .. n /\ order[j] \in 0 .. n
        BY <2>9
      <4>3. order[j] < order[j + 1]
        BY <2>9
      <4> QED
        BY <1>1, <3>2, <4>1, <4>2, <4>3
    <3> HIDE DEF c
    <3>4. c \in 1 .. (n - 1) /\ points[c + 1].source - points[c].source # 1
      BY <2>5, <3>3
    <3>5. c \in 1 .. n /\ c + 1 \in 1 .. n /\ c < c + 1
      BY <1>1, <3>4
    <3>6. /\ points[c].source < points[c + 1].source
          /\ points[c].source \in Nat /\ points[c + 1].source \in Nat
      BY <1>1, <1>2, <3>5
    <3>7. points[c].source + 1 < points[c + 1].source
      BY <3>4, <3>6
    <3>8. /\ points[order[i + 1]].source <= points[c].source
          /\ points[order[i + 1]].source \in Nat
      BY <1>1, <1>3, <2>9, <3>2, <3>5 DEF c
    <3>9. points[order[i + 1]].source + 1 < points[c + 1].source
      BY <3>6, <3>7, <3>8
    <3> QED
      BY <3>2, <3>9 DEF c
  <2>15. /\ Len(segs) \in Nat /\ DOMAIN segs = 1 .. Len(segs)
         /\ \A i \in 1 .. Len(segs) :
              /\ segs[i].pointStart \in 0 .. n
              /\ segs[i].pointEnd \in 0 .. n
              /\ segs[i].pointStart < segs[i].pointEnd
              /\ segs[i].sourceStart = points[segs[i].pointStart + 1].source
              /\ segs[i].sourceEnd = points[segs[i].pointEnd].source + 1
    <3>1. Len(segs) \in Nat /\ DOMAIN segs = 1 .. Len(segs)
      BY <2>7, <2>8, <2>11
    <3>2. ASSUME NEW i \in 1 .. (m - 1)
          PROVE  /\ segs[i].pointStart \in 0 .. n
                 /\ segs[i].pointEnd \in 0 .. n
                 /\ segs[i].pointStart < segs[i].pointEnd
                 /\ segs[i].sourceStart = points[segs[i].pointStart + 1].source
                 /\ segs[i].sourceEnd = points[segs[i].pointEnd].source + 1
      <4>1. /\ segs[i].pointStart = order[i]
            /\ segs[i].pointEnd = order[i + 1]
            /\ segs[i].sourceStart = points[order[i] + 1].source
            /\ segs[i].sourceEnd = points[order[i + 1]].source + 1
        BY <2>11
      <4>2. order[i] \in 0 .. n /\ order[i + 1] \in 0 .. n /\ order[i] < order[i + 1]
        BY <2>9
      <4> QED
        BY <4>1, <4>2, Zenon
    <3> QED
      BY <2>11, <3>1, <3>2
  <2>16. \A i \in 1 .. Len(segs) : \A k \in (segs[i].pointStart + 1) .. segs[i].pointEnd :
           points[k].source = segs[i].sourceStart + k - segs[i].pointStart - 1
    BY <2>11, <2>12
  <2>17. \A k \in 1 .. n : \E i \in 1 .. Len(segs) :
           segs[i].pointStart < k /\ k <= segs[i].pointEnd
    BY <2>11, <2>13
  <2>18. \A i, j \in 1 .. Len(segs) : i < j => segs[i].pointEnd <= segs[j].pointStart
    BY <2>11, <2>14
  <2>19. \A i, j \in 1 .. Len(segs) : i < j => segs[i].sourceEnd < segs[j].sourceStart
    BY <2>11, <2>14
  <2> QED
    BY <2>15, <2>16, <2>17, <2>18, <2>19 DEF Tiles, n, segs
<1> QED
  BY <1>4, <1>5

LEMMA PointsAscend ==
  ASSUME NEW samples, NEW points, HoldPoints(points, samples)
  PROVE  /\ Ascends(points)
         /\ Len(points) \in Nat /\ DOMAIN points = 1 .. Len(points)
         /\ \A k \in 1 .. Len(points) : points[k].source \in Nat
<1>1. points \in Seq(Points)
  BY DEF HoldPoints, Points
<1>2. Len(points) \in Nat /\ DOMAIN points = 1 .. Len(points)
      /\ \A k \in 1 .. Len(points) : points[k] \in Points
  BY <1>1
<1>3. \A q \in Points : q.source \in Nat
  BY DEF Points
<1>4. Ascends(points)
  BY <1>1, <1>2 DEF HoldPoints, Ascends
<1> QED
  BY <1>2, <1>3, <1>4

\* Segments that tile the points are the maximal runs of valid samples.
LEMMA TilesAreRuns ==
  ASSUME NEW samples, NEW points, HoldPoints(points, samples), NEW segs, Tiles(points, segs)
  PROVE  AreRunsOf([i \in DOMAIN segs |->
                      [start |-> segs[i].sourceStart, end |-> segs[i].sourceEnd]],
                   Valid(samples))
<1> DEFINE r == [i \in DOMAIN segs |->
                   [start |-> segs[i].sourceStart, end |-> segs[i].sourceEnd]]
           n == Len(points)
<1>1. /\ n \in Nat /\ DOMAIN points = 1 .. n
      /\ \A k \in 1 .. n : points[k].source \in Nat
      /\ \A i, j \in 1 .. n : i < j => points[i].source < points[j].source
  BY PointsAscend DEF Ascends
<1>2. \A i, j \in 1 .. n : i <= j => points[i].source <= points[j].source
  BY <1>1
<1>3. Len(segs) \in Nat /\ DOMAIN segs = 1 .. Len(segs)
  BY DEF Tiles
<1> HIDE DEF n
<1>4. \A i \in 1 .. Len(segs) :
        /\ segs[i].pointStart \in Nat /\ segs[i].pointEnd \in 1 .. n
        /\ segs[i].pointStart + 1 \in 1 .. n /\ segs[i].pointStart + 1 <= segs[i].pointEnd
        /\ segs[i].sourceStart = points[segs[i].pointStart + 1].source
        /\ segs[i].sourceEnd = points[segs[i].pointEnd].source + 1
  <2> SUFFICES ASSUME NEW i \in 1 .. Len(segs)
               PROVE  /\ segs[i].pointStart \in Nat /\ segs[i].pointEnd \in 1 .. n
                      /\ segs[i].pointStart + 1 \in 1 .. n
                      /\ segs[i].pointStart + 1 <= segs[i].pointEnd
                      /\ segs[i].sourceStart = points[segs[i].pointStart + 1].source
                      /\ segs[i].sourceEnd = points[segs[i].pointEnd].source + 1
    OBVIOUS
  <2>1. /\ segs[i].pointStart \in 0 .. n /\ segs[i].pointEnd \in 0 .. n
        /\ segs[i].pointStart < segs[i].pointEnd
        /\ segs[i].sourceStart = points[segs[i].pointStart + 1].source
        /\ segs[i].sourceEnd = points[segs[i].pointEnd].source + 1
    BY DEF Tiles, n
  <2> QED
    BY <1>1, <2>1
<1>5. \A i \in 1 .. Len(segs) :
        /\ segs[i].sourceStart \in Nat /\ segs[i].sourceEnd \in Nat
        /\ segs[i].sourceStart < segs[i].sourceEnd
  <2> SUFFICES ASSUME NEW i \in 1 .. Len(segs)
               PROVE  /\ segs[i].sourceStart \in Nat /\ segs[i].sourceEnd \in Nat
                      /\ segs[i].sourceStart < segs[i].sourceEnd
    OBVIOUS
  <2> DEFINE a == segs[i].pointStart + 1
             b == segs[i].pointEnd
  <2>1. /\ a \in 1 .. n /\ b \in 1 .. n /\ a <= b
        /\ segs[i].sourceStart = points[a].source /\ segs[i].sourceEnd = points[b].source + 1
    BY <1>4
  <2> HIDE DEF a, b
  <2>2. points[a].source <= points[b].source /\ points[a].source \in Nat /\ points[b].source \in Nat
    BY <1>1, <1>2, <2>1
  <2> QED
    BY <2>1, <2>2
<1>6. /\ r \in Seq(Ranges) /\ Len(r) = Len(segs) /\ DOMAIN r = 1 .. Len(segs)
      /\ \A i \in 1 .. Len(segs) : r[i].start = segs[i].sourceStart /\ r[i].end = segs[i].sourceEnd
  <2>1. \A i \in 1 .. Len(segs) :
          [start |-> segs[i].sourceStart, end |-> segs[i].sourceEnd] \in Ranges
    BY <1>5 DEF Ranges
  <2> QED
    BY <1>3, <2>1
<1> HIDE DEF r
<1>7. NotEmpty(r)
  BY <1>5, <1>6 DEF NotEmpty
<1>8. Apart(r)
  <2>1. \A i, j \in 1 .. Len(segs) : i < j => segs[i].sourceEnd < segs[j].sourceStart
    BY DEF Tiles
  <2> QED
    BY <1>6, <2>1 DEF Apart
<1>9. \A x : x \in Valid(samples) <=> \E k \in 1 .. n : x = points[k].source
  BY <1>1 DEF HoldPoints
<1>10. \A x : x \in Covered(r) <=>
               \E i \in 1 .. Len(segs) : x \in segs[i].sourceStart .. (segs[i].sourceEnd - 1)
  BY <1>6, CoveredMembers
<1>11. ASSUME NEW k \in 1 .. n
       PROVE  points[k].source \in Covered(r)
  <2>1. PICK i \in 1 .. Len(segs) : segs[i].pointStart < k /\ k <= segs[i].pointEnd
    BY DEF Tiles, n
  <2> DEFINE a == segs[i].pointStart + 1
             b == segs[i].pointEnd
  <2>2. /\ a \in 1 .. n /\ b \in 1 .. n /\ a <= k /\ k <= b
        /\ segs[i].sourceStart = points[a].source /\ segs[i].sourceEnd = points[b].source + 1
    BY <1>1, <1>4, <2>1
  <2> HIDE DEF a, b
  <2>3. /\ points[a].source <= points[k].source /\ points[k].source <= points[b].source
        /\ points[a].source \in Nat /\ points[b].source \in Nat /\ points[k].source \in Nat
    BY <1>1, <1>2, <2>2
  <2>4. points[k].source \in segs[i].sourceStart .. (segs[i].sourceEnd - 1)
    BY <2>2, <2>3
  <2> QED
    BY <1>10, <2>4
<1>12. ASSUME NEW i \in 1 .. Len(segs), NEW x \in segs[i].sourceStart .. (segs[i].sourceEnd - 1)
       PROVE  \E k \in 1 .. n : x = points[k].source
  <2> DEFINE a == segs[i].pointStart
             b == segs[i].pointEnd
             s == segs[i].sourceStart
             k == x - s + a + 1
  <2>1. /\ a \in Nat /\ b \in 1 .. n /\ a + 1 <= b
        /\ s \in Nat /\ segs[i].sourceEnd = points[b].source + 1
    BY <1>4, <1>5
  <2>2. \A l \in (a + 1) .. b : points[l].source = s + l - a - 1
    BY DEF Tiles
  <2>3. points[b].source = s + b - a - 1
    BY <2>1, <2>2
  <2> HIDE DEF a, b, s
  <2>4. x \in s .. (segs[i].sourceEnd - 1)
    BY DEF s
  <2>5. points[b].source \in Nat
    BY <1>1, <2>1
  <2>6. x \in Int /\ s <= x /\ x <= s + b - a - 1
    BY <2>1, <2>3, <2>4, <2>5
  <2>7. k \in (a + 1) .. b /\ k \in 1 .. n
    BY <1>1, <2>1, <2>6
  <2>8. points[k].source = s + k - a - 1
    BY <2>2, <2>7
  <2>9. s + k - a - 1 = x
    BY <2>1, <2>6
  <2> HIDE DEF k
  <2> QED
    BY <2>7, <2>8, <2>9
<1>13. Covered(r) = Valid(samples)
  <2>1. ASSUME NEW x \in Covered(r) PROVE x \in Valid(samples)
    <3>1. PICK i \in 1 .. Len(segs) : x \in segs[i].sourceStart .. (segs[i].sourceEnd - 1)
      BY <1>10, <2>1, Zenon
    <3>2. \E k \in 1 .. n : x = points[k].source
      BY <1>12, <3>1, Zenon
    <3> QED
      BY <1>9, <3>2, Zenon
  <2>2. ASSUME NEW x \in Valid(samples) PROVE x \in Covered(r)
    <3>1. PICK k \in 1 .. n : x = points[k].source
      BY <1>9, <2>2, Zenon
    <3> QED
      BY <1>11, <3>1, Zenon
  <2> QED
    BY <2>1, <2>2, Zenon
<1> QED
  BY <1>6, <1>7, <1>8, <1>13, ApartAreRuns DEF r

\* There are as many points as valid samples.
LEMMA PointsAreCounted ==
  ASSUME NEW samples, NEW points, HoldPoints(points, samples)
  PROVE  Len(points) = Cardinality(Valid(samples))
<1> DEFINE n == Len(points)
           V == Valid(samples)
           f == [k \in 1 .. n |-> points[k].source]
<1>1. /\ n \in Nat /\ DOMAIN points = 1 .. n
      /\ \A k \in 1 .. n : points[k].source \in Nat
      /\ \A i, j \in 1 .. n : i < j => points[i].source < points[j].source
  BY PointsAscend DEF Ascends
<1>2. V = {points[k].source : k \in 1 .. n}
  BY <1>1 DEF HoldPoints
<1> HIDE DEF V
<1>3. f \in [1 .. n -> V] /\ \A v \in V : \E k \in 1 .. n : f[k] = v
  BY <1>2
<1>4. \A i, j \in 1 .. n : f[i] = f[j] => i = j
  <2> SUFFICES ASSUME NEW i \in 1 .. n, NEW j \in 1 .. n, points[i].source = points[j].source, i # j
               PROVE  FALSE
    OBVIOUS
  <2>1. i < j \/ j < i
    BY <1>1
  <2> QED
    BY <1>1, <2>1
<1>5. DOMAIN f = 1 .. n
  OBVIOUS
<1> HIDE DEF f
<1>6. f \in Bijection(1 .. n, V)
  BY <1>3, <1>4, <1>5 DEF Bijection, Injection, Surjection, IsInjective
<1>7. IsFiniteSet(1 .. n) /\ Cardinality(1 .. n) = n
  BY <1>1, FS_Interval
<1> HIDE DEF n
<1>8. Cardinality(V) = n
  BY <1>6, <1>7, FS_Bijection DEF ExistsBijection
<1> QED
  BY <1>8 DEF n, V

-----------------------------------------------------------------------------
(* Joining *)

Held == Values \cup {Absent}

LEMMA JoinedSamples ==
  ASSUME NEW s \in Seq(Held), NEW t \in Seq(Held)
  PROVE  /\ s \o t \in Seq(Held) /\ Len(s \o t) = Len(s) + Len(t)
         /\ \A x : x \in Valid(s \o t) <=>
                     x \in Valid(s) \/ \E k \in Valid(t) : x = k + Len(s)
         /\ \A x : x \in Missing(s \o t) <=>
                     x \in Missing(s) \/ \E k \in Missing(t) : x = k + Len(s)
         /\ \A k \in 0 .. (Len(s) - 1) : (s \o t)[k + 1] = s[k + 1]
         /\ \A k \in 0 .. (Len(t) - 1) : (s \o t)[k + Len(s) + 1] = t[k + 1]
<1> DEFINE u == s \o t
           m == Len(s)
           n == Len(t)
<1>1. /\ m \in Nat /\ n \in Nat /\ u \in Seq(Held) /\ Len(u) = m + n
      /\ \A i \in 1 .. (m + n) : u[i] = IF i <= m THEN s[i] ELSE t[i - m]
  OBVIOUS
<1> HIDE DEF u, m, n
<1>2. \A k \in 0 .. (m - 1) : u[k + 1] = s[k + 1]
  <2> SUFFICES ASSUME NEW k \in 0 .. (m - 1) PROVE u[k + 1] = s[k + 1]
    OBVIOUS
  <2>1. k + 1 \in 1 .. (m + n) /\ k + 1 <= m
    BY <1>1
  <2> QED
    BY <1>1, <2>1
<1>3. \A k \in 0 .. (n - 1) : u[k + m + 1] = t[k + 1]
  <2> SUFFICES ASSUME NEW k \in 0 .. (n - 1) PROVE u[k + m + 1] = t[k + 1]
    OBVIOUS
  <2> DEFINE i == k + m + 1
  <2>1. i \in 1 .. (m + n) /\ ~(i <= m) /\ i - m = k + 1
    BY <1>1
  <2> HIDE DEF i
  <2>2. u[i] = t[i - m]
    BY <1>1, <2>1
  <2>3. u[i] = t[k + 1]
    BY <2>1, <2>2
  <2> QED
    BY <2>3 DEF i
<1>4. \A k \in 0 .. (m + n - 1) : k \in 0 .. (m - 1) \/ \E j \in 0 .. (n - 1) : k = j + m
  <2> SUFFICES ASSUME NEW k \in 0 .. (m + n - 1), k \notin 0 .. (m - 1)
               PROVE  \E j \in 0 .. (n - 1) : k = j + m
    OBVIOUS
  <2>1. k - m \in 0 .. (n - 1) /\ k = (k - m) + m
    BY <1>1
  <2> QED
    BY <2>1
<1>5. /\ \A k \in 0 .. (m - 1) : k \in 0 .. (m + n - 1)
      /\ \A k \in 0 .. (n - 1) : k + m \in 0 .. (m + n - 1)
  BY <1>1
<1>6. /\ \A x : x \in Valid(s) <=> x \in 0 .. (m - 1) /\ s[x + 1] # Absent
      /\ \A x : x \in Valid(t) <=> x \in 0 .. (n - 1) /\ t[x + 1] # Absent
      /\ \A x : x \in Valid(u) <=> x \in 0 .. (m + n - 1) /\ u[x + 1] # Absent
  BY <1>1 DEF Valid, m, n
<1>7. /\ \A x : x \in Missing(s) <=> x \in 0 .. (m - 1) /\ s[x + 1] = Absent
      /\ \A x : x \in Missing(t) <=> x \in 0 .. (n - 1) /\ t[x + 1] = Absent
      /\ \A x : x \in Missing(u) <=> x \in 0 .. (m + n - 1) /\ u[x + 1] = Absent
  BY <1>1, <1>6 DEF Missing, m, n
<1>8. \A x : x \in Valid(u) <=> x \in Valid(s) \/ \E k \in Valid(t) : x = k + m
  BY <1>2, <1>3, <1>4, <1>5, <1>6
<1>9. \A x : x \in Missing(u) <=> x \in Missing(s) \/ \E k \in Missing(t) : x = k + m
  BY <1>2, <1>3, <1>4, <1>5, <1>7
<1> QED
  BY <1>1, <1>2, <1>3, <1>8, <1>9 DEF u, m, n

LEMMA ElementsOfJoin ==
  ASSUME NEW S, NEW p \in Seq(S), NEW q \in Seq(S), NEW m, NEW n, m = Len(p), n = Len(q)
  PROVE  /\ p \o q \in Seq(S) /\ Len(p \o q) = m + n
         /\ DOMAIN (p \o q) = 1 .. (m + n)
         /\ \A i \in 1 .. (m + n) : (p \o q)[i] = IF i <= m THEN p[i] ELSE q[i - m]
OBVIOUS

LEMMA JoinedPoints ==
  ASSUME NEW s \in Seq(Held), NEW t \in Seq(Held), NEW p, NEW q,
         HoldPoints(p, s), HoldPoints(q, t)
  PROVE  HoldPoints(p \o ShiftPoints(q, Len(s)), s \o t)
<1> DEFINE o == Len(s)
           z == ShiftPoints(q, o)
           w == p \o z
           m == Len(p)
           n == Len(q)
           u == s \o t
<1> \A x \in Points : /\ x.source \in Nat /\ x.x \in Int /\ x.y \in Int
                      /\ x = [source |-> x.source, x |-> x.x, y |-> x.y]
  BY DEF Points
<1>1. /\ p \in Seq(Points) /\ m \in Nat /\ DOMAIN p = 1 .. m
      /\ \A k \in 1 .. m : p[k] \in Points /\ p[k].source \in Nat
  <2>1. p \in Seq(Points)
    BY DEF HoldPoints, Points
  <2> QED
    BY <2>1
<1>2. /\ q \in Seq(Points) /\ n \in Nat /\ DOMAIN q = 1 .. n
      /\ \A k \in 1 .. n : /\ q[k].source \in Nat /\ q[k].x \in Int /\ q[k].y \in Int
                           /\ q[k] = [source |-> q[k].source, x |-> q[k].x, y |-> q[k].y]
  <2>1. q \in Seq(Points)
    BY DEF HoldPoints, Points
  <2> QED
    BY <2>1
<1>3. o \in Nat
  OBVIOUS
<1>4. /\ \A k \in 1 .. m : /\ s[p[k].source + 1] = [x |-> p[k].x, y |-> p[k].y]
                           /\ p[k].source \in Valid(s)
      /\ \A x \in Valid(s) : \E k \in 1 .. m : x = p[k].source
      /\ \A i, j \in 1 .. m : i < j => p[i].source < p[j].source
  BY <1>1 DEF HoldPoints
<1>5. /\ \A k \in 1 .. n : /\ t[q[k].source + 1] = [x |-> q[k].x, y |-> q[k].y]
                           /\ q[k].source \in Valid(t)
      /\ \A x \in Valid(t) : \E k \in 1 .. n : x = q[k].source
      /\ \A i, j \in 1 .. n : i < j => q[i].source < q[j].source
  BY <1>2 DEF HoldPoints
<1>6. /\ \A x \in Valid(s) : x \in 0 .. (o - 1)
      /\ \A x \in Valid(t) : x \in 0 .. (Len(t) - 1)
  BY DEF Valid
<1>7. /\ \A x : x \in Valid(u) <=> x \in Valid(s) \/ \E k \in Valid(t) : x = k + o
      /\ \A k \in 0 .. (o - 1) : u[k + 1] = s[k + 1]
      /\ \A k \in 0 .. (Len(t) - 1) : u[k + o + 1] = t[k + 1]
  BY JoinedSamples
<1>8. /\ z \in Seq(Points) /\ Len(z) = n
      /\ \A k \in 1 .. n : /\ z[k].source = q[k].source + o
                           /\ z[k].x = q[k].x /\ z[k].y = q[k].y
  <2>1. \A k \in 1 .. n : [q[k] EXCEPT !.source = @ + o]
                            = [source |-> q[k].source + o, x |-> q[k].x, y |-> q[k].y]
    BY <1>2
  <2>2. z = [k \in 1 .. n |-> [source |-> q[k].source + o, x |-> q[k].x, y |-> q[k].y]]
    BY <1>2, <2>1 DEF ShiftPoints
  <2> HIDE DEF z, o, n
  <2>3. \A k \in 1 .. n : [source |-> q[k].source + o, x |-> q[k].x, y |-> q[k].y] \in Points
    BY <1>2, <1>3 DEF Points
  <2>4. z \in [1 .. n -> Points] /\ n \in Nat
    BY <1>2, <2>2, <2>3
  <2>5. z \in Seq(Points) /\ Len(z) = n
    BY <2>4
  <2>6. \A k \in 1 .. n : z[k] = [source |-> q[k].source + o, x |-> q[k].x, y |-> q[k].y]
    BY <2>2, Zenon
  <2> QED
    BY <2>5, <2>6
<1>0. m = Len(p) /\ n = Len(z) /\ p \in Seq(Points) /\ z \in Seq(Points)
  BY <1>1, <1>8
<1> HIDE DEF z, m, n
<1>9. /\ w \in Seq(Points) /\ Len(w) = m + n /\ DOMAIN w = 1 .. (m + n)
      /\ \A i \in 1 .. (m + n) : w[i] = IF i <= m THEN p[i] ELSE z[i - m]
  BY <1>0, ElementsOfJoin
<1> HIDE DEF w, m, n, o, u
<1>10. \A k \in 1 .. m : k \in 1 .. (m + n) /\ w[k] = p[k]
  <2> SUFFICES ASSUME NEW k \in 1 .. m PROVE k \in 1 .. (m + n) /\ w[k] = p[k]
    OBVIOUS
  <2>1. k \in 1 .. (m + n) /\ k <= m
    BY <1>1, <1>2
  <2> QED
    BY <1>9, <2>1
<1>11. \A k \in 1 .. n : k + m \in 1 .. (m + n) /\ w[k + m] = z[k]
  <2> SUFFICES ASSUME NEW k \in 1 .. n PROVE k + m \in 1 .. (m + n) /\ w[k + m] = z[k]
    OBVIOUS
  <2> DEFINE i == k + m
  <2>1. i \in 1 .. (m + n) /\ ~(i <= m) /\ i - m = k
    BY <1>1, <1>2
  <2> HIDE DEF i
  <2>2. w[i] = z[i - m]
    BY <1>9, <2>1
  <2>3. w[i] = z[k]
    BY <2>1, <2>2
  <2> QED
    BY <2>1, <2>3 DEF i
<1>12. \A k \in 1 .. (m + n) : k \in 1 .. m \/ \E j \in 1 .. n : k = j + m
  <2> SUFFICES ASSUME NEW k \in 1 .. (m + n), k \notin 1 .. m
               PROVE  \E j \in 1 .. n : k = j + m
    OBVIOUS
  <2>1. k - m \in 1 .. n /\ k = (k - m) + m
    BY <1>1, <1>2
  <2> QED
    BY <2>1
<1>13. \A k \in 1 .. m : /\ w[k].source \in Valid(s)
                         /\ u[w[k].source + 1] = [x |-> w[k].x, y |-> w[k].y]
  BY <1>4, <1>6, <1>7, <1>10
<1>14. \A k \in 1 .. n : /\ w[k + m].source = q[k].source + o
                         /\ u[w[k + m].source + 1] = [x |-> w[k + m].x, y |-> w[k + m].y]
  <2> SUFFICES ASSUME NEW k \in 1 .. n
               PROVE  /\ w[k + m].source = q[k].source + o
                      /\ u[w[k + m].source + 1] = [x |-> w[k + m].x, y |-> w[k + m].y]
    OBVIOUS
  <2>1. w[k + m].source = q[k].source + o /\ w[k + m].x = q[k].x /\ w[k + m].y = q[k].y
    BY <1>8, <1>11
  <2>2. q[k].source \in 0 .. (Len(t) - 1)
    BY <1>5, <1>6
  <2>3. u[q[k].source + o + 1] = t[q[k].source + 1]
    BY <1>7, <2>2
  <2> QED
    BY <1>5, <2>1, <2>3
<1>15. \A k \in 1 .. (m + n) : u[w[k].source + 1] = [x |-> w[k].x, y |-> w[k].y]
  BY <1>12, <1>13, <1>14
<1>16. ASSUME NEW i \in 1 .. (m + n), NEW j \in 1 .. (m + n), i < j
       PROVE  w[i].source < w[j].source
  <2>1. CASE j \in 1 .. m
    <3>1. i \in 1 .. m
      BY <1>1, <1>16, <2>1
    <3> QED
      BY <1>4, <1>10, <1>16, <2>1, <3>1
  <2>2. CASE j \notin 1 .. m
    <3>1. PICK b \in 1 .. n : j = b + m
      BY <1>12, <2>2
    <3>2. w[j].source = q[b].source + o /\ q[b].source \in Nat
      BY <1>2, <1>14, <3>1
    <3>3. CASE i \in 1 .. m
      <4>1. w[i].source \in 0 .. (o - 1)
        BY <1>6, <1>13, <3>3
      <4> QED
        BY <1>3, <3>2, <4>1
    <3>4. CASE i \notin 1 .. m
      <4>1. PICK a \in 1 .. n : i = a + m
        BY <1>12, <3>4
      <4>2. w[i].source = q[a].source + o /\ q[a].source \in Nat
        BY <1>2, <1>14, <4>1
      <4>3. a < b
        BY <1>1, <1>2, <1>16, <3>1, <4>1
      <4>4. q[a].source < q[b].source
        BY <1>5, <4>3
      <4> QED
        BY <1>3, <3>2, <4>2, <4>4
    <3> QED
      BY <3>3, <3>4
  <2> QED
    BY <2>1, <2>2
<1>17. \A k \in 1 .. (m + n) : w[k].source \in Valid(u)
  <2> SUFFICES ASSUME NEW k \in 1 .. (m + n) PROVE w[k].source \in Valid(u)
    OBVIOUS
  <2>1. CASE k \in 1 .. m
    BY <1>7, <1>13, <2>1
  <2>2. CASE k \notin 1 .. m
    <3>1. PICK j \in 1 .. n : k = j + m
      BY <1>12, <2>2
    <3>2. w[k].source = q[j].source + o /\ q[j].source \in Valid(t)
      BY <1>5, <1>14, <3>1
    <3> QED
      BY <1>7, <3>2
  <2> QED
    BY <2>1, <2>2
<1>18. ASSUME NEW x \in Valid(u)
       PROVE  \E k \in 1 .. (m + n) : x = w[k].source
  <2>1. CASE x \in Valid(s)
    <3>1. PICK k \in 1 .. m : x = p[k].source
      BY <1>4, <2>1
    <3> QED
      BY <1>10, <3>1
  <2>2. CASE x \notin Valid(s)
    <3>1. PICK k \in Valid(t) : x = k + o
      BY <1>7, <2>2
    <3>2. PICK j \in 1 .. n : k = q[j].source
      BY <1>5
    <3>3. x = w[j + m].source /\ j + m \in 1 .. (m + n)
      BY <1>11, <1>14, <3>1, <3>2
    <3> QED
      BY <3>3
  <2> QED
    BY <2>1, <2>2
<1>19. {w[k].source : k \in DOMAIN w} = Valid(u)
  BY <1>9, <1>17, <1>18
<1>20. HoldPoints(w, u)
  BY <1>9, <1>15, <1>16, <1>19 DEF HoldPoints, Points
<1> QED
  BY <1>20 DEF w, z, u, o

LEMMA JoinedGaps ==
  ASSUME NEW s \in Seq(Held), NEW t \in Seq(Held), NEW g, NEW h,
         HoldGaps(g, s), HoldGaps(h, t)
  PROVE  HoldGaps(MergeAdjacentGaps(g \o ShiftGaps(h, Len(s))), s \o t)
<1> DEFINE o == Len(s)
           z == ShiftGaps(h, o)
           w == g \o z
           m == Len(g)
           n == Len(h)
           u == s \o t
<1>1. /\ g \in Seq(Ranges) /\ m \in Nat /\ DOMAIN g = 1 .. m
      /\ \A i \in 1 .. m : /\ g[i].start \in Nat /\ g[i].end \in Nat /\ g[i].start < g[i].end
      /\ \A i, j \in 1 .. m : i < j => g[i].end < g[j].start
  BY RangesHaveEnds, NotEmptyByIndex DEF HoldGaps, Apart
<1>2. /\ h \in Seq(Ranges) /\ n \in Nat /\ DOMAIN h = 1 .. n
      /\ \A i \in 1 .. n : /\ h[i].start \in Nat /\ h[i].end \in Nat /\ h[i].start < h[i].end
      /\ \A i, j \in 1 .. n : i < j => h[i].end < h[j].start
  BY RangesHaveEnds, NotEmptyByIndex DEF HoldGaps, Apart
<1>3. o \in Nat
  OBVIOUS
<1>4. \A x \in Missing(s) : x \in 0 .. (o - 1)
  BY DEF Missing
<1>5. /\ \A x : x \in Missing(s) <=> \E i \in 1 .. m : x \in g[i].start .. (g[i].end - 1)
      /\ \A x : x \in Missing(t) <=> \E i \in 1 .. n : x \in h[i].start .. (h[i].end - 1)
  BY <1>1, <1>2, CoveredMembers DEF HoldGaps
<1>6. \A i \in 1 .. m : g[i].end <= o
  <2> SUFFICES ASSUME NEW i \in 1 .. m PROVE g[i].end <= o
    OBVIOUS
  <2>1. g[i].end - 1 \in g[i].start .. (g[i].end - 1)
    BY <1>1
  <2>2. g[i].end - 1 \in 0 .. (o - 1)
    BY <1>4, <1>5, <2>1
  <2> QED
    BY <1>1, <1>3, <2>2
<1>7. /\ z \in Seq(Ranges) /\ Len(z) = n
      /\ \A k \in 1 .. n : z[k].start = h[k].start + o /\ z[k].end = h[k].end + o
  <2>1. z = [k \in 1 .. n |-> [start |-> h[k].start + o, end |-> h[k].end + o]]
    BY <1>2 DEF ShiftGaps
  <2> HIDE DEF z, o, n
  <2>2. \A k \in 1 .. n : [start |-> h[k].start + o, end |-> h[k].end + o] \in Ranges
    BY <1>2, <1>3 DEF Ranges
  <2> QED
    BY <1>2, <2>1, <2>2
<1>0. m = Len(g) /\ n = Len(z) /\ g \in Seq(Ranges) /\ z \in Seq(Ranges)
  BY <1>1, <1>7
<1> HIDE DEF z, m, n
<1>8. /\ w \in Seq(Ranges) /\ Len(w) = m + n /\ DOMAIN w = 1 .. (m + n)
      /\ \A i \in 1 .. (m + n) : w[i] = IF i <= m THEN g[i] ELSE z[i - m]
  BY <1>0, ElementsOfJoin
<1>9. \A x : x \in Missing(u) <=> x \in Missing(s) \/ \E k \in Missing(t) : x = k + o
  BY JoinedSamples
<1> HIDE DEF w, m, n, o, u
<1>10. \A k \in 1 .. m : k \in 1 .. (m + n) /\ w[k] = g[k]
  <2> SUFFICES ASSUME NEW k \in 1 .. m PROVE k \in 1 .. (m + n) /\ w[k] = g[k]
    OBVIOUS
  <2>1. k \in 1 .. (m + n) /\ k <= m
    BY <1>1, <1>2
  <2> QED
    BY <1>8, <2>1
<1>11. \A k \in 1 .. n : k + m \in 1 .. (m + n) /\ w[k + m] = z[k]
  <2> SUFFICES ASSUME NEW k \in 1 .. n PROVE k + m \in 1 .. (m + n) /\ w[k + m] = z[k]
    OBVIOUS
  <2> DEFINE i == k + m
  <2>1. i \in 1 .. (m + n) /\ ~(i <= m) /\ i - m = k
    BY <1>1, <1>2
  <2> HIDE DEF i
  <2>2. w[i] = z[i - m]
    BY <1>8, <2>1
  <2>3. w[i] = z[k]
    BY <2>1, <2>2
  <2> QED
    BY <2>1, <2>3 DEF i
<1>12. \A k \in 1 .. (m + n) : k \in 1 .. m \/ \E j \in 1 .. n : k = j + m
  <2> SUFFICES ASSUME NEW k \in 1 .. (m + n), k \notin 1 .. m
               PROVE  \E j \in 1 .. n : k = j + m
    OBVIOUS
  <2>1. k - m \in 1 .. n /\ k = (k - m) + m
    BY <1>1, <1>2
  <2> QED
    BY <2>1
<1>13. \A k \in 1 .. n : w[k + m].start = h[k].start + o /\ w[k + m].end = h[k].end + o
  BY <1>7, <1>11
<1>14. \A k \in 1 .. (m + n) : w[k].start < w[k].end
  <2> SUFFICES ASSUME NEW k \in 1 .. (m + n) PROVE w[k].start < w[k].end
    OBVIOUS
  <2>1. CASE k \in 1 .. m
    BY <1>1, <1>10, <2>1
  <2>2. CASE k \notin 1 .. m
    <3>1. PICK j \in 1 .. n : k = j + m
      BY <1>12, <2>2
    <3>2. w[k].start = h[j].start + o /\ w[k].end = h[j].end + o
      BY <1>13, <3>1
    <3> QED
      BY <1>2, <1>3, <3>2
  <2> QED
    BY <2>1, <2>2
<1>15. NotEmpty(w)
  BY <1>8, <1>14 DEF NotEmpty
<1>16. InOrder(w)
  <2> SUFFICES ASSUME NEW i \in 1 .. (Len(w) - 1) PROVE w[i].end <= w[i + 1].start
    BY DEF InOrder
  <2> DEFINE j == i + 1
  <2>1. i \in 1 .. (m + n) /\ j \in 1 .. (m + n) /\ i < j
    BY <1>1, <1>2, <1>8
  <2> HIDE DEF j
  <2>2. CASE j \in 1 .. m
    <3>1. i \in 1 .. m
      BY <1>1, <2>1, <2>2
    <3>2. g[i].end < g[j].start /\ g[i].end \in Nat /\ g[j].start \in Nat
      BY <1>1, <2>1, <2>2, <3>1
    <3> QED
      BY <1>10, <2>2, <3>1, <3>2 DEF j
  <2>3. CASE j \notin 1 .. m
    <3>1. PICK b \in 1 .. n : j = b + m
      BY <1>12, <2>1, <2>3
    <3>2. w[j].start = h[b].start + o /\ h[b].start \in Nat
      BY <1>2, <1>13, <3>1
    <3>3. CASE i \in 1 .. m
      <4>1. w[i].end = g[i].end /\ g[i].end <= o /\ g[i].end \in Nat
        BY <1>1, <1>6, <1>10, <3>3
      <4>2. w[i].end <= w[j].start
        BY <1>3, <3>2, <4>1
      <4> QED
        BY <4>2 DEF j
    <3>4. CASE i \notin 1 .. m
      <4>1. PICK a \in 1 .. n : i = a + m
        BY <1>12, <2>1, <3>4
      <4>2. w[i].end = h[a].end + o /\ h[a].end \in Nat
        BY <1>2, <1>13, <4>1
      <4>3. a < b
        BY <1>1, <1>2, <2>1, <3>1, <4>1
      <4>4. h[a].end < h[b].start
        BY <1>2, <4>3
      <4>5. w[i].end <= w[j].start
        BY <1>3, <3>2, <4>2, <4>4
      <4> QED
        BY <4>5 DEF j
    <3> QED
      BY <3>3, <3>4
  <2> QED
    BY <2>2, <2>3
<1>17. \A x : x \in Covered(w) <=> \E i \in 1 .. (m + n) : x \in w[i].start .. (w[i].end - 1)
  BY <1>8, CoveredMembers
<1>18. \A k \in 1 .. n : \A x : x \in w[k + m].start .. (w[k + m].end - 1) <=>
                                  \E y \in h[k].start .. (h[k].end - 1) : x = y + o
  <2> SUFFICES ASSUME NEW k \in 1 .. n, NEW x
               PROVE  x \in w[k + m].start .. (w[k + m].end - 1) <=>
                        \E y \in h[k].start .. (h[k].end - 1) : x = y + o
    OBVIOUS
  <2> DEFINE a == h[k].start
             b == h[k].end
             c == w[k + m].start
             d == w[k + m].end
  <2>1. c = a + o /\ d = b + o /\ a \in Nat /\ b \in Nat
    BY <1>2, <1>13
  <2> HIDE DEF a, b, c, d
  <2>2. ASSUME x \in c .. (d - 1) PROVE \E y \in a .. (b - 1) : x = y + o
    <3>1. x \in Int /\ a + o <= x /\ x <= b + o - 1
      BY <1>3, <2>1, <2>2
    <3>2. x - o \in a .. (b - 1) /\ x = (x - o) + o
      BY <1>3, <2>1, <3>1
    <3> QED
      BY <3>2
  <2>3. ASSUME NEW y \in a .. (b - 1), x = y + o PROVE x \in c .. (d - 1)
    BY <1>3, <2>1, <2>3
  <2>4. x \in c .. (d - 1) <=> \E y \in a .. (b - 1) : x = y + o
    BY <2>2, <2>3, Zenon
  <2> QED
    BY <2>4, Zenon DEF a, b, c, d
<1>19. ASSUME NEW x \in Covered(w) PROVE x \in Missing(u)
  <2>1. PICK i \in 1 .. (m + n) : x \in w[i].start .. (w[i].end - 1)
    BY <1>17
  <2>2. CASE i \in 1 .. m
    BY <1>5, <1>9, <1>10, <2>1, <2>2
  <2>3. CASE i \notin 1 .. m
    <3>1. PICK k \in 1 .. n : i = k + m
      BY <1>12, <2>3
    <3>2. PICK y \in h[k].start .. (h[k].end - 1) : x = y + o
      BY <1>18, <2>1, <3>1
    <3>3. y \in Missing(t)
      BY <1>5
    <3> QED
      BY <1>9, <3>2, <3>3
  <2> QED
    BY <2>2, <2>3
<1>20. ASSUME NEW x \in Missing(u) PROVE x \in Covered(w)
  <2>1. CASE x \in Missing(s)
    <3>1. PICK i \in 1 .. m : x \in g[i].start .. (g[i].end - 1)
      BY <1>5, <2>1
    <3>2. i \in 1 .. (m + n) /\ x \in w[i].start .. (w[i].end - 1)
      BY <1>10, <3>1
    <3> QED
      BY <1>17, <3>2
  <2>2. CASE x \notin Missing(s)
    <3>1. PICK y \in Missing(t) : x = y + o
      BY <1>9, <2>2
    <3>2. PICK k \in 1 .. n : y \in h[k].start .. (h[k].end - 1)
      BY <1>5
    <3>3. k + m \in 1 .. (m + n) /\ x \in w[k + m].start .. (w[k + m].end - 1)
      BY <1>11, <1>18, <3>1, <3>2
    <3> QED
      BY <1>17, <3>3, Zenon
  <2> QED
    BY <2>1, <2>2
<1>21. Covered(w) = Missing(u)
  BY <1>19, <1>20
<1>22. HoldGaps(MergeAdjacentGaps(w), u)
  <2>1. /\ MergeAdjacentGaps(w) \in Seq(Ranges)
        /\ NotEmpty(MergeAdjacentGaps(w))
        /\ Apart(MergeAdjacentGaps(w))
        /\ Covered(MergeAdjacentGaps(w)) = Covered(w)
    BY <1>8, <1>15, <1>16, MergingKeepsApart
  <2> QED
    BY <1>21, <2>1 DEF HoldGaps
<1> QED
  BY <1>22 DEF w, z, u, o

-----------------------------------------------------------------------------
(* The storage *)

\* The chunks that points are cut into.
ChunksOf(points, gaps, segments, first) ==
  [c \in 1 .. ChunkCount(points) |->
     ChunkAt(points, gaps, segments, (c - 1) * MaxPointsPerChunk, first + c - 1)]

\* Parts that are not refused are stored as they are, and cut into segments and
\* chunks.
LEMMA PartsAreStored ==
  ASSUME NEW topology, NEW len, NEW points, NEW gaps, NEW first,
         ~IsRefused(FromParts(topology, len, points, gaps, first))
  PROVE  LET new == FromParts(topology, len, points, gaps, first)
         IN /\ DOMAIN new = Fields
            /\ new.sourceLen = len /\ new.points = points /\ new.gaps = gaps
            /\ new.segments = SegmentsOfPoints(points)
            /\ new.chunks = ChunksOf(points, gaps, new.segments, first)
<1> DEFINE count == ChunkCount(points)
           refused == count > 0 /\ (first = 0 \/ first + count - 1 > LastRevision)
<1>1. IsRefused(Refused("RevisionExhausted"))
  BY DEF IsRefused, Refused
<1>2. ~refused
  BY <1>1 DEF FromParts
<1> HIDE DEF refused
<1> QED
  BY <1>2 DEF FromParts, Fields, refused, ChunksOf

\* What the storage is, when it holds some samples.
Holds(stored, samples) ==
  /\ DOMAIN stored = Fields
  /\ stored.sourceLen = Len(samples)
  /\ HoldPoints(stored.points, samples)
  /\ HoldGaps(stored.gaps, samples)
  /\ stored.segments = SegmentsOfPoints(stored.points)

LEMMA HoldersAreStored ==
  ASSUME NEW stored, NEW samples, Holds(stored, samples)
  PROVE  stored # NoStorage /\ ~IsRefused(stored)
<1>1. DOMAIN NoStorage = {"topology"} /\ "chunks" \in Fields /\ "error" \notin Fields
  BY DEF NoStorage, Fields
<1> QED
  BY <1>1 DEF Holds, IsRefused

\* Joining new samples to a storage yields the storage of both.
LEMMA AppendHolds ==
  ASSUME NEW old, NEW new, NEW s, NEW t, s \in Seq(Held),
         Holds(old, s), Normalized(new, t), ~IsRefused(AppendTo(old, new))
  PROVE  Holds(AppendTo(old, new), s \o t)
<1> DEFINE len    == old.sourceLen + new.sourceLen
           points == old.points \o ShiftPoints(new.points, old.sourceLen)
           gaps   == MergeAdjacentGaps(old.gaps \o ShiftGaps(new.gaps, old.sourceLen))
           u      == s \o t
<1>1. t \in Seq(Held) /\ new.sourceLen = Len(t) /\ old.sourceLen = Len(s)
  BY DEF Normalized, Holds, Held
<1>2. u \in Seq(Held) /\ Len(u) = len
  BY <1>1
<1>3. HoldPoints(points, u)
  BY <1>1, JoinedPoints DEF Holds, Normalized
<1>4. HoldGaps(gaps, u)
  BY <1>1, JoinedGaps DEF Holds, Normalized
<1>5. new.points = <<>> => points = old.points
  <2> SUFFICES ASSUME new.points = <<>> PROVE points = old.points
    OBVIOUS
  <2>1. ShiftPoints(<<>>, old.sourceLen) = <<>>
    BY DEF ShiftPoints
  <2>2. old.points \in Seq(Points)
    BY DEF Holds, HoldPoints, Points
  <2> QED
    BY <2>1, <2>2, ConcatEmptySeq
<1>6. new.sourceLen = 0 => u = s
  <2>1. new.sourceLen = 0 => t = <<>>
    BY <1>1, EmptySeq
  <2> QED
    BY <2>1, ConcatEmptySeq
<1> HIDE DEF len, points, gaps, u
<1>7. AppendTo(old, new) =
        IF new.topology # old.topology THEN Refused("TopologyViolation")
        ELSE IF new.sourceLen = 0 THEN old
        ELSE IF len > MaxSourceLen THEN Refused("CapacityExceeded")
        ELSE IF JoinsBackwards(old, new) THEN Refused("TopologyViolation")
        ELSE IF new.points = <<>>
        THEN [old EXCEPT !.sourceLen = len, !.gaps = gaps]
        ELSE FromParts(old.topology, len, points, gaps, old.nextRevision)
  BY DEF AppendTo, len, points, gaps
<1>8. \A kind : IsRefused(Refused(kind))
  BY DEF IsRefused, Refused
<1>9. CASE AppendTo(old, new) = old /\ new.sourceLen = 0
  BY <1>6, <1>9 DEF u
<1>10. CASE AppendTo(old, new) = [old EXCEPT !.sourceLen = len, !.gaps = gaps] /\ new.points = <<>>
  <2> DEFINE r == [old EXCEPT !.sourceLen = len, !.gaps = gaps]
  <2>1. DOMAIN r = DOMAIN old
    OBVIOUS
  <2>2. r.sourceLen = len /\ r.gaps = gaps /\ r.points = old.points /\ r.segments = old.segments
    BY DEF Holds, Fields
  <2> HIDE DEF r
  <2>3. Holds(r, u)
    BY <1>2, <1>3, <1>4, <1>5, <1>10, <2>1, <2>2 DEF Holds
  <2> QED
    BY <1>10, <2>3 DEF r, u
<1>11. CASE AppendTo(old, new) = FromParts(old.topology, len, points, gaps, old.nextRevision)
  <2> DEFINE r == FromParts(old.topology, len, points, gaps, old.nextRevision)
  <2>1. /\ DOMAIN r = Fields
        /\ r.sourceLen = len /\ r.points = points /\ r.gaps = gaps
        /\ r.segments = SegmentsOfPoints(points)
    BY <1>11, PartsAreStored
  <2> HIDE DEF r
  <2>2. Holds(r, u)
    BY <1>2, <1>3, <1>4, <2>1 DEF Holds
  <2> QED
    BY <1>11, <2>2 DEF r, u
<1> QED
  BY <1>7, <1>8, <1>9, <1>10, <1>11

\* A first piece is stored as it is.
LEMMA InsertHolds ==
  ASSUME NEW topology, NEW new, NEW t, Normalized(new, t),
         ~IsRefused(FromParts(topology, new.sourceLen, new.points, new.gaps, 1))
  PROVE  Holds(FromParts(topology, new.sourceLen, new.points, new.gaps, 1), t)
<1> DEFINE r == FromParts(topology, new.sourceLen, new.points, new.gaps, 1)
<1>1. /\ DOMAIN r = Fields
      /\ r.sourceLen = new.sourceLen /\ r.points = new.points /\ r.gaps = new.gaps
      /\ r.segments = SegmentsOfPoints(new.points)
  BY PartsAreStored
<1> HIDE DEF r
<1>2. Holds(r, t)
  BY <1>1 DEF Holds, Normalized
<1> QED
  BY <1>2 DEF r

\* The invariant, in terms of Holds.
LEMMA InvariantIsHolds ==
  StorageIInv <=> /\ source \in Seq(Held)
                  /\ ~Stored => source = <<>>
                  /\ Stored => Holds(storage, source)
BY DEF StorageIInv, Holds, Held

\* The step of a result that the storage follows.
LEMMA SettleKeeps ==
  ASSUME StorageIInv, NEW result, NEW piece, Settle(result, piece),
         ~IsRefused(result) => /\ source \o Samples(piece) \in Seq(Held)
                               /\ Holds(result, source \o Samples(piece))
  PROVE  StorageIInv'
<1>1. CASE IsRefused(result)
  <2>1. UNCHANGED <<storage, source, chunked>>
    BY <1>1 DEF Settle
  <2> QED
    BY <2>1 DEF StorageIInv, Stored
<1>2. CASE ~IsRefused(result)
  <2>1. storage' = result /\ source' = source \o Samples(piece)
    BY <1>2 DEF Settle
  <2>2. Stored' /\ Holds(storage', source') /\ source' \in Seq(Held)
    BY <1>2, <2>1, HoldersAreStored DEF Stored
  <2> QED
    BY <2>2 DEF StorageIInv, Holds, Held
<1> QED
  BY <1>1, <1>2

\* However the samples arrive, what the storage is built from keeps its shape:
\* the gaps stay apart, the points in order, the segments those of the points.
THEOREM StorageKeepsShape == Spec => []StorageIInv
<1>1. Init => StorageIInv
  BY DEF Init, StorageIInv, Stored
<1>2. StorageIInv /\ [Next]_vars => StorageIInv'
  <2> SUFFICES ASSUME StorageIInv, [Next]_vars PROVE StorageIInv'
    OBVIOUS
  <2>1. source \in Seq(Held) /\ (~Stored => source = <<>>) /\ (Stored => Holds(storage, source))
    BY InvariantIsHolds
  <2>2. ASSUME NEW topology \in Topologies, NEW piece \in Pieces, Insert(topology, piece)
        PROVE  StorageIInv'
    <3> DEFINE new == Normalize(topology, piece)
               t   == Samples(piece)
               made == FromParts(topology, new.sourceLen, new.points, new.gaps, 1)
               result == IF IsRefused(new) THEN new ELSE made
    <3>1. ~Stored /\ Settle(result, piece)
      BY <2>2 DEF Insert, Stored
    <3>2. ~IsRefused(new) => Normalized(new, t)
      BY PiecesArePieces, NormalizedHolds
    <3> HIDE DEF new, t
    <3>3. ~IsRefused(result) => source \o t \in Seq(Held) /\ Holds(result, source \o t)
      <4> SUFFICES ASSUME ~IsRefused(result)
                   PROVE  source \o t \in Seq(Held) /\ Holds(result, source \o t)
        OBVIOUS
      <4>1. ~IsRefused(new) /\ result = made
        OBVIOUS
      <4> HIDE DEF result
      <4>2. Normalized(new, t) /\ Holds(made, t)
        BY <3>2, <4>1, InsertHolds
      <4>3. t \in Seq(Held)
        BY <4>2 DEF Normalized, Held
      <4>4. source \o t = t
        BY <2>1, <3>1, <4>3
      <4> QED
        BY <4>1, <4>2, <4>3, <4>4
    <3> HIDE DEF result
    <3> QED
      BY <3>1, <3>3, SettleKeeps DEF t
  <2>3. ASSUME NEW topology \in Topologies, NEW piece \in Pieces, Extend(topology, piece)
        PROVE  StorageIInv'
    <3> DEFINE new == Normalize(topology, piece)
               t   == Samples(piece)
               result == IF IsRefused(new) THEN new ELSE AppendTo(storage, new)
    <3>1. Stored /\ Settle(result, piece)
      BY <2>3 DEF Extend, Stored
    <3>2. ~IsRefused(new) => Normalized(new, t)
      BY PiecesArePieces, NormalizedHolds
    <3> HIDE DEF new, t
    <3>3. ~IsRefused(result) => source \o t \in Seq(Held) /\ Holds(result, source \o t)
      <4> SUFFICES ASSUME ~IsRefused(result)
                   PROVE  source \o t \in Seq(Held) /\ Holds(result, source \o t)
        OBVIOUS
      <4>1. ~IsRefused(new) /\ result = AppendTo(storage, new)
        OBVIOUS
      <4> HIDE DEF result
      <4>2. Normalized(new, t)
        BY <3>2, <4>1
      <4>3. t \in Seq(Held)
        BY <4>2 DEF Normalized, Held
      <4> QED
        BY <2>1, <3>1, <4>1, <4>2, <4>3, AppendHolds
    <3> HIDE DEF result
    <3> QED
      BY <3>1, <3>3, SettleKeeps DEF t
  <2>4. CASE UNCHANGED vars
    BY <2>4 DEF vars, StorageIInv, Stored
  <2> QED
    BY <2>2, <2>3, <2>4 DEF Next
<1> QED
  BY <1>1, <1>2, PTL DEF Spec

\* However the samples arrived, in one call or in many, the storage holds what
\* was accepted: every valid sample once and at its own index, and as gaps and as
\* logical segments the maximal runs of the missing and of the valid ones.
THEOREM StorageFollowsSource == Spec => []StorageHoldsSource
<1>1. StorageIInv => StorageHoldsSource
  <2> SUFFICES ASSUME StorageIInv, Stored
               PROVE  /\ storage.sourceLen = Len(source)
                      /\ Len(storage.points) = Cardinality(Valid(source))
                      /\ \A p \in ToSet(storage.points) :
                           /\ p.source \in Valid(source)
                           /\ source[p.source + 1] = [x |-> p.x, y |-> p.y]
                      /\ AreRunsOf(storage.gaps, Missing(source))
                      /\ AreRunsOf([i \in DOMAIN storage.segments |->
                                      [start |-> storage.segments[i].sourceStart,
                                       end   |-> storage.segments[i].sourceEnd]],
                                   Valid(source))
    BY DEF StorageHoldsSource
  <2> DEFINE points == storage.points
             gaps   == storage.gaps
             segs   == storage.segments
  <2>1. /\ storage.sourceLen = Len(source) /\ segs = SegmentsOfPoints(points)
        /\ HoldPoints(points, source) /\ HoldGaps(gaps, source)
    BY DEF StorageIInv
  <2> HIDE DEF points, gaps, segs
  <2>2. Len(points) = Cardinality(Valid(source))
    BY <2>1, PointsAreCounted
  <2>3. \A p \in ToSet(points) :
          p.source \in Valid(source) /\ source[p.source + 1] = [x |-> p.x, y |-> p.y]
    BY <2>1 DEF HoldPoints, ToSet
  <2>4. AreRunsOf(gaps, Missing(source))
    BY <2>1, ApartAreRuns DEF HoldGaps
  <2>5. Tiles(points, segs)
    BY <2>1, PointsAscend, SegmentsTile
  <2>6. AreRunsOf([i \in DOMAIN segs |->
                     [start |-> segs[i].sourceStart, end |-> segs[i].sourceEnd]],
                  Valid(source))
    BY <2>1, <2>5, TilesAreRuns
  <2> QED
    BY <2>1, <2>2, <2>3, <2>4, <2>6 DEF points, gaps, segs
<1> QED
  BY <1>1, StorageKeepsShape, PTL

-----------------------------------------------------------------------------
(* Chunks *)

LEMMA MinOfTwo ==
  ASSUME NEW a \in Int, NEW b \in Int
  PROVE  Min({a, b}) = IF a <= b THEN a ELSE b
<1> DEFINE m == IF a <= b THEN a ELSE b
<1>1. m \in {a, b} /\ \A y \in {a, b} : m <= y
  OBVIOUS
<1>2. \A z \in {a, b} : (\A y \in {a, b} : z <= y) => z = m
  OBVIOUS
<1> HIDE DEF m
<1>3. Min({a, b}) = m
  BY <1>1, <1>2 DEF Min
<1> QED
  BY <1>3 DEF m

LEMMA MaxOfTwo ==
  ASSUME NEW a \in Int, NEW b \in Int
  PROVE  Max({a, b}) = IF a >= b THEN a ELSE b
<1> DEFINE m == IF a >= b THEN a ELSE b
<1>1. m \in {a, b} /\ \A y \in {a, b} : m >= y
  OBVIOUS
<1>2. \A z \in {a, b} : (\A y \in {a, b} : z >= y) => z = m
  OBVIOUS
<1> HIDE DEF m
<1>3. Max({a, b}) = m
  BY <1>1, <1>2 DEF Max
<1> QED
  BY <1>3 DEF m

LEMMA ClipIs ==
  ASSUME NEW r, r.start \in Nat, r.end \in Nat, NEW start \in Nat, NEW end \in Nat
  PROVE  /\ Clip(r, start, end).start = IF r.start >= start THEN r.start ELSE start
         /\ Clip(r, start, end).end = IF r.end <= end THEN r.end ELSE end
         /\ Clip(r, start, end) \in Ranges
<1>1. /\ Max({r.start, start}) = IF r.start >= start THEN r.start ELSE start
      /\ Min({r.end, end}) = IF r.end <= end THEN r.end ELSE end
  BY MinOfTwo, MaxOfTwo
<1>2. /\ Clip(r, start, end).start = Max({r.start, start})
      /\ Clip(r, start, end).end = Min({r.end, end})
      /\ Clip(r, start, end) = [start |-> Max({r.start, start}), end |-> Min({r.end, end})]
  BY DEF Clip
<1>3. Max({r.start, start}) \in Nat /\ Min({r.end, end}) \in Nat
  BY <1>1
<1> QED
  BY <1>1, <1>2, <1>3 DEF Ranges

\* What a filter lets through.
LEMMA FilteredMembers ==
  ASSUME NEW A, NEW s \in Seq(A), NEW set, NEW x
  PROVE  x \in ToSet(Filtered(s, set)) <=> \E i \in 1 .. Len(s) : x = s[i] /\ x \in set
<1> DEFINE t == Filtered(s, set)
<1>1. PICK at : Picks(A, s, set, Len(s), t, at)
  BY FilteredPicks
<1> HIDE DEF t
<1>2. /\ t \in Seq(A) /\ DOMAIN t = 1 .. Len(t)
      /\ at \in [1 .. Len(t) -> 1 .. Len(s)]
      /\ \A j \in 1 .. Len(t) : t[j] = s[at[j]]
      /\ \A i \in 1 .. Len(s) : s[i] \in set <=> \E j \in 1 .. Len(t) : at[j] = i
  BY <1>1 DEF Picks
<1>3. x \in ToSet(t) <=> \E j \in 1 .. Len(t) : x = t[j]
  BY <1>2 DEF ToSet
<1>4. ASSUME NEW j \in 1 .. Len(t), x = t[j]
      PROVE  \E i \in 1 .. Len(s) : x = s[i] /\ x \in set
  <2>1. at[j] \in 1 .. Len(s) /\ x = s[at[j]]
    BY <1>2, <1>4
  <2>2. s[at[j]] \in set
    BY <1>2, <2>1
  <2> QED
    BY <2>1, <2>2
<1>5. ASSUME NEW i \in 1 .. Len(s), x = s[i], x \in set
      PROVE  \E j \in 1 .. Len(t) : x = t[j]
  <2>1. PICK j \in 1 .. Len(t) : at[j] = i
    BY <1>2, <1>5
  <2> QED
    BY <1>2, <1>5, <2>1
<1> QED
  BY <1>3, <1>4, <1>5 DEF t

LEMMA PieceIs ==
  ASSUME NEW points, NEW segs, Tiles(points, segs), Len(points) \in Nat,
         NEW i \in 1 .. Len(segs), NEW start \in Nat, NEW end \in Nat
  PROVE  LET p == PieceOf(points, segs, i, start, end)
             a == segs[i].pointStart
             b == segs[i].pointEnd
         IN /\ p.logical = i
            /\ p.globalStart = IF a >= start THEN a ELSE start
            /\ p.globalEnd = IF b <= end THEN b ELSE end
            /\ p.localStart = p.globalStart - start
            /\ p.localEnd = p.globalEnd - start
            /\ p.globalStart < p.globalEnd =>
                 p.sourceStart = points[p.globalStart + 1].source
<1> DEFINE r == [start |-> segs[i].pointStart, end |-> segs[i].pointEnd]
           c == Clip(r, start, end)
<1>1. segs[i].pointStart \in Nat /\ segs[i].pointEnd \in Nat
  BY DEF Tiles
<1>2. r.start = segs[i].pointStart /\ r.end = segs[i].pointEnd
  OBVIOUS
<1>3. PieceOf(points, segs, i, start, end) =
        [logical     |-> i,
         globalStart |-> c.start,
         globalEnd   |-> c.end,
         localStart  |-> c.start - start,
         localEnd    |-> c.end - start,
         sourceStart |-> IF c.start < c.end THEN points[c.start + 1].source ELSE 0]
  BY DEF PieceOf
<1> HIDE DEF r
<1>4. /\ c.start = IF r.start >= start THEN r.start ELSE start
      /\ c.end = IF r.end <= end THEN r.end ELSE end
  <2>1. r.start \in Nat /\ r.end \in Nat
    BY <1>1, <1>2
  <2> QED
    BY <2>1, ClipIs
<1> HIDE DEF c
<1> QED
  BY <1>2, <1>3, <1>4

LEMMA PiecesAre ==
  ASSUME NEW points, NEW segs, Tiles(points, segs), NEW start, NEW end, NEW p
  PROVE  p \in ToSet(PiecesOf(points, segs, start, end)) <=>
           \E i \in 1 .. Len(segs) :
             p = PieceOf(points, segs, i, start, end) /\ p.globalStart < p.globalEnd
<1> DEFINE n == Len(segs)
           parts == [i \in 1 .. n |-> PieceOf(points, segs, i, start, end)]
           A == ToSet(parts)
           set == {q \in A : q.globalStart < q.globalEnd}
<1>1. n \in Nat /\ DOMAIN segs = 1 .. n
  BY DEF Tiles
<1>2. PiecesOf(points, segs, start, end) = Filtered(parts, set)
  BY <1>1 DEF PiecesOf
<1>3. \A i \in 1 .. n : parts[i] = PieceOf(points, segs, i, start, end)
  OBVIOUS
<1>4. DOMAIN parts = 1 .. n
  OBVIOUS
<1>5. parts = [i \in 1 .. n |-> parts[i]]
  OBVIOUS
<1> HIDE DEF parts, n
<1>6. \A q : q \in A <=> \E i \in 1 .. n : q = parts[i]
  BY <1>4 DEF ToSet
<1> HIDE DEF A
<1>7. parts \in Seq(A) /\ Len(parts) = n
  <2>1. \A i \in 1 .. n : parts[i] \in A
    BY <1>6
  <2>2. parts \in [1 .. n -> A]
    BY <1>5, <2>1
  <2> QED
    BY <1>1, <2>2
<1>8. p \in ToSet(Filtered(parts, set)) <=> \E i \in 1 .. n : p = parts[i] /\ p \in set
  BY <1>7, FilteredMembers
<1>9. \A i \in 1 .. n : p = parts[i] => (p \in set <=> p.globalStart < p.globalEnd)
  BY <1>6
<1> QED
  BY <1>2, <1>3, <1>8, <1>9 DEF n

\* A segment has points on both sides of a position.
Crossed(segs, at) ==
  \E i \in 1 .. Len(segs) : segs[i].pointStart < at /\ at < segs[i].pointEnd

LEMMA ContinuesIsCrossed ==
  ASSUME NEW points, NEW segs, Tiles(points, segs), Len(points) \in Nat,
         NEW start \in Nat, NEW end \in Nat, start < end
  PROVE  /\ (\E p \in ToSet(PiecesOf(points, segs, start, end)) :
               p.globalStart > segs[p.logical].pointStart) <=> Crossed(segs, start)
         /\ (\E p \in ToSet(PiecesOf(points, segs, start, end)) :
               p.globalEnd < segs[p.logical].pointEnd) <=> Crossed(segs, end)
<1> DEFINE Piece(i) == PieceOf(points, segs, i, start, end)
           pieces == ToSet(PiecesOf(points, segs, start, end))
<1>1. \A i \in 1 .. Len(segs) :
        /\ Piece(i).logical = i
        /\ Piece(i).globalStart = IF segs[i].pointStart >= start THEN segs[i].pointStart ELSE start
        /\ Piece(i).globalEnd = IF segs[i].pointEnd <= end THEN segs[i].pointEnd ELSE end
        /\ segs[i].pointStart \in Nat /\ segs[i].pointEnd \in Nat
  <2> SUFFICES ASSUME NEW i \in 1 .. Len(segs)
               PROVE
        /\ Piece(i).logical = i
        /\ Piece(i).globalStart = IF segs[i].pointStart >= start THEN segs[i].pointStart ELSE start
        /\ Piece(i).globalEnd = IF segs[i].pointEnd <= end THEN segs[i].pointEnd ELSE end
        /\ segs[i].pointStart \in Nat /\ segs[i].pointEnd \in Nat
    OBVIOUS
  <2>1. segs[i].pointStart \in Nat /\ segs[i].pointEnd \in Nat
    BY DEF Tiles
  <2>2. /\ Piece(i).logical = i
        /\ Piece(i).globalStart = IF segs[i].pointStart >= start THEN segs[i].pointStart ELSE start
        /\ Piece(i).globalEnd = IF segs[i].pointEnd <= end THEN segs[i].pointEnd ELSE end
    BY PieceIs
  <2> QED
    BY <2>1, <2>2
<1>2. \A p : p \in pieces <=>
               \E i \in 1 .. Len(segs) : p = Piece(i) /\ p.globalStart < p.globalEnd
  BY PiecesAre
<1> HIDE DEF Piece, pieces
<1>3. \A i \in 1 .. Len(segs) :
        /\ (Piece(i).globalStart < Piece(i).globalEnd /\ Piece(i).globalStart > segs[i].pointStart)
             <=> (segs[i].pointStart < start /\ start < segs[i].pointEnd)
        /\ (Piece(i).globalStart < Piece(i).globalEnd /\ Piece(i).globalEnd < segs[i].pointEnd)
             <=> (segs[i].pointStart < end /\ end < segs[i].pointEnd)
  <2> SUFFICES ASSUME NEW i \in 1 .. Len(segs)
               PROVE
        /\ (Piece(i).globalStart < Piece(i).globalEnd /\ Piece(i).globalStart > segs[i].pointStart)
             <=> (segs[i].pointStart < start /\ start < segs[i].pointEnd)
        /\ (Piece(i).globalStart < Piece(i).globalEnd /\ Piece(i).globalEnd < segs[i].pointEnd)
             <=> (segs[i].pointStart < end /\ end < segs[i].pointEnd)
    OBVIOUS
  <2> DEFINE a == segs[i].pointStart
             b == segs[i].pointEnd
             c == Piece(i).globalStart
             d == Piece(i).globalEnd
  <2>1. /\ c = IF a >= start THEN a ELSE start
        /\ d = IF b <= end THEN b ELSE end
        /\ a \in Nat /\ b \in Nat
    BY <1>1
  <2>2. a < b
    BY DEF Tiles
  <2> HIDE DEF a, b, c, d
  <2>3. /\ (c < d /\ c > a) <=> (a < start /\ start < b)
        /\ (c < d /\ d < b) <=> (a < end /\ end < b)
    BY <2>1, <2>2
  <2> QED
    BY <2>3 DEF a, b, c, d
<1>4. (\E p \in pieces : p.globalStart > segs[p.logical].pointStart) <=> Crossed(segs, start)
  <2>1. (\E p \in pieces : p.globalStart > segs[p.logical].pointStart) <=>
          \E i \in 1 .. Len(segs) : /\ Piece(i).globalStart < Piece(i).globalEnd
                                    /\ Piece(i).globalStart > segs[Piece(i).logical].pointStart
    BY <1>2, Zenon
  <2> QED
    BY <1>1, <1>3, <2>1 DEF Crossed
<1>5. (\E p \in pieces : p.globalEnd < segs[p.logical].pointEnd) <=> Crossed(segs, end)
  <2>1. (\E p \in pieces : p.globalEnd < segs[p.logical].pointEnd) <=>
          \E i \in 1 .. Len(segs) : /\ Piece(i).globalStart < Piece(i).globalEnd
                                    /\ Piece(i).globalEnd < segs[Piece(i).logical].pointEnd
    BY <1>2, Zenon
  <2> QED
    BY <1>1, <1>3, <2>1 DEF Crossed
<1> QED
  BY <1>4, <1>5 DEF pieces

\* Where the chunk that begins at a point ends.
EndOf(points, start) ==
  IF start + MaxPointsPerChunk <= Len(points) THEN start + MaxPointsPerChunk ELSE Len(points)

LEMMA EndIsBehind ==
  ASSUME NEW points, Len(points) \in Nat, NEW start \in 0 .. (Len(points) - 1)
  PROVE  /\ Min({start + MaxPointsPerChunk, Len(points)}) = EndOf(points, start)
         /\ EndOf(points, start) \in 1 .. Len(points) /\ start < EndOf(points, start)
<1>1. MaxPointsPerChunk \in Nat \ {0}
  BY SeriesAssumption
<1>2. Min({start + MaxPointsPerChunk, Len(points)}) = EndOf(points, start)
  BY <1>1, MinOfTwo DEF EndOf
<1> QED
  BY <1>1, <1>2 DEF EndOf

\* The k-th point after start is in a piece, and in its segment.
HasPoint(p, points, segs, start, k) ==
  /\ p.localStart < k /\ k <= p.localEnd
  /\ points[start + k].source = p.sourceStart + (k - 1) - p.localStart
  /\ segs[p.logical].sourceStart <= points[start + k].source
  /\ points[start + k].source < segs[p.logical].sourceEnd

\* The points of a chunk are in its pieces.
LEMMA PointsAreInPieces ==
  ASSUME NEW points, Ascends(points), NEW segs, Tiles(points, segs),
         NEW start \in Nat, NEW end \in 1 .. Len(points), start < end,
         NEW k \in 1 .. (end - start)
  PROVE  \E p \in ToSet(PiecesOf(points, segs, start, end)) : HasPoint(p, points, segs, start, k)
<1> DEFINE n == Len(points)
           at == start + k
<1>1. /\ n \in Nat
      /\ \A j \in 1 .. n : points[j].source \in Nat
      /\ \A i, j \in 1 .. n : i < j => points[i].source < points[j].source
  <2>1. \A q \in Points : q.source \in Nat
    BY DEF Points
  <2> QED
    BY <2>1 DEF Ascends
<1>2. at \in 1 .. n /\ at <= end /\ start < at /\ at - start = k
  BY <1>1
<1> HIDE DEF n
<1>3. PICK i \in 1 .. Len(segs) : segs[i].pointStart < at /\ at <= segs[i].pointEnd
  BY <1>2 DEF Tiles, n
<1> HIDE DEF at
<1> DEFINE a == segs[i].pointStart
           b == segs[i].pointEnd
           s == segs[i].sourceStart
           e == segs[i].sourceEnd
           p == PieceOf(points, segs, i, start, end)
           c == p.globalStart
<1>4. /\ a \in Nat /\ b \in 1 .. n /\ a < at /\ at <= b
      /\ s = points[a + 1].source /\ e = points[b].source + 1
  BY <1>1, <1>3 DEF Tiles, n
<1>5. \A l \in (a + 1) .. b : points[l].source = s + l - a - 1
  BY DEF Tiles
<1>6. /\ p.logical = i
      /\ c = IF a >= start THEN a ELSE start
      /\ p.globalEnd = IF b <= end THEN b ELSE end
      /\ p.localStart = c - start
      /\ p.localEnd = p.globalEnd - start
      /\ c < p.globalEnd => p.sourceStart = points[c + 1].source
  <2>1. end \in Nat /\ Len(points) \in Nat
    BY <1>1 DEF n
  <2> QED
    BY <2>1, PieceIs
<1>7. p \in ToSet(PiecesOf(points, segs, start, end)) <=>
        \E j \in 1 .. Len(segs) :
          p = PieceOf(points, segs, j, start, end) /\ p.globalStart < p.globalEnd
  BY PiecesAre
<1> HIDE DEF a, b, s, e
<1>8. c \in Nat /\ c < at /\ at <= p.globalEnd /\ c + 1 \in (a + 1) .. b /\ at \in (a + 1) .. b
  <2> DEFINE d == p.globalEnd
  <2>1. /\ c = IF a >= start THEN a ELSE start
        /\ d = IF b <= end THEN b ELSE end
    BY <1>6
  <2> HIDE DEF c, d
  <2>2. c \in Nat /\ c < at /\ at <= d /\ c + 1 \in (a + 1) .. b /\ at \in (a + 1) .. b
    BY <1>1, <1>2, <1>4, <2>1
  <2> QED
    BY <2>2 DEF d
<1>9. c < p.globalEnd
  <2> DEFINE d == p.globalEnd
  <2>1. d \in Int
    BY <1>1, <1>4, <1>6
  <2>2. c \in Nat /\ c < at /\ at <= d /\ at \in Nat
    BY <1>2, <1>8
  <2> HIDE DEF c, d
  <2>3. c < d
    BY <2>1, <2>2
  <2> QED
    BY <2>3 DEF d
<1>10. p \in ToSet(PiecesOf(points, segs, start, end))
  BY <1>7, <1>9
<1>11. p.localStart < k /\ k <= p.localEnd
  <2> DEFINE d == p.globalEnd
  <2>1. d \in Int
    BY <1>1, <1>4, <1>6
  <2>2. /\ c \in Nat /\ c < at /\ at <= d /\ at \in Nat /\ at - start = k
        /\ p.localStart = c - start /\ p.localEnd = d - start
    BY <1>2, <1>6, <1>8
  <2> HIDE DEF c, d
  <2>3. c - start < k /\ k <= d - start
    BY <2>1, <2>2
  <2> QED
    BY <2>2, <2>3 DEF d
<1>12. points[at].source = p.sourceStart + (k - 1) - p.localStart
  <2>1. p.sourceStart = points[c + 1].source /\ p.localStart = c - start
    BY <1>6, <1>9
  <2>2. points[c + 1].source = s + (c + 1) - a - 1 /\ points[at].source = s + at - a - 1
    BY <1>5, <1>8
  <2>3. c \in Nat /\ at \in Nat /\ at - start = k
    BY <1>2, <1>8
  <2>4. s \in Nat
    <3>1. a + 1 \in 1 .. n
      BY <1>1, <1>2, <1>4
    <3> QED
      BY <1>1, <1>4, <3>1
  <2> HIDE DEF c
  <2>5. s + at - a - 1 = (s + (c + 1) - a - 1) + (k - 1) - (c - start)
    BY <1>4, <2>3, <2>4
  <2> QED
    BY <2>1, <2>2, <2>5
<1>13. s <= points[at].source /\ points[at].source < e
  <2>1. a + 1 \in 1 .. n /\ a + 1 <= at
    BY <1>1, <1>2, <1>4
  <2>2. points[a + 1].source <= points[at].source
    BY <1>1, <1>2, <2>1
  <2>3. points[at].source <= points[b].source
    BY <1>1, <1>2, <1>4
  <2>4. points[at].source \in Nat /\ points[b].source \in Nat
    BY <1>1, <1>2, <1>4
  <2> QED
    BY <1>4, <2>2, <2>3, <2>4
<1>14. s <= points[at].source /\ points[at].source < segs[p.logical].sourceEnd
       /\ segs[p.logical].sourceStart = s
  BY <1>6, <1>13 DEF s, e
<1> HIDE DEF p
<1>15. HasPoint(p, points, segs, start, k)
  BY <1>11, <1>12, <1>14 DEF at, HasPoint
<1> QED
  BY <1>10, <1>15, Zenon

\* What a chunk has of the gaps covers what they cover between its first and its
\* last point.
LEMMA ClippedGapsCover ==
  ASSUME NEW gaps \in Seq(Ranges), NEW s \in Nat, NEW e \in Nat
  PROVE  LET kept == NonEmptyRanges([g \in DOMAIN gaps |-> Clip(gaps[g], s, e)])
         IN UNION {g.start .. (g.end - 1) : g \in ToSet(kept)} = Covered(gaps) \cap (s .. (e - 1))
<1> DEFINE m == Len(gaps)
           r == [g \in DOMAIN gaps |-> Clip(gaps[g], s, e)]
           kept == NonEmptyRanges(r)
           set == {q \in ToSet(r) : q.start < q.end}
           all == UNION {g.start .. (g.end - 1) : g \in ToSet(kept)}
<1>1. /\ m \in Nat /\ DOMAIN gaps = 1 .. m
      /\ \A g \in 1 .. m : gaps[g].start \in Nat /\ gaps[g].end \in Nat
  BY RangesHaveEnds
<1> HIDE DEF m
<1>2. \A g \in 1 .. m :
        /\ Clip(gaps[g], s, e).start = IF gaps[g].start >= s THEN gaps[g].start ELSE s
        /\ Clip(gaps[g], s, e).end = IF gaps[g].end <= e THEN gaps[g].end ELSE e
        /\ Clip(gaps[g], s, e) \in Ranges
  BY <1>1, ClipIs
<1>3. /\ r \in Seq(Ranges) /\ Len(r) = m /\ DOMAIN r = 1 .. m
      /\ \A g \in 1 .. m : r[g] = Clip(gaps[g], s, e)
  BY <1>1, <1>2
<1>4. kept = Filtered(r, set)
  BY DEF NonEmptyRanges
<1> HIDE DEF r, kept
<1>5. \A x : x \in ToSet(kept) <=> \E g \in 1 .. m : x = r[g] /\ x \in set
  <2>1. \A x : x \in ToSet(Filtered(r, set)) <=> \E g \in 1 .. Len(r) : x = r[g] /\ x \in set
    BY <1>3, FilteredMembers
  <2> QED
    BY <1>3, <1>4, <2>1
<1>6. \A g \in 1 .. m : r[g] \in set <=> r[g].start < r[g].end
  BY <1>3 DEF ToSet
<1> HIDE DEF set
<1>7. \A k : k \in all <=> \E g \in 1 .. m : r[g].start < r[g].end /\ k \in r[g].start .. (r[g].end - 1)
  <2>1. \A k : k \in all <=> \E x \in ToSet(kept) : k \in x.start .. (x.end - 1)
    OBVIOUS
  <2> HIDE DEF all
  <2> QED
    BY <1>5, <1>6, <2>1, Zenon
<1>8. \A k : k \in Covered(gaps) <=> \E g \in 1 .. m : k \in gaps[g].start .. (gaps[g].end - 1)
  BY <1>1, CoveredMembers
<1>9. \A k : \A g \in 1 .. m :
        (r[g].start < r[g].end /\ k \in r[g].start .. (r[g].end - 1)) <=>
        (k \in gaps[g].start .. (gaps[g].end - 1) /\ k \in s .. (e - 1))
  <2> SUFFICES ASSUME NEW k, NEW g \in 1 .. m
               PROVE  (r[g].start < r[g].end /\ k \in r[g].start .. (r[g].end - 1)) <=>
                      (k \in gaps[g].start .. (gaps[g].end - 1) /\ k \in s .. (e - 1))
    OBVIOUS
  <2> DEFINE a == gaps[g].start
             b == gaps[g].end
             c == r[g].start
             d == r[g].end
  <2>1. /\ a \in Nat /\ b \in Nat
        /\ c = IF a >= s THEN a ELSE s
        /\ d = IF b <= e THEN b ELSE e
    BY <1>1, <1>2, <1>3
  <2> HIDE DEF a, b, c, d
  <2>2. (c < d /\ k \in c .. (d - 1)) <=> (k \in a .. (b - 1) /\ k \in s .. (e - 1))
    BY <2>1
  <2> QED
    BY <2>2 DEF a, b, c, d
<1> HIDE DEF all
<1>10. \A k : k \in all <=> k \in Covered(gaps) /\ k \in s .. (e - 1)
  BY <1>7, <1>8, <1>9, Zenon
<1>11. all = Covered(gaps) \cap (s .. (e - 1))
  BY <1>10
<1> QED
  BY <1>11 DEF all, kept, r

\* A chunk of what holds some samples.
LEMMA ChunkHolds ==
  ASSUME NEW samples, NEW points, NEW gaps, HoldPoints(points, samples), HoldGaps(gaps, samples),
         NEW segs, Tiles(points, segs), NEW start \in 0 .. (Len(points) - 1), NEW revision
  PROVE  LET c == ChunkAt(points, gaps, segs, start, revision)
         IN /\ HoldChunk(c, points, segs)
            /\ c.pointStart = start /\ start + Len(c.points) = EndOf(points, start)
            /\ c.continuesBefore <=> Crossed(segs, start)
            /\ c.continuesAfter <=> Crossed(segs, EndOf(points, start))
            /\ c.continuesBefore \in BOOLEAN /\ c.continuesAfter \in BOOLEAN
<1> DEFINE n == Len(points)
           end == EndOf(points, start)
           c == ChunkAt(points, gaps, segs, start, revision)
           pieces == PiecesOf(points, segs, start, end)
           s == points[start + 1].source
           e == points[end].source + 1
<1>1. /\ Ascends(points) /\ n \in Nat /\ DOMAIN points = 1 .. n
      /\ \A k \in 1 .. n : points[k].source \in Nat
  BY PointsAscend
<1>2. end \in 1 .. n /\ start < end /\ start \in Nat
      /\ Min({start + MaxPointsPerChunk, n}) = end
  <2>1. /\ Min({start + MaxPointsPerChunk, Len(points)}) = EndOf(points, start)
        /\ EndOf(points, start) \in 1 .. Len(points) /\ start < EndOf(points, start)
    BY <1>1, EndIsBehind, Zenon
  <2>2. start \in Nat
    BY <1>1
  <2> QED
    BY <2>1, <2>2, Zenon
<1>3. c = [pointStart  |-> start,
           points      |-> [k \in 1 .. (end - start) |->
                              [x |-> points[start + k].x, y |-> points[start + k].y]],
           pieces      |-> pieces,
           gaps        |-> NonEmptyRanges([g \in DOMAIN gaps |-> Clip(gaps[g], s, e)]),
           sourceStart |-> s,
           sourceEnd   |-> e,
           continuesBefore |-> \E p \in ToSet(pieces) :
                                 p.globalStart > segs[p.logical].pointStart,
           continuesAfter  |-> \E p \in ToSet(pieces) :
                                 p.globalEnd < segs[p.logical].pointEnd,
           bounds      |-> BoundsOf(Slice(points, start, end)),
           revision    |-> revision]
  BY <1>2 DEF ChunkAt
<1> HIDE DEF c, end, pieces, s, e
<1>4. /\ c.pointStart = start /\ c.pieces = pieces
      /\ c.sourceStart = s /\ c.sourceEnd = e
      /\ c.gaps = NonEmptyRanges([g \in DOMAIN gaps |-> Clip(gaps[g], s, e)])
  BY <1>3
<1>5. c.points = [k \in 1 .. (end - start) |->
                    [x |-> points[start + k].x, y |-> points[start + k].y]]
  BY <1>3
<1>6. /\ c.continuesBefore = \E p \in ToSet(pieces) : p.globalStart > segs[p.logical].pointStart
      /\ c.continuesAfter = \E p \in ToSet(pieces) : p.globalEnd < segs[p.logical].pointEnd
  BY <1>3, Zenon
<1>7. /\ (\E p \in ToSet(pieces) : p.globalStart > segs[p.logical].pointStart) <=> Crossed(segs, start)
      /\ (\E p \in ToSet(pieces) : p.globalEnd < segs[p.logical].pointEnd) <=> Crossed(segs, end)
  <2>1. end \in Nat
    BY <1>2
  <2> QED
    BY <1>1, <1>2, <2>1, ContinuesIsCrossed DEF pieces
<1>8. /\ c.continuesBefore <=> Crossed(segs, start)
      /\ c.continuesAfter <=> Crossed(segs, end)
      /\ c.continuesBefore \in BOOLEAN /\ c.continuesAfter \in BOOLEAN
  BY <1>6, <1>7, Zenon
<1>9. end - start \in Nat /\ DOMAIN c.points = 1 .. (end - start) /\ Len(c.points) = end - start
      /\ start + Len(c.points) = end
  <2>1. end - start \in Nat /\ start + (end - start) = end
    BY <1>1, <1>2
  <2>2. DOMAIN c.points = 1 .. (end - start)
    BY <1>5
  <2>3. Len(c.points) = end - start
    BY <1>5, <2>1
  <2> QED
    BY <2>1, <2>2, <2>3
<1>10. ASSUME NEW k \in DOMAIN c.points
       PROVE  \E p \in ToSet(c.pieces) :
                /\ p.localStart < k /\ k <= p.localEnd
                /\ points[c.pointStart + k] = [source |-> p.sourceStart + (k - 1) - p.localStart,
                                               x |-> c.points[k].x, y |-> c.points[k].y]
                /\ segs[p.logical].sourceStart <= points[c.pointStart + k].source
                /\ points[c.pointStart + k].source < segs[p.logical].sourceEnd
  <2>1. k \in 1 .. (end - start)
    BY <1>9
  <2>2. PICK p \in ToSet(pieces) :
           /\ p.localStart < k /\ k <= p.localEnd
           /\ points[start + k].source = p.sourceStart + (k - 1) - p.localStart
           /\ segs[p.logical].sourceStart <= points[start + k].source
           /\ points[start + k].source < segs[p.logical].sourceEnd
    <3>1. end \in 1 .. Len(points)
      BY <1>2 DEF n
    <3>2. Ascends(points) /\ start \in Nat /\ start < end
      BY <1>1, <1>2
    <3>3. \E p \in ToSet(PiecesOf(points, segs, start, end)) : HasPoint(p, points, segs, start, k)
      BY <2>1, <3>1, <3>2, PointsAreInPieces
    <3> QED
      BY <3>3, Zenon DEF pieces, HasPoint
  <2>3. start + k \in 1 .. n
    BY <1>1, <1>2, <2>1
  <2>4. points[start + k] = [source |-> points[start + k].source,
                             x |-> points[start + k].x, y |-> points[start + k].y]
    <3>1. points \in Seq(Points)
      BY <1>1 DEF Ascends
    <3>2. points[start + k] \in Points
      BY <2>3, <3>1, ElementOfSeq DEF n
    <3> QED
      BY <3>2 DEF Points
  <2>5. c.points[k].x = points[start + k].x /\ c.points[k].y = points[start + k].y
    BY <1>5, <2>1
  <2>6. points[start + k] = [source |-> p.sourceStart + (k - 1) - p.localStart,
                             x |-> c.points[k].x, y |-> c.points[k].y]
    BY <2>2, <2>4, <2>5
  <2> QED
    BY <1>4, <2>2, <2>6, Zenon
<1>11. UNION {g.start .. (g.end - 1) : g \in ToSet(c.gaps)} = Covered(gaps) \cap (s .. (e - 1))
  <2>1. s \in Nat /\ e \in Nat
    BY <1>1, <1>2 DEF s, e
  <2>2. gaps \in Seq(Ranges)
    BY DEF HoldGaps
  <2> QED
    <3>1. UNION {g.start .. (g.end - 1) :
                   g \in ToSet(NonEmptyRanges([g \in DOMAIN gaps |-> Clip(gaps[g], s, e)]))}
            = Covered(gaps) \cap (s .. (e - 1))
      BY <2>1, <2>2, ClippedGapsCover
    <3> QED
      BY <1>4, <3>1, Zenon
<1>12. Covered(gaps) \cap (s .. (e - 1)) = (s .. (e - 1)) \ {p.source : p \in ToSet(points)}
  <2>1. {p.source : p \in ToSet(points)} = Valid(samples)
    BY DEF HoldPoints, ToSet
  <2>2. Covered(gaps) = Missing(samples)
    BY DEF HoldGaps
  <2>3. \A x \in Valid(samples) : x \in 0 .. (Len(samples) - 1)
    BY DEF Valid
  <2>4. start + 1 \in DOMAIN points /\ end \in DOMAIN points
    BY <1>1, <1>2
  <2>5. points[start + 1].source \in Valid(samples) /\ points[end].source \in Valid(samples)
    BY <2>4 DEF HoldPoints
  <2>6. \A k \in s .. (e - 1) : k \in 0 .. (Len(samples) - 1)
    <3>1. s \in 0 .. (Len(samples) - 1) /\ e - 1 \in 0 .. (Len(samples) - 1)
      BY <2>3, <2>5 DEF s, e
    <3>2. s \in Nat /\ e - 1 \in Nat
      BY <3>1
    <3> QED
      BY <3>1, <3>2
  <2> QED
    BY <2>1, <2>2, <2>6 DEF Missing
<1>13. HoldChunk(c, points, segs)
  BY <1>4, <1>10, <1>11, <1>12 DEF HoldChunk
<1> QED
  BY <1>4, <1>8, <1>9, <1>13 DEF c, end

LEMMA Products ==
  /\ \A a, b \in Nat : a * b \in Nat /\ a * b = b * a
  /\ \A a, b, m \in Nat : a <= b => a * m <= b * m
  /\ \A a \in Nat \ {0} : \A m \in Nat : (a - 1) * m + m = a * m
  /\ \A m \in Nat : 0 * m = 0 /\ 1 * m = m
<1>1. \A a, b \in Nat : a * b \in Nat /\ a * b = b * a
  OBVIOUS
<1>2. \A a, b, m \in Nat : a <= b => a * m <= b * m
  OBVIOUS
<1>3. \A a \in Nat \ {0} : \A m \in Nat : (a - 1) * m + m = a * m
  OBVIOUS
<1>4. \A m \in Nat : 0 * m = 0 /\ 1 * m = m
  OBVIOUS
<1> QED
  BY <1>1, <1>2, <1>3, <1>4

LEMMA Quotient ==
  ASSUME NEW a \in Nat, NEW b \in Nat \ {0}
  PROVE  a \div b \in Nat /\ b * (a \div b) <= a /\ a < b * (a \div b) + b
BY SMT

\* The chunks start at the multiples of their size below the number of points.
LEMMA ChunkCounts ==
  ASSUME NEW points, Len(points) \in Nat
  PROVE  /\ ChunkCount(points) \in Nat
         /\ ChunkCount(points) = 0 <=> Len(points) = 0
         /\ \A c \in 1 .. ChunkCount(points) :
              (c - 1) * MaxPointsPerChunk \in 0 .. (Len(points) - 1)
         /\ \A c \in 1 .. (ChunkCount(points) - 1) :
              EndOf(points, (c - 1) * MaxPointsPerChunk) = c * MaxPointsPerChunk
         /\ ChunkCount(points) # 0 =>
              EndOf(points, (ChunkCount(points) - 1) * MaxPointsPerChunk) = Len(points)
<1> DEFINE n == Len(points)
           m == MaxPointsPerChunk
           a == n + m - 1
           q == ChunkCount(points)
           last == q * m
<1>1. n \in Nat /\ m \in Nat \ {0} /\ m \in Nat /\ a \in Nat
  BY SeriesAssumption
<1>2. q \in Nat /\ m * q <= a /\ a < m * q + m
  <2>1. q = a \div m
    BY DEF ChunkCount
  <2> HIDE DEF q, a, m
  <2> QED
    BY <1>1, <2>1, Quotient
<1> HIDE DEF q, m
<1>3. last \in Nat /\ last <= n + m - 1 /\ n <= last
  BY <1>1, <1>2, Products
<1> HIDE DEF last, n
<1>4. q = 0 => last = 0
  BY <1>1, Products DEF last
<1>5. q # 0 => m <= last
  <2> SUFFICES ASSUME q # 0 PROVE m <= last
    OBVIOUS
  <2>1. 1 \in Nat /\ 1 <= q
    BY <1>2
  <2>2. 1 * m <= q * m
    BY <1>1, <1>2, <2>1, Products
  <2>3. 1 * m = m
    BY <1>1, Products
  <2> QED
    BY <2>2, <2>3 DEF last
<1>6. q = 0 <=> n = 0
  BY <1>1, <1>3, <1>4, <1>5
<1>7. ASSUME NEW c \in 1 .. q
      PROVE  /\ (c - 1) * m \in 0 .. (n - 1) /\ (c - 1) * m + m = c * m
             /\ c * m \in Nat
             /\ c # q => c * m <= n - 1
             /\ c = q => c * m = last
  <2>1. c \in Nat \ {0} /\ c \in Nat /\ c - 1 \in Nat /\ c <= q
    BY <1>2
  <2>2. (c - 1) * m \in Nat /\ c * m \in Nat /\ (c - 1) * m + m = c * m
    BY <1>1, <2>1, Products
  <2>3. c * m <= last
    BY <1>1, <1>2, <2>1, Products DEF last
  <2>4. c # q => c * m <= n - 1
    <3> SUFFICES ASSUME c # q PROVE c * m <= n - 1
      OBVIOUS
    <3>1. c + 1 \in Nat \ {0} /\ c + 1 \in Nat /\ c + 1 <= q /\ (c + 1) - 1 = c
      BY <1>2, <2>1
    <3> DEFINE d == c + 1
    <3>2. d \in Nat \ {0} /\ d \in Nat /\ d <= q /\ d - 1 = c
      BY <3>1
    <3> HIDE DEF d
    <3>3. d * m <= last
      BY <1>1, <1>2, <3>2, Products DEF last
    <3>4. c * m + m = d * m
      BY <1>1, <3>2, Products
    <3> QED
      BY <1>1, <1>3, <2>2, <3>3, <3>4
  <2> HIDE DEF last
  <2>5. (c - 1) * m <= n - 1
    BY <1>1, <1>3, <2>2, <2>3
  <2> QED
    BY <1>1, <2>2, <2>4, <2>5 DEF last
<1>8. \A c \in 1 .. (q - 1) : EndOf(points, (c - 1) * m) = c * m
  <2> SUFFICES ASSUME NEW c \in 1 .. (q - 1) PROVE EndOf(points, (c - 1) * m) = c * m
    OBVIOUS
  <2>1. c \in 1 .. q /\ c # q
    BY <1>2
  <2>2. (c - 1) * m + m = c * m /\ c * m \in Nat /\ c * m <= n - 1
    BY <1>7, <2>1
  <2>3. c * m <= n
    BY <1>1, <2>2
  <2> QED
    BY <2>2, <2>3 DEF EndOf, m, n
<1>9. q # 0 => EndOf(points, (q - 1) * m) = n
  <2> SUFFICES ASSUME q # 0 PROVE EndOf(points, (q - 1) * m) = n
    OBVIOUS
  <2>1. q \in 1 .. q
    BY <1>2
  <2>2. (q - 1) * m + m = last
    BY <1>7, <2>1
  <2>3. n <= last
    BY <1>3
  <2>4. EndOf(points, (q - 1) * m) = IF last <= n THEN last ELSE n
    BY <2>2 DEF EndOf, m, n
  <2> QED
    BY <1>1, <1>3, <2>3, <2>4
<1> QED
  BY <1>2, <1>6, <1>7, <1>8, <1>9 DEF n, m, q

LEMMA ChunksHold ==
  ASSUME NEW samples, NEW points, NEW gaps, HoldPoints(points, samples), HoldGaps(gaps, samples),
         NEW segs, Tiles(points, segs), NEW first
  PROVE  HoldChunks(ChunksOf(points, gaps, segs, first), points, segs)
<1> DEFINE n == Len(points)
           m == MaxPointsPerChunk
           q == ChunkCount(points)
           chunks == ChunksOf(points, gaps, segs, first)
           Start(c) == (c - 1) * m
<1>1. n \in Nat /\ points \in Seq(Points)
  BY PointsAscend DEF Ascends
<1>2. /\ q \in Nat
      /\ q = 0 <=> n = 0
      /\ \A c \in 1 .. q : Start(c) \in 0 .. (n - 1)
      /\ \A c \in 1 .. (q - 1) : EndOf(points, Start(c)) = c * m
      /\ q # 0 => EndOf(points, Start(q)) = n
  BY <1>1, ChunkCounts
<1>3. /\ DOMAIN chunks = 1 .. q
      /\ \A c \in 1 .. q : chunks[c] = ChunkAt(points, gaps, segs, Start(c), first + c - 1)
  BY DEF ChunksOf
<1>4. Len(chunks) = q
  <2>1. chunks = [c \in 1 .. q |-> ChunkAt(points, gaps, segs, Start(c), first + c - 1)]
    BY DEF ChunksOf
  <2> HIDE DEF q, chunks
  <2> QED
    BY <1>2, <2>1
<1>5. Start(1) = 0 /\ \A c \in 1 .. (q - 1) : Start(c + 1) = c * m
  <2>1. \A c \in Int : (c + 1) - 1 = c
    OBVIOUS
  <2>2. 1 - 1 = 0 /\ 0 * m = 0
    BY SeriesAssumption, Products
  <2> QED
    BY <1>2, <2>1, <2>2
<1> HIDE DEF n, q, chunks, Start
<1>6. \A c \in 1 .. q :
        /\ HoldChunk(chunks[c], points, segs)
        /\ chunks[c].pointStart = Start(c)
        /\ Start(c) + Len(chunks[c].points) = EndOf(points, Start(c))
        /\ chunks[c].continuesBefore <=> Crossed(segs, Start(c))
        /\ chunks[c].continuesAfter <=> Crossed(segs, EndOf(points, Start(c)))
        /\ chunks[c].continuesBefore \in BOOLEAN /\ chunks[c].continuesAfter \in BOOLEAN
  <2> SUFFICES ASSUME NEW c \in 1 .. q
               PROVE
        /\ HoldChunk(chunks[c], points, segs)
        /\ chunks[c].pointStart = Start(c)
        /\ Start(c) + Len(chunks[c].points) = EndOf(points, Start(c))
        /\ chunks[c].continuesBefore <=> Crossed(segs, Start(c))
        /\ chunks[c].continuesAfter <=> Crossed(segs, EndOf(points, Start(c)))
        /\ chunks[c].continuesBefore \in BOOLEAN /\ chunks[c].continuesAfter \in BOOLEAN
    OBVIOUS
  <2> DEFINE start == Start(c)
             revision == first + c - 1
             chunk == ChunkAt(points, gaps, segs, start, revision)
  <2>1. chunks[c] = chunk /\ start \in 0 .. (Len(points) - 1)
    BY <1>2, <1>3 DEF n
  <2> HIDE DEF start, revision
  <2>2. /\ HoldChunk(chunk, points, segs)
        /\ chunk.pointStart = start /\ start + Len(chunk.points) = EndOf(points, start)
        /\ chunk.continuesBefore <=> Crossed(segs, start)
        /\ chunk.continuesAfter <=> Crossed(segs, EndOf(points, start))
        /\ chunk.continuesBefore \in BOOLEAN /\ chunk.continuesAfter \in BOOLEAN
    BY <2>1, ChunkHolds
  <2> HIDE DEF chunk
  <2> QED
    BY <2>1, <2>2, Zenon DEF start
<1>7. \A i \in 1 .. (Len(chunks) - 1) :
        /\ chunks[i + 1].pointStart = chunks[i].pointStart + Len(chunks[i].points)
        /\ chunks[i].continuesAfter = chunks[i + 1].continuesBefore
  <2> SUFFICES ASSUME NEW i \in 1 .. (q - 1)
               PROVE
        /\ chunks[i + 1].pointStart = chunks[i].pointStart + Len(chunks[i].points)
        /\ chunks[i].continuesAfter = chunks[i + 1].continuesBefore
    BY <1>4
  <2>1. i \in 1 .. q /\ i + 1 \in 1 .. q
    BY <1>2
  <2>2. Start(i + 1) = EndOf(points, Start(i))
    BY <1>2, <1>5
  <2> DEFINE j == i + 1
  <2>3. j \in 1 .. q /\ Start(j) = EndOf(points, Start(i))
    BY <2>1, <2>2
  <2> HIDE DEF j
  <2>4. chunks[j].pointStart = chunks[i].pointStart + Len(chunks[i].points)
    BY <1>6, <2>1, <2>3, Zenon
  <2>5. chunks[i].continuesAfter <=> chunks[j].continuesBefore
    BY <1>6, <2>1, <2>3, Zenon
  <2>6. chunks[i].continuesAfter = chunks[j].continuesBefore
    BY <1>6, <2>1, <2>3, <2>5, Zenon
  <2> QED
    BY <2>4, <2>6 DEF j
<1>8. chunks = <<>> <=> points = <<>>
  <2>1. chunks = <<>> <=> q = 0
    <3>1. chunks = <<>> => q = 0
      BY <1>4
    <3>2. q = 0 => chunks = <<>>
      <4>1. chunks = [c \in 1 .. q |-> ChunkAt(points, gaps, segs, (c - 1) * m, first + c - 1)]
        BY DEF chunks, ChunksOf, q
      <4> QED
        BY <4>1
    <3> QED
      BY <3>1, <3>2
  <2>2. points = <<>> <=> n = 0
    BY <1>1, EmptySeq DEF n
  <2> QED
    BY <1>2, <2>1, <2>2
<1>9. chunks # <<>> =>
        /\ chunks[1].pointStart = 0
        /\ chunks[Len(chunks)].pointStart + Len(chunks[Len(chunks)].points) = Len(points)
  <2> SUFFICES ASSUME chunks # <<>>
               PROVE  /\ chunks[1].pointStart = 0
                      /\ chunks[q].pointStart + Len(chunks[q].points) = n
    BY <1>4 DEF n
  <2>1. q # 0
    <3>1. q = 0 => n = 0
      BY <1>2
    <3>2. n = 0 => points = <<>>
      BY <1>1, EmptySeq DEF n
    <3> QED
      BY <1>8, <3>1, <3>2
  <2>2. 1 \in 1 .. q /\ q \in 1 .. q
    BY <1>2, <2>1
  <2>3. chunks[1].pointStart = 0
    BY <1>5, <1>6, <2>2
  <2>4. chunks[q].pointStart + Len(chunks[q].points) = n
    BY <1>2, <1>6, <2>1, <2>2, Zenon
  <2> QED
    BY <2>3, <2>4
<1>10. \A i \in DOMAIN chunks : HoldChunk(chunks[i], points, segs)
  BY <1>3, <1>6
<1>11. HoldChunks(chunks, points, segs)
  BY <1>7, <1>8, <1>9, <1>10 DEF HoldChunks
<1> QED
  BY <1>11 DEF chunks

\* What is inserted, or joined to what there was, is cut into chunks that hold it.
LEMMA PartsAreCut ==
  ASSUME NEW topology, NEW len, NEW points, NEW gaps, NEW first, NEW samples,
         ~IsRefused(FromParts(topology, len, points, gaps, first)),
         HoldPoints(points, samples), HoldGaps(gaps, samples)
  PROVE  LET new == FromParts(topology, len, points, gaps, first)
         IN HoldChunks(new.chunks, new.points, new.segments)
<1> DEFINE new == FromParts(topology, len, points, gaps, first)
<1>1. /\ new.points = points /\ new.segments = SegmentsOfPoints(points)
      /\ new.chunks = ChunksOf(points, gaps, new.segments, first)
  BY PartsAreStored
<1> HIDE DEF new
<1>2. Tiles(points, new.segments)
  BY <1>1, PointsAscend, SegmentsTile
<1>3. HoldChunks(new.chunks, new.points, new.segments)
  BY <1>1, <1>2, ChunksHold
<1> QED
  BY <1>3 DEF new

LEMMA AppendKeepsChunks ==
  ASSUME NEW old, NEW new, NEW s, NEW t, s \in Seq(Held),
         Holds(old, s), Normalized(new, t), ~IsRefused(AppendTo(old, new)),
         HoldChunks(old.chunks, old.points, old.segments)
  PROVE  LET r == AppendTo(old, new) IN HoldChunks(r.chunks, r.points, r.segments)
<1> DEFINE len    == old.sourceLen + new.sourceLen
           points == old.points \o ShiftPoints(new.points, old.sourceLen)
           gaps   == MergeAdjacentGaps(old.gaps \o ShiftGaps(new.gaps, old.sourceLen))
           u      == s \o t
           first  == old.nextRevision
           r      == AppendTo(old, new)
<1>1. t \in Seq(Held) /\ old.sourceLen = Len(s)
  BY DEF Normalized, Holds, Held
<1>2. HoldPoints(points, u)
  BY <1>1, JoinedPoints DEF Holds, Normalized
<1>3. HoldGaps(gaps, u)
  BY <1>1, JoinedGaps DEF Holds, Normalized
<1> HIDE DEF len, points, gaps, u, first
<1>4. \A kind : IsRefused(Refused(kind))
  BY DEF IsRefused, Refused
<1>5. r = IF new.topology # old.topology THEN Refused("TopologyViolation")
          ELSE IF new.sourceLen = 0 THEN old
          ELSE IF len > MaxSourceLen THEN Refused("CapacityExceeded")
          ELSE IF JoinsBackwards(old, new) THEN Refused("TopologyViolation")
          ELSE IF new.points = <<>>
          THEN [old EXCEPT !.sourceLen = len, !.gaps = gaps]
          ELSE FromParts(old.topology, len, points, gaps, first)
  BY DEF AppendTo, len, points, gaps, first
<1> HIDE DEF r
<1>6. ~IsRefused(r)
  BY DEF r
<1>7. CASE r = old
  BY <1>7 DEF r
<1>8. CASE r = [old EXCEPT !.sourceLen = len, !.gaps = gaps]
  <2>1. r.chunks = old.chunks /\ r.points = old.points /\ r.segments = old.segments
    BY <1>8 DEF Holds, Fields
  <2> QED
    BY <2>1 DEF r
<1>9. CASE r = FromParts(old.topology, len, points, gaps, first)
  <2>1. ~IsRefused(FromParts(old.topology, len, points, gaps, first))
    BY <1>6, <1>9
  <2>2. HoldChunks(r.chunks, r.points, r.segments)
    BY <1>2, <1>3, <1>9, <2>1, PartsAreCut
  <2> QED
    BY <2>2 DEF r
<1> QED
  BY <1>4, <1>5, <1>6, <1>7, <1>8, <1>9

\* The chunks cut the storage and lose nothing, after any sequence of calls: end to
\* end they hold its points, each in its segment and at its source index, and the
\* gaps around them, and they agree on which segments continue from one to the next.
THEOREM ChunksFollowStorage == Spec => []ChunksHoldStorage
<1>1. Init => ChunksHoldStorage
  BY DEF Init, ChunksHoldStorage, Stored
<1>2. StorageIInv /\ ChunksHoldStorage /\ [Next]_vars => ChunksHoldStorage'
  <2> SUFFICES ASSUME StorageIInv, ChunksHoldStorage, [Next]_vars PROVE ChunksHoldStorage'
    OBVIOUS
  <2>1. source \in Seq(Held) /\ (Stored => Holds(storage, source))
    BY InvariantIsHolds
  <2>2. ASSUME NEW result, NEW piece, Settle(result, piece),
               ~IsRefused(result) => HoldChunks(result.chunks, result.points, result.segments)
        PROVE  ChunksHoldStorage'
    <3>1. CASE IsRefused(result)
      <4>1. UNCHANGED storage
        BY <2>2, <3>1 DEF Settle
      <4> QED
        BY <4>1 DEF ChunksHoldStorage, Stored
    <3>2. CASE ~IsRefused(result)
      <4>1. storage' = result
        BY <2>2, <3>2 DEF Settle
      <4> QED
        BY <2>2, <3>2, <4>1 DEF ChunksHoldStorage
    <3> QED
      BY <3>1, <3>2
  <2>3. ASSUME NEW topology \in Topologies, NEW piece \in Pieces, Insert(topology, piece)
        PROVE  ChunksHoldStorage'
    <3> DEFINE new == Normalize(topology, piece)
               t   == Samples(piece)
               made == FromParts(topology, new.sourceLen, new.points, new.gaps, 1)
               result == IF IsRefused(new) THEN new ELSE made
    <3>1. Settle(result, piece)
      BY <2>3 DEF Insert
    <3>2. ~IsRefused(new) => HoldPoints(new.points, t) /\ HoldGaps(new.gaps, t)
      BY PiecesArePieces, NormalizedHolds DEF Normalized
    <3> HIDE DEF new, t
    <3>3. ~IsRefused(result) => HoldChunks(result.chunks, result.points, result.segments)
      <4> SUFFICES ASSUME ~IsRefused(result)
                   PROVE  HoldChunks(result.chunks, result.points, result.segments)
        OBVIOUS
      <4>1. ~IsRefused(new) /\ result = made
        OBVIOUS
      <4> HIDE DEF result
      <4>2. HoldChunks(made.chunks, made.points, made.segments)
        BY <3>2, <4>1, PartsAreCut
      <4> QED
        BY <4>1, <4>2
    <3> HIDE DEF result
    <3> QED
      BY <2>2, <3>1, <3>3
  <2>4. ASSUME NEW topology \in Topologies, NEW piece \in Pieces, Extend(topology, piece)
        PROVE  ChunksHoldStorage'
    <3> DEFINE new == Normalize(topology, piece)
               t   == Samples(piece)
               result == IF IsRefused(new) THEN new ELSE AppendTo(storage, new)
    <3>1. Stored /\ Settle(result, piece)
      BY <2>4 DEF Extend, Stored
    <3>2. ~IsRefused(new) => Normalized(new, t)
      BY PiecesArePieces, NormalizedHolds
    <3> HIDE DEF new, t
    <3>3. ~IsRefused(result) => HoldChunks(result.chunks, result.points, result.segments)
      <4> SUFFICES ASSUME ~IsRefused(result)
                   PROVE  HoldChunks(result.chunks, result.points, result.segments)
        OBVIOUS
      <4>1. ~IsRefused(new) /\ result = AppendTo(storage, new)
        OBVIOUS
      <4> HIDE DEF result
      <4>2. HoldChunks(storage.chunks, storage.points, storage.segments)
        BY <3>1 DEF ChunksHoldStorage
      <4> QED
        BY <2>1, <3>1, <3>2, <4>1, <4>2, AppendKeepsChunks
    <3> HIDE DEF result
    <3> QED
      BY <2>2, <3>1, <3>3
  <2>5. CASE UNCHANGED vars
    BY <2>5 DEF vars, ChunksHoldStorage, Stored
  <2> QED
    BY <2>3, <2>4, <2>5 DEF Next
<1> QED
  BY <1>1, <1>2, StorageKeepsShape, PTL DEF Spec

-----------------------------------------------------------------------------
(* The span of an array *)

-----------------------------------------------------------------------------
(* The span of a view *)

LEMMA RootIsOwner ==
  ASSUME NEW a \in Views
  PROVE  Root(a) \in Owners
<1> DEFINE chain == <<Self(a)>> \o a.owners
<1>1. Self(a) \in Owners
  BY DEF Self, Owners, Views, ItemSize
<1>2. a.owners \in Seq(Owners)
  BY DEF Views
<1>3. <<Self(a)>> \in Seq(Owners)
  BY <1>1
<1> HIDE DEF Owners
<1>4. chain \in Seq(Owners) /\ Len(chain) = 1 + Len(a.owners) /\ Len(a.owners) \in Nat
  BY <1>2, <1>3
<1>5. Root(a) = chain[Len(chain)]
  BY DEF Root, Last
<1> HIDE DEF chain
<1>6. Len(chain) \in 1 .. Len(chain)
  BY <1>4
<1> QED
  BY <1>4, <1>5, <1>6

\* Between nothing and all of its steps a walk of one direction stays between its
\* ends.
LEMMA StepsStayBetween ==
  ASSUME NEW n \in Nat, NEW s \in Nat
  PROVE  n * s \in Nat /\ \A k \in 0 .. n : k * s \in Nat /\ k * s <= n * s
<1>1. \A a, b, m \in Nat : a <= b => a * m <= b * m
  BY Products, Zenon
<1>2. \A a, b \in Nat : a * b \in Nat
  BY Products, Zenon
<1>3. \A k \in 0 .. n : k \in Nat /\ k <= n
  OBVIOUS
<1> QED
  BY <1>1, <1>2, <1>3, Zenon

LEMMA NegativeSteps ==
  ASSUME NEW k \in Nat, NEW s \in Int
  PROVE  k * s = -(k * (-s)) /\ k * s \in Int
BY SMT

\* The lowest and the highest element are the first and the last one, or the last
\* and the first.
LEMMA SpanIsReached ==
  ASSUME NEW a \in Views, a.length # 0
  PROVE  /\ Back(a) \in Nat /\ Ahead(a) \in Nat
         /\ \A k \in 0 .. (a.length - 1) :
              k * a.stride \in Int /\ -Back(a) <= k * a.stride /\ k * a.stride <= Ahead(a)
         /\ \E k \in 0 .. (a.length - 1) : k * a.stride = -Back(a)
         /\ \E k \in 0 .. (a.length - 1) : k * a.stride = Ahead(a)
<1> DEFINE n == a.length - 1
           s == a.stride
<1>1. a.length \in Nat /\ n \in Nat /\ s \in Int /\ a.length = n + 1
  BY DEF Views
<1>2. /\ Back(a) = IF n > 0 /\ s < 0 THEN n * (-s) ELSE 0
      /\ Ahead(a) = IF n > 0 /\ s > 0 THEN n * s ELSE 0
  BY <1>1 DEF Back, Ahead
<1>3. 0 \in 0 .. n /\ n \in 0 .. n /\ 0 * s = 0
  BY <1>1
<1> HIDE DEF n
<1>4. CASE n = 0
  <2>1. Back(a) = 0 /\ Ahead(a) = 0 /\ \A k \in 0 .. n : k = 0
    BY <1>2, <1>4
  <2> QED
    BY <1>3, <2>1 DEF n
<1>5. CASE n > 0 /\ s > 0
  <2>1. Back(a) = 0 /\ Ahead(a) = n * s
    BY <1>1, <1>2, <1>5
  <2>2. s \in Nat
    BY <1>1, <1>5
  <2>3. n * s \in Nat /\ \A k \in 0 .. n : k * s \in Nat /\ k * s <= n * s
    BY <1>1, <2>2, StepsStayBetween, Zenon
  <2> QED
    BY <1>3, <2>1, <2>2, <2>3 DEF n
<1>6. CASE n > 0 /\ s < 0
  <2> DEFINE t == -s
  <2>1. Back(a) = n * t /\ Ahead(a) = 0
    BY <1>1, <1>2, <1>6
  <2>2. t \in Nat
    BY <1>1, <1>6
  <2>3. n * t \in Nat /\ \A k \in 0 .. n : k * t \in Nat /\ k * t <= n * t
    <3> HIDE DEF t
    <3> QED
      BY <1>1, <2>2, StepsStayBetween, Zenon
  <2>4. \A k \in 0 .. n : k * s = -(k * t) /\ k * s \in Int
    BY <1>1, NegativeSteps
  <2>5. \A k \in 0 .. n : -(n * t) <= k * s /\ k * s <= 0
    <3> HIDE DEF t
    <3> QED
      BY <2>2, <2>3, <2>4
  <2>6. n * s = -(n * t)
    BY <1>3, <2>4
  <2> QED
    BY <1>3, <2>1, <2>2, <2>4, <2>5, <2>6 DEF n
<1>7. CASE n > 0 /\ s = 0
  <2>1. Back(a) = 0 /\ Ahead(a) = 0 /\ \A k \in 0 .. n : k * s = 0
    BY <1>1, <1>2, <1>7
  <2> QED
    BY <1>3, <2>1 DEF n
<1> QED
  BY <1>1, <1>4, <1>5, <1>6, <1>7

LEMMA ExtentIsNumber ==
  ASSUME NEW o \in Owners
  PROVE  Extent(o) \in Nat
<1>1. o.itemsize * o.size \in Nat /\ Word \in Nat /\ o.size \in Nat
  BY IngestAssumption DEF Owners
<1> DEFINE m == o.itemsize * o.size
<1>2. Extent(o) = IF o.ndarray THEN Min({m, Word}) ELSE o.size
  BY DEF Extent
<1> HIDE DEF m
<1>3. m \in Nat
  BY <1>1 DEF m
<1>4. Min({m, Word}) \in Nat
  BY <1>1, <1>3, MinOfTwo
<1> QED
  BY <1>1, <1>2, <1>4

\* The checked span is exact: it is accepted exactly when every element is inside.
LEMMA SpanIsExact ==
  ASSUME NEW a \in Arrays, a.length # 0, Resolvable(a)
  PROVE  SpanFits(a) <=> Inside(a)
<1> DEFINE root == Root(a)
           low  == root.ptr
           high == root.ptr + Extent(root)
           size == ItemSize(a)
           At(k) == a.ptr + k * a.stride
<1>1. a \in Views /\ a.ptr <= Word /\ root.ptr + Extent(root) <= Word
  BY IngestAssumption
<1>2. root \in Owners
  BY <1>1, RootIsOwner
<1>3. Extent(root) \in Nat
  BY <1>2, ExtentIsNumber
<1>4. root.ptr \in Nat /\ a.ptr \in Nat /\ Word \in Nat /\ size \in Nat /\ size # 0
  BY <1>1, <1>2, IngestAssumption DEF Views, Owners, ItemSize
<1>5. /\ Back(a) \in Nat /\ Ahead(a) \in Nat
      /\ \A k \in 0 .. (a.length - 1) :
           k * a.stride \in Int /\ -Back(a) <= k * a.stride /\ k * a.stride <= Ahead(a)
      /\ \E k \in 0 .. (a.length - 1) : k * a.stride = -Back(a)
      /\ \E k \in 0 .. (a.length - 1) : k * a.stride = Ahead(a)
  BY <1>1, SpanIsReached
<1>6. Inside(a) <=> \A k \in 0 .. (a.length - 1) :
                      low <= a.ptr + k * a.stride /\ a.ptr + k * a.stride + size <= high
  BY DEF Inside, ElementInside
<1>7. SpanFits(a) <=> /\ Back(a) <= Word /\ a.ptr + Ahead(a) + size <= Word
                      /\ a.ptr - Back(a) >= low
                      /\ (a.ptr + Ahead(a) + size) - low <= Extent(root)
  BY DEF SpanFits
<1>8. low \in Nat /\ high \in Nat /\ high <= Word /\ high = low + Extent(root)
  BY <1>1, <1>3, <1>4
<1> HIDE DEF root, low, high, size
<1>9. ASSUME SpanFits(a) PROVE Inside(a)
  <2> SUFFICES ASSUME NEW k \in 0 .. (a.length - 1)
               PROVE  low <= a.ptr + k * a.stride /\ a.ptr + k * a.stride + size <= high
    BY <1>6
  <2> DEFINE p == k * a.stride
  <2>1. p \in Int /\ -Back(a) <= p /\ p <= Ahead(a)
    BY <1>5
  <2> HIDE DEF p
  <2>2. low <= a.ptr + p /\ a.ptr + p + size <= high
    BY <1>3, <1>4, <1>5, <1>7, <1>8, <1>9, <2>1
  <2> QED
    BY <2>2 DEF p
<1>10. ASSUME Inside(a) PROVE SpanFits(a)
  <2>1. PICK i \in 0 .. (a.length - 1) : i * a.stride = -Back(a)
    BY <1>5
  <2>2. PICK j \in 0 .. (a.length - 1) : j * a.stride = Ahead(a)
    BY <1>5
  <2>3. low <= a.ptr + (-Back(a)) /\ a.ptr + Ahead(a) + size <= high
    BY <1>6, <1>10, <2>1, <2>2
  <2>4. a.ptr <= Word
    BY <1>1
  <2> QED
    BY <1>3, <1>4, <1>5, <1>7, <1>8, <2>3, <2>4
<1> QED
  BY <1>9, <1>10

\* The span of an array that has none is not looked at.
LEMMA EmptyIsInside ==
  ASSUME NEW a, a.length = 0
  PROVE  Inside(a)
BY DEF Inside

\* What is copied is inside.
LEMMA ReachableIsInside ==
  ASSUME NEW a \in Arrays
  PROVE  /\ ReachableSpan(a) => Inside(a)
         /\ ~ReachableSpan(a) => \/ ~Inside(a) \/ ~Resolvable(a) \/ a.ptr = 0
                                 \/ Root(a).ptr = 0
                                 \/ a.length = 0 /\ a.ptr % Alignment # 0
<1>1. CASE a.length = 0
  BY <1>1, EmptyIsInside DEF ReachableSpan
<1>2. CASE a.length # 0
  <2>1. Resolvable(a) => (SpanFits(a) <=> Inside(a))
    BY <1>2, SpanIsExact
  <2> QED
    BY <1>2, <2>1 DEF ReachableSpan
<1> QED
  BY <1>1, <1>2

-----------------------------------------------------------------------------
(* Scanning for runs of finite pairs *)

-----------------------------------------------------------------------------
(* The runs of finite pairs *)

Scans(x, y, n, f) ==
  f = [k \in 0 .. n |->
         IF k = 0 THEN [open |-> FALSE, start |-> 0, segments |-> <<>>]
         ELSE TakePair(f[k - 1], FinitePair(x, y, k), k)]

\* The recursion of Scan has a solution.
LEMMA ScanExists ==
  ASSUME NEW x, NEW y, NEW n \in Nat
  PROVE  \E f : Scans(x, y, n, f)
<1> DEFINE T == {m \in Nat : ~\E f : Scans(x, y, m, f)}
           Nothing == [open |-> FALSE, start |-> 0, segments |-> <<>>]
<1> SUFFICES ASSUME T # {} PROVE FALSE
  OBVIOUS
<1>1. PICK m \in T : \A k \in T : m <= k
  <2>1. T \subseteq Nat
    OBVIOUS
  <2> HIDE DEF T
  <2> QED
    BY <2>1, LeastNatural
<1>2. m # 0
  <2> SUFFICES ASSUME m = 0 PROVE \E f : Scans(x, y, 0, f)
    OBVIOUS
  <2>1. Scans(x, y, 0, [k \in 0 .. 0 |-> Nothing])
    BY DEF Scans
  <2> QED
    BY <2>1
<1>3. m - 1 \in Nat /\ m - 1 \notin T /\ m \in Nat
  BY <1>1, <1>2
<1>4. PICK f : Scans(x, y, m - 1, f)
  BY <1>3
<1> HIDE DEF T
<1> DEFINE Next1(g, k) == TakePair(g[k - 1], FinitePair(x, y, k), k)
           h == [k \in 0 .. m |-> IF k = m THEN Next1(f, k) ELSE f[k]]
<1>5. \A k \in 0 .. m : h[k] = IF k = 0 THEN Nothing ELSE Next1(h, k)
  <2> SUFFICES ASSUME NEW k \in 0 .. m
               PROVE  h[k] = IF k = 0 THEN Nothing ELSE Next1(h, k)
    OBVIOUS
  <2>1. k # 0 => h[k - 1] = f[k - 1]
    BY <1>3
  <2>2. CASE k = m
    <3>1. h[k] = Next1(f, k)
      BY <2>2
    <3> QED
      BY <1>2, <2>1, <2>2, <3>1
  <2>3. CASE k # m
    <3>1. k \in 0 .. (m - 1)
      BY <1>3, <2>3
    <3>2. f[k] = IF k = 0 THEN Nothing ELSE Next1(f, k)
      BY <1>4, <3>1 DEF Scans
    <3>3. h[k] = f[k]
      BY <2>3
    <3> QED
      BY <2>1, <3>2, <3>3
  <2> QED
    BY <2>2, <2>3
<1>6. Scans(x, y, m, h)
  BY <1>5 DEF Scans
<1> QED
  BY <1>1, <1>6 DEF T

LEMMA ScanScans ==
  ASSUME NEW x, NEW y, Len(x) \in Nat
  PROVE  \E f : Scans(x, y, Len(x), f) /\ Scan(x, y) = f[Len(x)]
<1> DEFINE f == CHOOSE h : h = [k \in 0 .. Len(x) |->
                  IF k = 0 THEN [open |-> FALSE, start |-> 0, segments |-> <<>>]
                  ELSE TakePair(h[k - 1], FinitePair(x, y, k), k)]
<1>1. \E h : h = [k \in 0 .. Len(x) |->
                  IF k = 0 THEN [open |-> FALSE, start |-> 0, segments |-> <<>>]
                  ELSE TakePair(h[k - 1], FinitePair(x, y, k), k)]
  <2>1. \E h : Scans(x, y, Len(x), h)
    BY ScanExists
  <2> QED
    BY <2>1 DEF Scans
<1>2. Scans(x, y, Len(x), f)
  BY <1>1 DEF Scans
<1>3. Scan(x, y) = f[Len(x)]
  BY DEF Scan
<1> QED
  BY <1>2, <1>3

\* The positions of the finite ones among the first k pairs.
FiniteOf(x, y, k) == {j \in 0 .. (k - 1) : FinitePair(x, y, j + 1)}

\* Runs that are apart, end by k and cover some positions.
RunsTo(segs, k, positions) ==
  /\ segs \in Seq(Ranges) /\ NotEmpty(segs) /\ Apart(segs)
  /\ \A i \in 1 .. Len(segs) : segs[i].end <= k
  /\ Covered(segs) = positions

LEMMA OneMoreRun ==
  ASSUME NEW segs, NEW k \in Nat, NEW p, RunsTo(segs, k, p),
         NEW start \in Nat, NEW end \in Nat, start < end,
         \A i \in 1 .. Len(segs) : segs[i].end < start
  PROVE  RunsTo(Append(segs, [start |-> start, end |-> end]), end,
                p \cup (start .. (end - 1)))
<1> DEFINE r    == [start |-> start, end |-> end]
           more == Append(segs, r)
           n    == Len(segs)
<1>1. segs \in Seq(Ranges) /\ n \in Nat /\ DOMAIN segs = 1 .. n
  BY DEF RunsTo
<1>2. r \in Ranges /\ r.start = start /\ r.end = end
  BY DEF Ranges
<1> HIDE DEF r
<1>3. /\ more \in Seq(Ranges) /\ Len(more) = n + 1 /\ DOMAIN more = 1 .. (n + 1)
      /\ more[n + 1] = r /\ \A i \in 1 .. n : more[i] = segs[i]
  BY <1>1, <1>2
<1> HIDE DEF more, n
<1>4. \A i \in 1 .. n : segs[i].start \in Nat /\ segs[i].end \in Nat
  BY <1>1, RangesHaveEnds DEF n
<1>5. \A i \in 1 .. n : segs[i].start < segs[i].end /\ segs[i].end < start
  BY <1>1 DEF RunsTo, NotEmpty, n
<1>6. \A i \in 1 .. (n + 1) : i \in 1 .. n \/ i = n + 1
  BY <1>1
<1>7. NotEmpty(more)
  BY <1>2, <1>3, <1>5, <1>6 DEF NotEmpty
<1>8. Apart(more)
  <2> SUFFICES ASSUME NEW i \in 1 .. (n + 1), NEW j \in 1 .. (n + 1), i < j
               PROVE  more[i].end < more[j].start
    BY <1>3 DEF Apart
  <2>1. i \in 1 .. n
    BY <1>1
  <2>2. CASE j = n + 1
    BY <1>2, <1>3, <1>5, <2>1, <2>2
  <2>3. CASE j \in 1 .. n
    BY <1>1, <1>3, <2>1, <2>3 DEF RunsTo, Apart
  <2> QED
    BY <1>6, <2>2, <2>3
<1>9. \A i \in 1 .. (n + 1) : more[i].end <= end
  BY <1>2, <1>3, <1>4, <1>5, <1>6
<1>10. Covered(more) = p \cup (start .. (end - 1))
  <2>1. \A z : z \in Covered(segs) <=>
                 \E i \in 1 .. n : z \in segs[i].start .. (segs[i].end - 1)
    BY <1>1, CoveredMembers
  <2>2. \A z : z \in Covered(more) <=>
                 \E i \in 1 .. (n + 1) : z \in more[i].start .. (more[i].end - 1)
    BY <1>3, CoveredMembers
  <2>3. \A i \in 1 .. n : i \in 1 .. (n + 1)
    BY <1>1
  <2>4. n + 1 \in 1 .. (n + 1)
    BY <1>1
  <2>5. \A z : z \in Covered(more) <=> z \in Covered(segs) \/ z \in start .. (end - 1)
    <3> TAKE z
    <3>1. ASSUME NEW i \in 1 .. (n + 1), z \in more[i].start .. (more[i].end - 1)
          PROVE  z \in Covered(segs) \/ z \in start .. (end - 1)
      BY <1>2, <1>3, <1>6, <2>1, <3>1
    <3>2. ASSUME z \in Covered(segs) PROVE z \in Covered(more)
      BY <1>3, <2>1, <2>2, <2>3, <3>2
    <3>3. ASSUME z \in start .. (end - 1) PROVE z \in Covered(more)
      BY <1>2, <1>3, <2>2, <2>4, <3>3
    <3> QED
      BY <2>2, <3>1, <3>2, <3>3
  <2>6. Covered(segs) = p
    BY DEF RunsTo
  <2> QED
    BY <2>5, <2>6
<1> QED
  BY <1>1, <1>3, <1>7, <1>8, <1>9, <1>10 DEF RunsTo, more, n, r

\* What the scan has found in the first k pairs.
ScansTo(x, y, k, at) ==
  /\ at = [open |-> at.open, start |-> at.start, segments |-> at.segments]
  /\ at.open \in BOOLEAN /\ at.start \in Nat
  /\ RunsTo(at.segments, k, Covered(at.segments))
  /\ k > 0 => \A i \in 1 .. Len(at.segments) : at.segments[i].end < k
  /\ k = 0 => at.segments = <<>> /\ ~at.open
  /\ at.open => at.start < k /\ \A i \in 1 .. Len(at.segments) : at.segments[i].end < at.start
  /\ FiniteOf(x, y, k) =
       Covered(at.segments) \cup (IF at.open THEN at.start .. (k - 1) ELSE {})

LEMMA FiniteOneMore ==
  ASSUME NEW x, NEW y, NEW k \in Nat
  PROVE  FiniteOf(x, y, k + 1) =
           FiniteOf(x, y, k) \cup (IF FinitePair(x, y, k + 1) THEN {k} ELSE {})
<1>1. \A j : j \in 0 .. ((k + 1) - 1) <=> j \in 0 .. (k - 1) \/ j = k
  OBVIOUS
<1> QED
  BY <1>1 DEF FiniteOf

LEMMA NoRuns == RunsTo(<<>>, 0, {}) /\ Covered(<<>>) = {}
<1>1. <<>> \in Seq(Ranges) /\ DOMAIN <<>> = {} /\ Len(<<>>) = 0
  OBVIOUS
<1>2. Covered(<<>>) = {}
  BY <1>1 DEF Covered
<1>3. NotEmpty(<<>>) /\ Apart(<<>>)
  BY <1>1 DEF NotEmpty, Apart
<1> QED
  BY <1>1, <1>2, <1>3 DEF RunsTo

LEMMA RunsStay ==
  ASSUME NEW segs, NEW k \in Nat, NEW n \in Nat, k <= n, NEW p, RunsTo(segs, k, p)
  PROVE  RunsTo(segs, n, p)
<1>1. \A i \in 1 .. Len(segs) : segs[i].end \in Nat /\ segs[i].end <= k
  BY RangesHaveEnds DEF RunsTo
<1>2. \A i \in 1 .. Len(segs) : segs[i].end <= n
  BY <1>1
<1> QED
  BY <1>2 DEF RunsTo

LEMMA ScanOneMore ==
  ASSUME NEW x, NEW y, NEW k \in Nat, NEW at, ScansTo(x, y, k, at)
  PROVE  ScansTo(x, y, k + 1, TakePair(at, FinitePair(x, y, k + 1), k + 1))
<1> DEFINE finite == FinitePair(x, y, k + 1)
           next   == TakePair(at, finite, k + 1)
           segs   == at.segments
           r      == [start |-> at.start, end |-> k]
           Open(z) == IF z.open THEN z.start .. k ELSE {}
<1>1. /\ at = [open |-> at.open, start |-> at.start, segments |-> segs]
      /\ at.open \in BOOLEAN /\ at.start \in Nat
      /\ RunsTo(segs, k, Covered(segs))
  BY DEF ScansTo
<1>2. segs \in Seq(Ranges) /\ Len(segs) \in Nat
      /\ \A i \in 1 .. Len(segs) : segs[i].end \in Nat /\ segs[i].end <= k
  BY <1>1, RangesHaveEnds DEF RunsTo
<1>3. FiniteOf(x, y, k + 1) = FiniteOf(x, y, k) \cup (IF finite THEN {k} ELSE {})
  BY FiniteOneMore
<1>4. /\ FiniteOf(x, y, k) = Covered(segs) \cup (IF at.open THEN at.start .. (k - 1) ELSE {})
      /\ at.open => at.start < k /\ \A i \in 1 .. Len(segs) : segs[i].end < at.start
      /\ k > 0 => \A i \in 1 .. Len(segs) : segs[i].end < k
      /\ k = 0 => segs = <<>> /\ ~at.open
  BY DEF ScansTo
<1>5. RunsTo(segs, k + 1, Covered(segs)) /\ k + 1 > 0
  BY <1>1, RunsStay
<1>6. \A i \in 1 .. Len(segs) : segs[i].end < k + 1
  BY <1>2
<1>7. \A i \in 1 .. Len(segs) : segs[i].end < k
  <2>1. CASE k = 0
    BY <1>4, <2>1
  <2>2. CASE k > 0
    BY <1>4, <2>2
  <2> QED
    BY <2>1, <2>2
<1> HIDE DEF finite
<1>8. CASE finite /\ at.open
  <2>1. next = at
    BY <1>8 DEF TakePair
  <2>2. k \in Nat /\ at.start < k /\ (at.start .. k) = (at.start .. (k - 1)) \cup {k}
    BY <1>1, <1>4, <1>8
  <2>3. FiniteOf(x, y, k + 1) = Covered(segs) \cup (at.start .. k)
    BY <1>3, <1>4, <1>8, <2>2
  <2>4. at.start < k + 1 /\ (k + 1) - 1 = k /\ k + 1 # 0
    BY <1>1, <2>2
  <2>5. ScansTo(x, y, k + 1, at)
    BY <1>1, <1>4, <1>5, <1>6, <1>8, <2>3, <2>4 DEF ScansTo
  <2> QED
    BY <2>1, <2>5 DEF finite
<1>9. CASE finite /\ ~at.open
  <2>1. next = [open |-> TRUE, start |-> k, segments |-> segs]
    <3>1. next = [at EXCEPT !.open = TRUE, !.start = (k + 1) - 1]
      BY <1>9 DEF TakePair
    <3>2. (k + 1) - 1 = k
      OBVIOUS
    <3> QED
      BY <1>1, <3>1, <3>2
  <2>2. k .. k = {k} /\ k < k + 1 /\ (k + 1) - 1 = k /\ k + 1 # 0
    OBVIOUS
  <2>3. FiniteOf(x, y, k + 1) = Covered(segs) \cup (k .. k)
    BY <1>3, <1>4, <1>9, <2>2
  <2> HIDE DEF next
  <2>4. next.open /\ next.start = k /\ next.segments = segs
    BY <2>1
  <2>5. ScansTo(x, y, k + 1, next)
    BY <1>1, <1>5, <1>6, <1>7, <2>1, <2>2, <2>3, <2>4 DEF ScansTo
  <2> QED
    BY <2>5 DEF finite, next
<1>10. CASE ~finite /\ at.open
  <2> DEFINE more == Append(segs, r)
  <2>1. next = [open |-> FALSE, start |-> at.start, segments |-> more]
    <3>1. next = [at EXCEPT !.open = FALSE,
                            !.segments = Append(@, [start |-> at.start, end |-> (k + 1) - 1])]
      BY <1>10 DEF TakePair
    <3>2. (k + 1) - 1 = k
      OBVIOUS
    <3> QED
      BY <1>1, <3>1, <3>2
  <2>2. RunsTo(more, k, Covered(segs) \cup (at.start .. (k - 1)))
    BY <1>1, <1>4, <1>10, OneMoreRun
  <2>3. Covered(more) = Covered(segs) \cup (at.start .. (k - 1))
    BY <2>2 DEF RunsTo
  <2>4. RunsTo(more, k + 1, Covered(more))
    <3> HIDE DEF more, segs
    <3>1. RunsTo(more, k, Covered(more))
      BY <2>2, <2>3
    <3>2. k + 1 \in Nat /\ k <= k + 1
      OBVIOUS
    <3> QED
      BY <3>1, <3>2, RunsStay, Zenon
  <2>5. \A i \in 1 .. Len(more) : more[i].end \in Nat /\ more[i].end <= k
    BY <2>2, RangesHaveEnds DEF RunsTo
  <2>6. \A i \in 1 .. Len(more) : more[i].end < k + 1
    BY <2>5
  <2>7. FiniteOf(x, y, k + 1) = Covered(more)
    BY <1>3, <1>4, <1>10, <2>3
  <2>8. k + 1 # 0
    OBVIOUS
  <2> HIDE DEF next, more
  <2>9. ~next.open /\ next.start = at.start /\ next.segments = more
    BY <2>1
  <2>10. ScansTo(x, y, k + 1, next)
    BY <1>1, <2>1, <2>4, <2>6, <2>7, <2>8, <2>9 DEF ScansTo
  <2> QED
    BY <2>10 DEF finite, next
<1>11. CASE ~finite /\ ~at.open
  <2>1. next = at
    BY <1>11 DEF TakePair
  <2>2. FiniteOf(x, y, k + 1) = Covered(segs) /\ k + 1 # 0
    <3>1. FiniteOf(x, y, k) = Covered(segs)
      BY <1>4, <1>11
    <3>2. FiniteOf(x, y, k + 1) = FiniteOf(x, y, k)
      BY <1>3, <1>11
    <3> QED
      BY <3>1, <3>2
  <2>3. ScansTo(x, y, k + 1, at)
    BY <1>1, <1>5, <1>6, <1>11, <2>2 DEF ScansTo
  <2> QED
    BY <2>1, <2>3 DEF finite
<1> QED
  BY <1>1, <1>8, <1>9, <1>10, <1>11

-----------------------------------------------------------------------------
(* The runs that are found *)

\* Whatever is given for every number up to n is a sequence.
LEMMA ListIsSequence ==
  ASSUME NEW n \in Nat, NEW s, DOMAIN s = 1 .. n, s = [k \in 1 .. n |-> s[k]]
  PROVE  s \in Seq({s[k] : k \in 1 .. n}) /\ Len(s) = n
<1>1. \A k \in 1 .. n : s[k] \in {s[j] : j \in 1 .. n}
  OBVIOUS
<1> DEFINE R == {s[j] : j \in 1 .. n}
<1> HIDE DEF R
<1>2. [k \in 1 .. n |-> s[k]] \in [1 .. n -> R]
  BY <1>1 DEF R
<1>3. s \in [1 .. n -> R]
  BY <1>2
<1> QED
  BY <1>3 DEF R

\* valid_segments finds the runs of finite pairs.
LEMMA FoundRuns ==
  ASSUME NEW x, NEW y, Len(x) \in Nat
  PROVE  RunsTo(ValidSegments(x, y), Len(x), FiniteOf(x, y, Len(x)))
<1> DEFINE n == Len(x)
<1>1. PICK f : Scans(x, y, n, f) /\ Scan(x, y) = f[n]
  BY ScanScans
<1>2. /\ f[0] = [open |-> FALSE, start |-> 0, segments |-> <<>>]
      /\ \A k \in 1 .. n : f[k] = TakePair(f[k - 1], FinitePair(x, y, k), k)
  <2>1. f = [k \in 0 .. n |->
              IF k = 0 THEN [open |-> FALSE, start |-> 0, segments |-> <<>>]
              ELSE TakePair(f[k - 1], FinitePair(x, y, k), k)]
    BY <1>1 DEF Scans
  <2>2. 0 \in 0 .. n /\ \A k \in 1 .. n : k \in 0 .. n /\ k # 0
    OBVIOUS
  <2>3. f[0] = [open |-> FALSE, start |-> 0, segments |-> <<>>]
    BY <2>1, <2>2
  <2>4. \A k \in 1 .. n : f[k] = TakePair(f[k - 1], FinitePair(x, y, k), k)
    BY <2>1, <2>2
  <2> QED
    BY <2>3, <2>4
<1> HIDE DEF n
<1>3. n \in Nat
  BY DEF n
<1> DEFINE T == {k \in 0 .. n : ~ScansTo(x, y, k, f[k])}
<1>4. T = {}
  <2> SUFFICES ASSUME T # {} PROVE FALSE
    OBVIOUS
  <2>1. PICK k \in T : \A j \in T : k <= j
    <3>1. T \subseteq Nat
      BY <1>3
    <3> HIDE DEF T
    <3> QED
      BY <3>1, LeastNatural
  <2>2. k # 0
    <3> SUFFICES ASSUME k = 0 PROVE ScansTo(x, y, 0, f[0])
      BY <2>1
    <3> DEFINE at == f[0]
    <3>1. /\ at = [open |-> FALSE, start |-> 0, segments |-> <<>>]
          /\ at.open = FALSE /\ at.start = 0 /\ at.segments = <<>>
      BY <1>2
    <3>2. FiniteOf(x, y, 0) = {}
      BY DEF FiniteOf
    <3>3. RunsTo(<<>>, 0, Covered(<<>>)) /\ Covered(<<>>) = {}
      BY NoRuns
    <3> HIDE DEF at
    <3>4. ScansTo(x, y, 0, at)
      BY <3>1, <3>2, <3>3 DEF ScansTo
    <3> QED
      BY <3>4 DEF at
  <2>3. k \in 1 .. n /\ k - 1 \in 0 .. n /\ k - 1 \in Nat /\ (k - 1) + 1 = k
    BY <1>3, <2>1, <2>2
  <2>4. ScansTo(x, y, k - 1, f[k - 1])
    BY <2>1, <2>3
  <2>5. ScansTo(x, y, (k - 1) + 1, TakePair(f[k - 1], FinitePair(x, y, (k - 1) + 1), (k - 1) + 1))
    <3> DEFINE j == k - 1
               at == f[j]
    <3>1. j \in Nat /\ ScansTo(x, y, j, at)
      BY <2>3, <2>4
    <3> HIDE DEF j, at
    <3>2. ScansTo(x, y, j + 1, TakePair(at, FinitePair(x, y, j + 1), j + 1))
      BY <3>1, ScanOneMore
    <3> QED
      BY <3>2 DEF j, at
  <2>6. ScansTo(x, y, k, f[k])
    BY <1>2, <2>3, <2>5
  <2> QED
    BY <2>1, <2>6
<1>5. n \in 0 .. n
  BY <1>3
<1> DEFINE at == Scan(x, y)
<1>6. ScansTo(x, y, n, at)
  BY <1>1, <1>4, <1>5
<1> HIDE DEF at, T
<1>7. /\ at.open \in BOOLEAN /\ at.start \in Nat
      /\ RunsTo(at.segments, n, Covered(at.segments))
      /\ at.open => at.start < n /\ \A i \in 1 .. Len(at.segments) : at.segments[i].end < at.start
      /\ FiniteOf(x, y, n) =
           Covered(at.segments) \cup (IF at.open THEN at.start .. (n - 1) ELSE {})
  BY <1>6 DEF ScansTo
<1>8. CASE at.open
  <2>1. ValidSegments(x, y) = Append(at.segments, [start |-> at.start, end |-> n])
    BY <1>8 DEF ValidSegments, at, n
  <2>2. RunsTo(Append(at.segments, [start |-> at.start, end |-> n]), n,
               Covered(at.segments) \cup (at.start .. (n - 1)))
    <3> DEFINE segs == at.segments
               start == at.start
    <3>1. start \in Nat /\ start < n /\ RunsTo(segs, n, Covered(segs))
          /\ \A i \in 1 .. Len(segs) : segs[i].end < start
      BY <1>7, <1>8
    <3> HIDE DEF segs, start
    <3>2. RunsTo(Append(segs, [start |-> start, end |-> n]), n,
                 Covered(segs) \cup (start .. (n - 1)))
      BY <1>3, <3>1, OneMoreRun
    <3> QED
      BY <3>2 DEF segs, start
  <2> QED
    BY <1>7, <1>8, <2>1, <2>2 DEF n
<1>9. CASE ~at.open
  <2>1. ValidSegments(x, y) = at.segments
    BY <1>9 DEF ValidSegments, at
  <2>2. FiniteOf(x, y, n) = Covered(at.segments)
    BY <1>7, <1>9
  <2> QED
    BY <1>7, <2>1, <2>2 DEF n
<1> QED
  BY <1>7, <1>8, <1>9

LEMMA RunsAreInOrder ==
  ASSUME NEW segs, NEW n \in Nat, NEW p, RunsTo(segs, n, p)
  PROVE  /\ Len(segs) \in Nat /\ DOMAIN segs = 1 .. Len(segs)
         /\ \A i \in 1 .. Len(segs) :
              /\ segs[i].start \in Nat /\ segs[i].end \in Nat
              /\ segs[i].start < segs[i].end /\ segs[i].end <= n
         /\ \A i, j \in 1 .. Len(segs) : i < j => segs[i].end < segs[j].start
         /\ \A z : z \in p <=> \E i \in 1 .. Len(segs) : z \in segs[i].start .. (segs[i].end - 1)
<1>1. /\ Len(segs) \in Nat /\ DOMAIN segs = 1 .. Len(segs)
      /\ \A i \in 1 .. Len(segs) : segs[i].start \in Nat /\ segs[i].end \in Nat
  BY RangesHaveEnds DEF RunsTo
<1>2. \A i \in 1 .. Len(segs) : segs[i].start < segs[i].end /\ segs[i].end <= n
  BY <1>1 DEF RunsTo, NotEmpty
<1>3. \A i, j \in 1 .. Len(segs) : i < j => segs[i].end < segs[j].start
  BY <1>1 DEF RunsTo, Apart
<1>4. \A z : z \in p <=> \E i \in 1 .. Len(segs) : z \in segs[i].start .. (segs[i].end - 1)
  BY <1>1, CoveredMembers DEF RunsTo
<1> QED
  BY <1>1, <1>2, <1>3, <1>4

\* The runs of finite pairs are what the bridge asks for ...
LEMMA RunsMatch ==
  ASSUME NEW x, NEW y, Len(x) \in Nat, NEW segs,
         RunsTo(segs, Len(x), FiniteOf(x, y, Len(x)))
  PROVE  SegmentsMatch(x, y, segs)
<1> DEFINE n == Len(x)
           m == Len(segs)
           Before(i) == IF i = 1 THEN 0 ELSE segs[i - 1].end
<1>1. /\ m \in Nat /\ DOMAIN segs = 1 .. m
      /\ \A i \in 1 .. m : /\ segs[i].start \in Nat /\ segs[i].end \in Nat
                           /\ segs[i].start < segs[i].end /\ segs[i].end <= n
      /\ \A i, j \in 1 .. m : i < j => segs[i].end < segs[j].start
      /\ \A z : z \in FiniteOf(x, y, n) <=>
                  \E i \in 1 .. m : z \in segs[i].start .. (segs[i].end - 1)
  BY RunsAreInOrder
<1>2. \A k \in 1 .. n : FinitePair(x, y, k) <=> k - 1 \in FiniteOf(x, y, n)
  <2>1. \A k \in 1 .. n : k - 1 \in 0 .. (n - 1) /\ (k - 1) + 1 = k
    OBVIOUS
  <2> QED
    BY <2>1 DEF FiniteOf
<1> HIDE DEF n, m
<1>3. n \in Nat
  BY DEF n
<1>4. \A i \in 1 .. m : \A k \in (segs[i].start + 1) .. segs[i].end : FinitePair(x, y, k)
  <2> TAKE i \in 1 .. m
  <2> TAKE k \in (segs[i].start + 1) .. segs[i].end
  <2>1. k \in 1 .. n /\ k - 1 \in segs[i].start .. (segs[i].end - 1)
    BY <1>1, <1>3
  <2> QED
    BY <1>1, <1>2, <2>1
<1>5. \A i \in 1 .. m : i > 1 => i - 1 \in 1 .. m /\ segs[i].start > segs[i - 1].end
  <2> SUFFICES ASSUME NEW i \in 1 .. m, i > 1
               PROVE  i - 1 \in 1 .. m /\ segs[i].start > segs[i - 1].end
    OBVIOUS
  <2>1. i - 1 \in 1 .. m /\ i - 1 < i
    BY <1>1
  <2>2. segs[i - 1].end < segs[i].start /\ segs[i - 1].end \in Nat /\ segs[i].start \in Nat
    BY <1>1, <2>1
  <2> QED
    BY <2>1, <2>2
<1>6. \A i \in 1 .. m : i > 1 => Before(i) = segs[i - 1].end
  BY <1>1
<1>7. \A i \in 1 .. m : ~\E k \in (Before(i) + 1) .. segs[i].start : FinitePair(x, y, k)
  <2> SUFFICES ASSUME NEW i \in 1 .. m, NEW k \in (Before(i) + 1) .. segs[i].start,
                      FinitePair(x, y, k)
               PROVE  FALSE
    OBVIOUS
  <2>1. Before(i) \in Nat
    BY <1>1, <1>5
  <2>2. k \in 1 .. n /\ k \in Nat /\ k <= segs[i].start /\ Before(i) <= k - 1
    <3>1. segs[i].start \in Nat /\ segs[i].start <= n
      <4>1. segs[i].start \in Nat /\ segs[i].end \in Nat /\ segs[i].start < segs[i].end
            /\ segs[i].end <= n
        BY <1>1
      <4> QED
        BY <4>1, <1>3
    <3> DEFINE from == Before(i)
               to == segs[i].start
    <3>2. k \in (from + 1) .. to /\ from \in Nat /\ to \in Nat /\ to <= n
      BY <2>1, <3>1
    <3> HIDE DEF from, to
    <3>3. k \in 1 .. n /\ k \in Nat /\ k <= to /\ from <= k - 1
      BY <1>3, <3>2
    <3> QED
      BY <3>3 DEF from, to
  <2>3. PICK j \in 1 .. m : k - 1 \in segs[j].start .. (segs[j].end - 1)
    BY <1>1, <1>2, <2>2
  <2>4. segs[j].start <= k - 1 /\ k - 1 < segs[j].end
    BY <1>1, <2>3
  <2>5. CASE j >= i
    <3>1. segs[i].start <= segs[j].start
      <4>1. i = j \/ (i < j /\ segs[i].end < segs[j].start)
        BY <1>1, <2>5
      <4> QED
        BY <1>1, <4>1
    <3> QED
      BY <1>1, <2>2, <2>4, <3>1
  <2>6. CASE j < i
    <3>1. i - 1 \in 1 .. m /\ Before(i) = segs[i - 1].end /\ j <= i - 1
      BY <1>1, <2>6
    <3>2. segs[j].end <= segs[i - 1].end
      <4>1. j = i - 1 \/ (j < i - 1 /\ segs[j].end < segs[i - 1].start)
        BY <1>1, <3>1
      <4> QED
        BY <1>1, <3>1, <4>1
    <3> QED
      BY <1>1, <2>1, <2>2, <2>4, <3>1, <3>2
  <2> QED
    BY <2>5, <2>6
<1>8. ~\E k \in (Before(m + 1) + 1) .. n : FinitePair(x, y, k)
  <2> SUFFICES ASSUME NEW k \in (Before(m + 1) + 1) .. n, FinitePair(x, y, k) PROVE FALSE
    OBVIOUS
  <2>1. m = 0 \/ (m \in 1 .. m /\ Before(m + 1) = segs[m].end)
    BY <1>1
  <2>2. Before(m + 1) \in Nat
    BY <1>1, <2>1
  <2>3. k \in 1 .. n /\ Before(m + 1) <= k - 1
    BY <1>3, <2>2
  <2>4. PICK j \in 1 .. m : k - 1 \in segs[j].start .. (segs[j].end - 1)
    BY <1>1, <1>2, <2>3
  <2>5. m \in 1 .. m /\ k - 1 < segs[j].end
    BY <1>1, <2>4
  <2>6. segs[j].end <= segs[m].end
    <3>1. j = m \/ (j < m /\ segs[j].end < segs[m].start)
      BY <1>1, <2>5
    <3> QED
      BY <1>1, <2>5, <3>1
  <2> QED
    BY <1>1, <2>1, <2>3, <2>5, <2>6
<1> HIDE DEF Before
<1>9. /\ \A i \in DOMAIN segs :
          /\ segs[i].start < segs[i].end /\ segs[i].end <= n
          /\ i > 1 => segs[i].start > Before(i)
          /\ ~\E k \in (Before(i) + 1) .. segs[i].start : FinitePair(x, y, k)
          /\ \A k \in (segs[i].start + 1) .. segs[i].end : FinitePair(x, y, k)
      /\ ~\E k \in (Before(m + 1) + 1) .. n : FinitePair(x, y, k)
  BY <1>1, <1>4, <1>5, <1>6, <1>7, <1>8
<1> QED
  BY <1>9 DEF SegmentsMatch, Before, n, m

\* ... and what the engine calls well formed.
LEMMA RunsAreWellFormed ==
  ASSUME NEW segs, NEW n \in Nat, NEW p, RunsTo(segs, n, p)
  PROVE  WellFormed(n, segs)
<1>1. /\ Len(segs) \in Nat /\ DOMAIN segs = 1 .. Len(segs)
      /\ \A i \in 1 .. Len(segs) :
           /\ segs[i].start \in Nat /\ segs[i].end \in Nat
           /\ segs[i].start < segs[i].end /\ segs[i].end <= n
      /\ \A i, j \in 1 .. Len(segs) : i < j => segs[i].end < segs[j].start
  BY RunsAreInOrder
<1>2. ASSUME NEW i \in 1 .. Len(segs), i > 1
      PROVE  segs[i].start > segs[i - 1].end
  <2>1. i - 1 \in 1 .. Len(segs) /\ i - 1 < i
    BY <1>1, <1>2
  <2>2. segs[i - 1].end < segs[i].start /\ segs[i - 1].end \in Nat /\ segs[i].start \in Nat
    BY <1>1, <2>1
  <2> QED
    BY <2>2
<1> QED
  BY <1>1, <1>2 DEF WellFormed

-----------------------------------------------------------------------------
(* The columns *)

LEMMA FiniteIsNumber ==
  /\ \A v \in Doubles : IsFinite(v) => v.number \in Int
  /\ ~IsFinite(NaN) /\ ~IsFinite(Infinite)
<1>1. DOMAIN NaN = {"nan"} /\ DOMAIN Infinite = {"infinite"}
  BY DEF NaN, Infinite
<1>2. ~IsFinite(NaN) /\ ~IsFinite(Infinite)
  BY <1>1 DEF IsFinite
<1>3. \A v \in [number : Int] : v.number \in Int
  OBVIOUS
<1> QED
  BY <1>2, <1>3 DEF Doubles

\* The columns are the pairs of the arrays: normalize_gaps makes a gap of exactly
\* those that are not finite.
LEMMA ColumnsArePairs ==
  ASSUME NEW x \in Seq(Doubles), NEW y \in Seq(Doubles), Len(x) = Len(y), NEW segs,
         segs = ValidSegments(x, y), NEW cells, cells = Columns(x, y, segs).cells
  PROVE  /\ cells \in Seq(Cells) /\ Len(cells) = Len(x)
         /\ \A k \in 1 .. Len(x) :
              /\ FinitePair(x, y, k) =>
                   /\ cells[k] = [x |-> x[k].number, y |-> y[k].number]
                   /\ cells[k] \in Values
              /\ ~FinitePair(x, y, k) => cells[k] = NotFinite
<1> DEFINE n == Len(x)
           xs == NormalizeGaps(x, segs)
           ys == NormalizeGaps(y, segs)
           Pair(k) == [x |-> x[k].number, y |-> y[k].number]
<1>1. n \in Nat /\ DOMAIN x = 1 .. n /\ DOMAIN y = 1 .. n
      /\ \A k \in 1 .. n : x[k] \in Doubles /\ y[k] \in Doubles
  OBVIOUS
<1>2. /\ Len(segs) \in Nat /\ DOMAIN segs = 1 .. Len(segs)
      /\ \A i \in 1 .. Len(segs) : segs[i].start \in Nat /\ segs[i].end \in Nat
      /\ \A z : z \in FiniteOf(x, y, n) <=>
                  \E i \in 1 .. Len(segs) : z \in segs[i].start .. (segs[i].end - 1)
  <2>1. RunsTo(segs, n, FiniteOf(x, y, n))
    BY <1>1, FoundRuns
  <2> HIDE DEF n
  <2> QED
    BY <1>1, <2>1, RunsAreInOrder
<1>3. \A k \in 1 .. n : FinitePair(x, y, k) <=>
        \E i \in DOMAIN segs : segs[i].start < k /\ k <= segs[i].end
  <2> TAKE k \in 1 .. n
  <2>1. k - 1 \in 0 .. (n - 1) /\ (k - 1) + 1 = k /\ k \in Nat
    BY <1>1
  <2>2. FinitePair(x, y, k) <=> k - 1 \in FiniteOf(x, y, n)
    BY <2>1 DEF FiniteOf
  <2> HIDE DEF n
  <2>3. \A i \in 1 .. Len(segs) :
          k - 1 \in segs[i].start .. (segs[i].end - 1) <=> segs[i].start < k /\ k <= segs[i].end
    <3> TAKE i \in 1 .. Len(segs)
    <3>1. segs[i].start \in Nat /\ segs[i].end \in Nat
      BY <1>2
    <3> QED
      BY <2>1, <3>1
  <2> QED
    BY <1>2, <2>2, <2>3
<1>4. /\ DOMAIN xs = 1 .. n
      /\ \A k \in 1 .. n :
           /\ xs[k] = IF FinitePair(x, y, k) THEN x[k] ELSE NaN
           /\ ys[k] = IF FinitePair(x, y, k) THEN y[k] ELSE NaN
  BY <1>1, <1>3 DEF NormalizeGaps
<1>5. cells = [k \in DOMAIN xs |-> IF FinitePair(xs, ys, k)
                                   THEN [x |-> xs[k].number, y |-> ys[k].number] ELSE NotFinite]
  BY DEF Columns
<1> HIDE DEF n, xs, ys
<1>6. \A k \in 1 .. n : FinitePair(xs, ys, k) <=> FinitePair(x, y, k)
  BY <1>4, FiniteIsNumber DEF FinitePair
<1>7. DOMAIN cells = 1 .. n
      /\ \A k \in 1 .. n :
           cells[k] = IF FinitePair(xs, ys, k)
                      THEN [x |-> xs[k].number, y |-> ys[k].number] ELSE NotFinite
  BY <1>4, <1>5
<1>8. \A k \in 1 .. n : /\ FinitePair(x, y, k) => cells[k] = Pair(k)
                        /\ ~FinitePair(x, y, k) => cells[k] = NotFinite
  BY <1>4, <1>6, <1>7
<1>9. \A k \in 1 .. n : FinitePair(x, y, k) => Pair(k) \in Values
  BY <1>1, FiniteIsNumber DEF FinitePair, Values
<1>10. \A k \in 1 .. n : cells[k] \in Cells
  BY <1>8, <1>9 DEF Cells
<1>11. cells \in Seq(Cells) /\ Len(cells) = n
  <2>1. cells = [k \in 1 .. n |-> cells[k]]
    BY <1>5, <1>4
  <2>2. n \in Nat
    BY <1>1
  <2> QED
    BY <1>10, <2>1, <2>2
<1> QED
  BY <1>8, <1>9, <1>11 DEF n

\* Storing columns like these is never refused, and they are the samples that
\* are accepted.
LEMMA ColumnsAreNormal ==
  ASSUME NEW x \in Seq(Doubles), NEW y \in Seq(Doubles), Len(x) = Len(y), NEW piece,
         piece = Columns(x, y, ValidSegments(x, y))
  PROVE  /\ IsPiece(piece)
         /\ ~IsRefused(Normalize("ArbitraryXY", piece))
         /\ Samples(piece) = [k \in 1 .. Len(x) |->
                                IF FinitePair(x, y, k)
                                THEN [x |-> x[k].number, y |-> y[k].number] ELSE Absent]
<1> DEFINE segs == ValidSegments(x, y)
           cells == piece.cells
           n == Len(x)
           positions == Positions(n, segs)
           samples == [k \in DOMAIN positions |-> cells[positions[k] + 1]]
<1>1. /\ piece.segments = segs /\ "segments" \in DOMAIN piece
      /\ cells = Columns(x, y, segs).cells
  BY DEF Columns
<1>2. SegmentsOf(piece) = segs
  BY <1>1 DEF SegmentsOf
<1>3. n \in Nat
  OBVIOUS
<1>4. /\ cells \in Seq(Cells) /\ Len(cells) = n /\ DOMAIN cells = 1 .. n
      /\ \A k \in 1 .. n :
           /\ FinitePair(x, y, k) => /\ cells[k] = [x |-> x[k].number, y |-> y[k].number]
                                     /\ cells[k] \in Values
           /\ ~FinitePair(x, y, k) => cells[k] = NotFinite
  <2> HIDE DEF cells, segs
  <2>1. /\ cells \in Seq(Cells) /\ Len(cells) = Len(x)
        /\ \A k \in 1 .. Len(x) :
             /\ FinitePair(x, y, k) => /\ cells[k] = [x |-> x[k].number, y |-> y[k].number]
                                       /\ cells[k] \in Values
             /\ ~FinitePair(x, y, k) => cells[k] = NotFinite
    BY <1>1, ColumnsArePairs DEF segs
  <2> QED
    BY <2>1
<1>5. RunsTo(segs, n, FiniteOf(x, y, n))
  BY <1>3, FoundRuns
<1> HIDE DEF segs, cells, n
<1>6. segs \in Seq(Ranges) /\ Covered(segs) = FiniteOf(x, y, n) /\ WellFormed(n, segs)
  BY <1>3, <1>5, RunsAreWellFormed DEF RunsTo
<1>7. Lists(positions, Covered(segs))
  <2>1. UNION {s.start .. (s.end - 1) : s \in ToSet(segs)} = Covered(segs)
    BY DEF ToSet, Covered
  <2>2. Covered(segs) \in SUBSET (0 .. n)
    BY <1>3, <1>6 DEF FiniteOf
  <2> QED
    BY <1>3, <2>1, <2>2, AscendingLists DEF Positions
<1> HIDE DEF positions
<1>8. /\ DOMAIN positions = 1 .. Len(positions) /\ Len(positions) \in Nat
      /\ \A z : z \in Covered(segs) <=> \E j \in 1 .. Len(positions) : positions[j] = z
  BY <1>7 DEF Lists
<1>9. \A k \in 1 .. n : k - 1 \in FiniteOf(x, y, n) <=> FinitePair(x, y, k)
  <2>1. \A k \in 1 .. n : k - 1 \in 0 .. (n - 1) /\ (k - 1) + 1 = k
    BY <1>3
  <2> QED
    BY <2>1 DEF FiniteOf
<1>10. \A k \in 1 .. Len(positions) : samples[k] \in Values
  <2> TAKE j \in 1 .. Len(positions)
  <2>1. positions[j] \in FiniteOf(x, y, n)
    BY <1>6, <1>8
  <2>2. positions[j] + 1 \in 1 .. n /\ FinitePair(x, y, positions[j] + 1)
    BY <1>3, <2>1 DEF FiniteOf
  <2>3. samples[j] = cells[positions[j] + 1]
    BY <1>8
  <2> QED
    BY <1>4, <2>2, <2>3
<1>11. FirstOffender("ArbitraryXY", samples) = 0
  <2>1. NotFinite \notin Values
    <3>1. \A v \in Values : DOMAIN v = {"x", "y"}
      BY DEF Values
    <3>2. DOMAIN NotFinite = {"finite"}
      BY DEF NotFinite
    <3> QED
      BY <3>1, <3>2
  <2>2. DOMAIN samples = 1 .. Len(positions)
    BY <1>8
  <2> HIDE DEF samples
  <2>3. \A k \in DOMAIN samples : samples[k] # NotFinite
    BY <1>10, <2>1, <2>2
  <2>4. "ArbitraryXY" # "MonotonicX"
    OBVIOUS
  <2> QED
    BY <2>3, <2>4 DEF FirstOffender
<1>12. ~IsRefused(Normalize("ArbitraryXY", piece))
  <2>1. \A t, l, p, g : ~IsRefused([topology |-> t, sourceLen |-> l, points |-> p, gaps |-> g])
    BY DEF IsRefused
  <2>2. Normalize("ArbitraryXY", piece) =
          [topology |-> "ArbitraryXY", sourceLen |-> n,
           points |-> [k \in DOMAIN positions |-> [source |-> positions[k], x |-> samples[k].x,
                                                   y |-> samples[k].y]],
           gaps |-> GapsBetween(n, segs)]
    BY <1>2, <1>4, <1>6, <1>11 DEF Normalize, cells, positions
  <2> QED
    BY <2>1, <2>2
<1>13. IsPiece(piece)
  BY <1>1, <1>4, <1>6 DEF IsPiece, cells
<1>14. Samples(piece) = [k \in 1 .. n |->
                           IF FinitePair(x, y, k)
                           THEN [x |-> x[k].number, y |-> y[k].number] ELSE Absent]
  <2>1. ToSet(positions) = FiniteOf(x, y, n)
    BY <1>6, <1>8 DEF ToSet
  <2>2. Samples(piece) = [k \in 1 .. n |-> IF k - 1 \in FiniteOf(x, y, n) THEN cells[k] ELSE Absent]
    BY <1>2, <1>4, <2>1 DEF Samples, cells, positions
  <2> QED
    BY <1>4, <1>9, <2>2
<1> QED
  BY <1>12, <1>13, <1>14 DEF n

-----------------------------------------------------------------------------
(* What is copied, stored and drawn *)

\* What is copied of memory is a sequence of doubles.
LEMMA CopiedAreDoubles ==
  ASSUME NEW a \in Arrays, NEW in \in [DOMAIN FirstMemory -> Doubles], CopyVerdict(a, in) = "copied"
  PROVE  /\ Elements(a, in) \in Seq(Doubles) /\ Len(Elements(a, in)) = a.length
         /\ a.length \in Nat /\ a.length <= MaxPoints /\ Inside(a)
<1>1. a.length \in Nat
  BY IngestAssumption DEF Views
<1>2. a.length <= MaxPoints /\ IsAligned(a) /\ ReachableSpan(a)
  <2>1. ~(a.length > MaxPoints) /\ IsAligned(a) /\ ReachableSpan(a)
    BY DEF CopyVerdict
  <2> QED
    BY <1>1, <2>1, IngestAssumption
<1>3. Inside(a)
  BY <1>2, ReachableIsInside
<1>4. \A k \in 0 .. (a.length - 1) : a.ptr + k * a.stride \in DOMAIN FirstMemory
  BY <1>2, <1>3, IngestAssumption DEF Inside
<1>5. \A k \in 1 .. a.length : in[a.ptr + (k - 1) * a.stride] \in Doubles
  <2> TAKE k \in 1 .. a.length
  <2>1. k - 1 \in 0 .. (a.length - 1)
    BY <1>1
  <2> QED
    BY <1>4, <2>1
<1>6. Elements(a, in) \in Seq(Doubles) /\ Len(Elements(a, in)) = a.length
  <2> DEFINE e(k) == in[a.ptr + (k - 1) * a.stride]
             n == a.length
  <2>1. Elements(a, in) = [k \in 1 .. n |-> e(k)]
    BY DEF Elements
  <2>2. n \in Nat /\ \A k \in 1 .. n : e(k) \in Doubles
    BY <1>1, <1>5
  <2> HIDE DEF e, n
  <2>3. [k \in 1 .. n |-> e(k)] \in Seq(Doubles) /\ Len([k \in 1 .. n |-> e(k)]) = n
    BY <2>2
  <2> QED
    BY <2>1, <2>3 DEF n
<1> QED
  BY <1>1, <1>2, <1>3, <1>6

\* The chunks of so few points have revisions.
LEMMA PartsFit ==
  ASSUME NEW topology, NEW new, NEW t, Normalized(new, t), Len(t) <= LastRevision
  PROVE  ~IsRefused(FromParts(topology, new.sourceLen, new.points, new.gaps, 1))
<1> DEFINE points == new.points
           count == ChunkCount(points)
           m == MaxPointsPerChunk
<1>1. /\ HoldPoints(points, t) /\ t \in Seq(Values \cup {Absent})
  BY DEF Normalized
<1>2. Len(points) \in Nat
  BY <1>1 DEF HoldPoints
<1>3. Len(points) <= Len(t)
  <2>1. Len(points) = Cardinality(Valid(t))
    BY <1>1, PointsAreCounted
  <2>2. Len(t) \in Nat
    BY <1>1
  <2>3. IsFiniteSet(0 .. (Len(t) - 1)) /\ Cardinality(0 .. (Len(t) - 1)) = Len(t)
    <3>1. IsFiniteSet(0 .. (Len(t) - 1))
          /\ Cardinality(0 .. (Len(t) - 1))
               = IF 0 > Len(t) - 1 THEN 0 ELSE (Len(t) - 1) - 0 + 1
      BY <2>2, FS_Interval
    <3> QED
      BY <2>2, <3>1
  <2>4. Valid(t) \subseteq 0 .. (Len(t) - 1)
    BY DEF Valid
  <2> QED
    BY <2>1, <2>3, <2>4, FS_Subset
<1>4. /\ count \in Nat
      /\ \A c \in 1 .. count : (c - 1) * m \in 0 .. (Len(points) - 1)
  BY <1>2, ChunkCounts
<1>5. count <= Len(points)
  <2>1. CASE count = 0
    BY <1>2, <2>1
  <2>2. CASE count # 0
    <3>1. count \in 1 .. count /\ count - 1 \in Nat /\ m \in Nat /\ 1 <= m
      BY <1>4, <2>2, SeriesAssumption
    <3>2. (count - 1) * m \in 0 .. (Len(points) - 1)
      BY <1>4, <3>1
    <3>3. count - 1 <= (count - 1) * m
      <4> DEFINE c == count - 1
      <4>1. c \in Nat /\ m \in Nat /\ 1 <= m
        BY <3>1
      <4> HIDE DEF c, m
      <4>2. 1 * c <= m * c /\ m * c = c * m /\ 1 * c = c
        BY <4>1, Products
      <4> QED
        BY <4>2 DEF c
    <3> HIDE DEF count, m
    <3> QED
      BY <1>2, <1>4, <3>2, <3>3
  <2> QED
    BY <2>1, <2>2
<1>6. Len(t) \in Nat
  BY <1>1
<1>7. ~(count > 0 /\ (1 = 0 \/ 1 + count - 1 > LastRevision))
  <2> HIDE DEF count, points
  <2>1. LastRevision \in Nat /\ 1 + count - 1 = count /\ count <= LastRevision
    BY <1>2, <1>3, <1>4, <1>5, <1>6, SeriesAssumption
  <2> QED
    BY <1>4, <2>1
<1> DEFINE made == FromParts(topology, new.sourceLen, points, new.gaps, 1)
<1>8. DOMAIN made = Fields
  <2> HIDE DEF count, points
  <2>1. ChunkCount(points) = count
    BY DEF count
  <2> QED
    BY <1>7, <2>1 DEF FromParts, Fields
<1>9. "error" \notin Fields
  BY DEF Fields
<1> QED
  BY <1>8, <1>9 DEF IsRefused

\* Only a limit refuses a frame whose geometry the bridge has accepted.
LEMMA OnlyLimitsRefuse ==
  ASSUME NEW r \in Requests, GeometryValid(r), StyleValid(r)
  PROVE  /\ ViewportValid(r) /\ FrameSpecValid(r)
         /\ LET frame == ResolveLineFrame(r.viewport, Linear, r)
            IN IsRefused(frame) => frame.error = "CapacityExceeded"
<1>1. r \in Arguments
  BY IngestAssumption
<1>2. ViewportValid(r) /\ FrameSpecValid(r) /\ LayoutValid(r.viewport, r)
  BY DEF GeometryValid, StyleValid, ViewportValid, FrameSpecValid, LayoutValid
<1>3. \A min, max \in Int : min < max =>
        LET ticks == AxisTicks(min, max)
        IN IsRefused(ticks) => ticks = Refused("CapacityExceeded")
  <2> SUFFICES ASSUME NEW min \in Int, NEW max \in Int, min < max,
                      IsRefused(AxisTicks(min, max))
               PROVE  AxisTicks(min, max) = Refused("CapacityExceeded")
    OBVIOUS
  <2> DEFINE step == Step(10 * max - 10 * min)
  <2>1. AxisTicks(min, max) = Multiples(step, 10 * min, 10 * max)
    BY DEF AxisTicks, LinearTicks
  <2> HIDE DEF step
  <2>2. \A at : ~IsRefused([at |-> at])
    BY DEF IsRefused
  <2> QED
    BY <2>1, <2>2 DEF Multiples
<1>4. r.viewport.minX \in Int /\ r.viewport.maxX \in Int
      /\ r.viewport.minY \in Int /\ r.viewport.maxY \in Int
  BY <1>1 DEF Arguments
<1>5. r.viewport.minX < r.viewport.maxX /\ r.viewport.minY < r.viewport.maxY
  BY DEF GeometryValid
<1>6. ~HasLog(Linear)
  BY DEF HasLog, Linear
<1>7. \A p, a, b : ~IsRefused([paths |-> p, xTicks |-> a, yTicks |-> b])
  BY DEF IsRefused
<1>8. Refused("CapacityExceeded").error = "CapacityExceeded"
  BY DEF Refused
<1> DEFINE xTicks == AxisTicks(r.viewport.minX, r.viewport.maxX)
           yTicks == AxisTicks(r.viewport.minY, r.viewport.maxY)
           frame  == ResolveLineFrame(r.viewport, Linear, r)
<1>9. /\ IsRefused(xTicks) => xTicks = Refused("CapacityExceeded")
      /\ IsRefused(yTicks) => yTicks = Refused("CapacityExceeded")
  BY <1>3, <1>4, <1>5
<1>10. IsRefused(frame) => frame.error = "CapacityExceeded"
  <2>1. \/ IsRefused(xTicks) /\ frame = xTicks
        \/ IsRefused(yTicks) /\ frame = yTicks
        \/ frame = Refused("CapacityExceeded")
        \/ \E p, a, b : frame = [paths |-> p, xTicks |-> a, yTicks |-> b]
    BY <1>2, <1>6, Zenon DEF ResolveLineFrame
  <2> HIDE DEF frame, xTicks, yTicks
  <2> QED
    BY <1>7, <1>8, <1>9, <2>1
<1> QED
  BY <1>2, <1>10

-----------------------------------------------------------------------------
(* A call that was accepted *)

\* The bridge has nothing against the segments of arrays that were copied.
LEMMA FoundSegmentsAreValid ==
  ASSUME NEW a \in Arrays, NEW b \in Arrays, NEW in \in [DOMAIN FirstMemory -> Doubles],
         NEW r \in Requests,
         CopyVerdict(a, in) = "copied", CopyVerdict(b, in) = "copied", a.length = b.length,
         GeometryValid(r), r.dpi > 0
  PROVE  RequestValid(Elements(a, in), Elements(b, in),
                      ValidSegments(Elements(a, in), Elements(b, in)), r)
<1> DEFINE x == Elements(a, in)
           y == Elements(b, in)
           segs == ValidSegments(x, y)
<1>1. /\ x \in Seq(Doubles) /\ y \in Seq(Doubles)
      /\ Len(x) = a.length /\ Len(y) = a.length /\ a.length \in Nat /\ a.length <= MaxPoints
  BY CopiedAreDoubles
<1>2. Infinite \notin ToSet(x) /\ Infinite \notin ToSet(y)
  BY DEF CopyVerdict
<1> HIDE DEF x, y
<1>3. SegmentsMatch(x, y, segs)
  <2>1. Len(x) \in Nat
    BY <1>1
  <2>2. RunsTo(segs, Len(x), FiniteOf(x, y, Len(x)))
    BY <2>1, FoundRuns
  <2> HIDE DEF segs
  <2> QED
    BY <2>1, <2>2, RunsMatch
<1>4. Len(x) <= MaxSourcePoints
  BY <1>1, IngestAssumption
<1>5. r.finite
  BY DEF GeometryValid
<1> HIDE DEF segs
<1>6. RequestValid(x, y, segs, r)
  BY <1>1, <1>2, <1>3, <1>4, <1>5 DEF RequestValid
<1> QED
  BY <1>6 DEF x, y, segs

\* A reason for a refusal that a caller is to hear of.
Reasons == {"type", "kind", "limit", "alignment", "span", "borrow", "infinite", "lengths",
            "geometry", "dpi", "AllocationFailed", "CapacityExceeded", "delivered", "sink"}

\* What the checks under the lock say.
LEMMA VerdictIs ==
  ASSUME memory \in [DOMAIN FirstMemory -> Doubles],
         NEW x \in Arrays, NEW y \in Arrays, NEW r \in Requests
  PROVE  /\ Verdict(x, y, r) = "accepted" =>
              /\ CopyVerdict(x, memory) = "copied" /\ CopyVerdict(y, memory) = "copied"
              /\ x.length = y.length /\ GeometryValid(r) /\ StyleValid(r)
         /\ Verdict(x, y, r) # "accepted" => Verdict(x, y, r) \in Reasons
         /\ Verdict(x, y, r) = "span" => ~ReachableSpan(x) \/ ~ReachableSpan(y)
<1> DEFINE v == Verdict(x, y, r)
           cx == CopyVerdict(x, memory)
           cy == CopyVerdict(y, memory)
           valid == RequestValid(Elements(x, memory), Elements(y, memory),
                                 ValidSegments(Elements(x, memory), Elements(y, memory)), r)
<1>1. r.arguments \in {"ok", "type"} /\ r.dpi \in Int
  BY IngestAssumption DEF Arguments
<1>2. /\ cx \in {"kind", "limit", "alignment", "span", "borrow", "infinite", "copied"}
      /\ cx = "span" => ~ReachableSpan(x)
  BY DEF CopyVerdict
<1>3. /\ cy \in {"kind", "limit", "alignment", "span", "borrow", "infinite", "copied"}
      /\ cy = "span" => ~ReachableSpan(y)
  BY DEF CopyVerdict
<1>4. v = IF r.arguments # "ok" THEN r.arguments
          ELSE IF cx # "copied" THEN cx
          ELSE IF cy # "copied" THEN cy
          ELSE IF x.length # y.length THEN "lengths"
          ELSE IF ~GeometryValid(r) \/ ~StyleValid(r) THEN "geometry"
          ELSE IF r.dpi <= 0 THEN "dpi"
          ELSE IF ~valid THEN "segments" ELSE "accepted"
  BY DEF Verdict
<1>5. cx = "copied" /\ cy = "copied" /\ x.length = y.length /\ GeometryValid(r) /\ ~(r.dpi <= 0)
        => valid
  <2> SUFFICES ASSUME cx = "copied", cy = "copied", x.length = y.length, GeometryValid(r),
                      ~(r.dpi <= 0)
               PROVE  valid
    OBVIOUS
  <2>1. r.dpi > 0
    BY <1>1
  <2> QED
    BY <2>1, FoundSegmentsAreValid
<1> HIDE DEF v, cx, cy, valid
<1>6. v = "accepted" => cx = "copied" /\ cy = "copied" /\ x.length = y.length
                        /\ GeometryValid(r) /\ StyleValid(r)
  BY <1>1, <1>2, <1>3, <1>4
<1>7. v # "accepted" => v \in Reasons
  BY <1>1, <1>2, <1>3, <1>4, <1>5 DEF Reasons
<1>8. v = "span" => ~ReachableSpan(x) \/ ~ReachableSpan(y)
  BY <1>1, <1>2, <1>3, <1>4
<1> QED
  BY <1>6, <1>7, <1>8 DEF v, cx, cy

\* What a call that is under way has been accepted with.
Accepted(c) ==
  /\ "stage" \in DOMAIN c
  /\ c.x \in Arrays /\ c.y \in Arrays /\ c.request \in Requests
  /\ c.seen \in [DOMAIN FirstMemory -> Doubles]
  /\ CopyVerdict(c.x, c.seen) = "copied"
  /\ CopyVerdict(c.y, c.seen) = "copied"
  /\ c.x.length = c.y.length
  /\ GeometryValid(c.request) /\ StyleValid(c.request)
  /\ c.columns = Columns(Elements(c.x, c.seen), Elements(c.y, c.seen),
                         ValidSegments(Elements(c.x, c.seen), Elements(c.y, c.seen)))

GoodEnd(c) ==
  /\ c.reason \in Reasons
  /\ c.reason = "span" => \E a \in {c.x, c.y} : a \in Arrays /\ ~ReachableSpan(a)

LEMMA IngestIInvIs ==
  IngestIInv <=>
    /\ memory \in [DOMAIN FirstMemory -> Doubles]
    /\ call.stage \in {"idle", "detached", "built", "ended"}
    /\ call.stage \in {"idle", "detached"} => storage = NoStorage /\ source = <<>>
    /\ call.stage \in {"detached", "built"} => Accepted(call)
    /\ call.stage = "built" => source = Samples(call.columns)
    /\ call.stage = "ended" => GoodEnd(call)
BY DEF IngestIInv, Accepted, GoodEnd, Reasons

LEMMA EndedIs ==
  ASSUME NEW x, NEW y, NEW reason
  PROVE  /\ Ended(x, y, reason).stage = "ended" /\ Ended(x, y, reason).reason = reason
         /\ Ended(x, y, reason).x = x /\ Ended(x, y, reason).y = y
         /\ reason \in Reasons \ {"span"} => GoodEnd(Ended(x, y, reason))
BY DEF Ended, GoodEnd

\* A step to the end of a call.
LEMMA EndKeeps ==
  ASSUME memory' \in [DOMAIN FirstMemory -> Doubles], NEW x, NEW y, NEW reason,
         call' = Ended(x, y, reason), GoodEnd(call')
  PROVE  IngestIInv'
<1>1. call'.stage = "ended"
  BY EndedIs
<1>2. /\ memory' \in [DOMAIN FirstMemory -> Doubles]
      /\ call'.stage \in {"idle", "detached", "built", "ended"}
      /\ ~(call'.stage \in {"idle", "detached"}) /\ ~(call'.stage \in {"detached", "built"})
      /\ call'.stage # "built" /\ GoodEnd(call')
  BY <1>1
<1> QED
  BY <1>2 DEF IngestIInv, GoodEnd, Reasons

\* The engine stores columns that the bridge has accepted.
LEMMA ColumnsAreStored ==
  ASSUME NEW c, Accepted(c), source = <<>>, Insert("ArbitraryXY", c.columns)
  PROVE  outcome' = "ok" /\ source' = Samples(c.columns)
<1> DEFINE x == Elements(c.x, c.seen)
           y == Elements(c.y, c.seen)
           piece == c.columns
           new == Normalize("ArbitraryXY", piece)
           t == Samples(piece)
           made == FromParts("ArbitraryXY", new.sourceLen, new.points, new.gaps, 1)
<1>1. /\ x \in Seq(Doubles) /\ y \in Seq(Doubles) /\ Len(x) = Len(y)
      /\ Len(x) \in Nat /\ Len(x) <= MaxPoints
  BY CopiedAreDoubles DEF Accepted
<1>2. piece = Columns(x, y, ValidSegments(x, y))
  BY DEF Accepted
<1> HIDE DEF x, y, piece
<1>3. /\ IsPiece(piece) /\ ~IsRefused(new)
      /\ t = [k \in 1 .. Len(x) |-> IF FinitePair(x, y, k)
                                    THEN [x |-> x[k].number, y |-> y[k].number] ELSE Absent]
  BY <1>1, <1>2, ColumnsAreNormal
<1>4. Normalized(new, t)
  BY <1>3, NormalizedHolds
<1>5. t \in Seq(Values \cup {Absent}) /\ Len(t) \in Nat
  BY <1>4 DEF Normalized
<1>6. Len(t) <= LastRevision
  <2>1. DOMAIN t = 1 .. Len(x) /\ DOMAIN t = 1 .. Len(t)
    BY <1>3, <1>5
  <2> HIDE DEF t
  <2>2. Len(t) = Len(x)
    <3>1. \A m, n \in Nat : 1 .. m = 1 .. n => m = n
      <4> SUFFICES ASSUME NEW m \in Nat, NEW n \in Nat, 1 .. m = 1 .. n PROVE m = n
        OBVIOUS
      <4>1. m = 0 \/ m \in 1 .. n
        OBVIOUS
      <4>2. n = 0 \/ n \in 1 .. m
        OBVIOUS
      <4>3. m = 0 => ~(n \in 1 .. m)
        OBVIOUS
      <4>4. n = 0 => ~(m \in 1 .. n)
        OBVIOUS
      <4> QED
        BY <4>1, <4>2, <4>3, <4>4
    <3> QED
      BY <1>1, <1>5, <2>1, <3>1
  <2>3. MaxPoints \in Nat /\ MaxPoints <= LastRevision /\ LastRevision \in Nat
    BY IngestAssumption, SeriesAssumption
  <2> QED
    BY <1>1, <1>5, <2>2, <2>3
<1>7. ~IsRefused(made)
  <2> HIDE DEF new, t
  <2> QED
    BY <1>4, <1>6, PartsFit
<1>8. Settle(made, piece)
  <2>1. Insert("ArbitraryXY", piece)
    BY DEF piece
  <2> QED
    BY <1>3, <2>1 DEF Insert
<1> HIDE DEF made
<1>9. outcome' = "ok" /\ source' = source \o t
  BY <1>7, <1>8 DEF Settle
<1>10. source \o t = t
  BY <1>5
<1> QED
  BY <1>9, <1>10 DEF piece

-----------------------------------------------------------------------------
(* The steps of a call *)

\* Whatever the arrays are and whatever is written to them, a call that is under
\* way keeps what was accepted of its arguments.
THEOREM IngestKeepsAccepted == IngestSpec => []IngestIInv
<1>1. IngestInit => IngestIInv
  <2> SUFFICES ASSUME IngestInit PROVE IngestIInv
    OBVIOUS
  <2>1. /\ memory = FirstMemory /\ call.stage = "idle"
        /\ storage = NoStorage /\ source = <<>>
    BY DEF IngestInit, Init, NoCall
  <2>2. memory \in [DOMAIN FirstMemory -> Doubles]
    BY <2>1, IngestAssumption
  <2> QED
    BY <2>1, <2>2, IngestIInvIs
<1>2. IngestIInv /\ [IngestNext]_<<vars, ingestVars>> => IngestIInv'
  <2> SUFFICES ASSUME IngestIInv, [IngestNext]_<<vars, ingestVars>> PROVE IngestIInv'
    OBVIOUS
  <2> DEFINE Memories == [DOMAIN FirstMemory -> Doubles]
  <2>1. /\ memory \in Memories
        /\ call.stage \in {"idle", "detached"} => storage = NoStorage /\ source = <<>>
        /\ call.stage \in {"detached", "built"} => Accepted(call)
    BY IngestIInvIs
  <2>2. ASSUME NEW x \in Arrays, NEW y \in Arrays, NEW r \in Requests, CallNative(x, y, r)
        PROVE  IngestIInv'
    <3>1. call.stage = "idle" /\ UNCHANGED <<storage, source>> /\ memory' = memory
      BY <2>2 DEF CallNative, vars
    <3>2. memory' \in Memories
      BY <2>1, <3>1
    <3>3. CASE Verdict(x, y, r) # "accepted" /\ call' = Ended(x, y, Verdict(x, y, r))
      <4> DEFINE v == Verdict(x, y, r)
      <4>1. v \in Reasons /\ (v = "span" => ~ReachableSpan(x) \/ ~ReachableSpan(y))
        BY <2>1, <3>3, VerdictIs
      <4> HIDE DEF v
      <4>2. call' = Ended(x, y, v)
        BY <3>3 DEF v
      <4>3. call'.reason = v /\ call'.x = x /\ call'.y = y
        BY <4>2, EndedIs
      <4>4. GoodEnd(call')
        BY <4>1, <4>3 DEF GoodEnd
      <4> QED
        BY <3>2, <4>2, <4>4, EndKeeps
    <3>4. CASE call' = Ended(x, y, "AllocationFailed")
      <4>1. GoodEnd(call')
        BY <3>4, EndedIs DEF Reasons
      <4> QED
        BY <3>2, <3>4, <4>1, EndKeeps
    <3>5. CASE /\ Verdict(x, y, r) = "accepted"
               /\ call' = [stage |-> "detached", x |-> x, y |-> y, seen |-> memory,
                           request |-> r,
                           columns |-> Columns(Elements(x, memory), Elements(y, memory),
                                               ValidSegments(Elements(x, memory),
                                                             Elements(y, memory)))]
      <4>1. /\ CopyVerdict(x, memory) = "copied" /\ CopyVerdict(y, memory) = "copied"
            /\ x.length = y.length /\ GeometryValid(r) /\ StyleValid(r)
        BY <2>1, <3>5, VerdictIs
      <4>2. /\ "stage" \in DOMAIN call'
            /\ call'.stage = "detached" /\ call'.x = x /\ call'.y = y /\ call'.seen = memory
            /\ call'.request = r
            /\ call'.columns = Columns(Elements(x, memory), Elements(y, memory),
                                       ValidSegments(Elements(x, memory), Elements(y, memory)))
        BY <3>5
      <4>3. Accepted(call')
        BY <2>1, <4>1, <4>2 DEF Accepted
      <4>4. storage' = NoStorage /\ source' = <<>>
        BY <2>1, <3>1
      <4>5. /\ call'.stage \in {"idle", "detached", "built", "ended"}
            /\ call'.stage # "built" /\ call'.stage # "ended"
        BY <4>2
      <4> QED
        BY <3>2, <4>3, <4>4, <4>5 DEF IngestIInv, Accepted
    <3> QED
      BY <2>2, <3>3, <3>4, <3>5 DEF CallNative
  <2>3. CASE Write
    <3>1. PICK at \in DOMAIN memory, value \in Scribbles :
            /\ memory' = [memory EXCEPT ![at] = value] /\ UNCHANGED <<vars, call>>
      BY <2>3 DEF Write
    <3>2. memory' \in Memories
      BY <2>1, <3>1, IngestAssumption
    <3>3. UNCHANGED <<storage, source, call>>
      BY <3>1 DEF vars
    <3> QED
      BY <3>2, <3>3 DEF IngestIInv
  <2>4. CASE BuildScene
    <3>1. call.stage = "detached" /\ memory' = memory
      BY <2>4 DEF BuildScene
    <3>2. memory' \in Memories /\ Accepted(call) /\ source = <<>>
      BY <2>1, <3>1
    <3>3. ViewportValid(call.request) /\ FrameSpecValid(call.request)
      BY <3>2, OnlyLimitsRefuse DEF Accepted
    <3>4. CASE /\ Insert("ArbitraryXY", call.columns)
               /\ call' = IF outcome' # "ok" THEN Ended(call.x, call.y, outcome')
                          ELSE IF ~FrameSpecValid(call.request)
                          THEN Ended(call.x, call.y, "InvalidInput")
                          ELSE [call EXCEPT !.stage = "built"]
      <4>1. outcome' = "ok" /\ source' = Samples(call.columns)
        BY <3>2, <3>4, ColumnsAreStored
      <4>2. call' = [call EXCEPT !.stage = "built"]
        BY <3>3, <3>4, <4>1
      <4>3. "stage" \in DOMAIN call /\ DOMAIN call' = DOMAIN call
        BY <3>2, <4>2 DEF Accepted
      <4>4. /\ call'.stage = "built" /\ call'.columns = call.columns
            /\ Accepted(call')
        BY <3>2, <4>2, <4>3 DEF Accepted
      <4>5. source' = Samples(call'.columns)
        BY <4>1, <4>4
      <4> QED
        BY <3>2, <4>4, <4>5 DEF IngestIInv, Accepted
    <3>5. CASE call' = Ended(call.x, call.y, "AllocationFailed")
      <4>1. GoodEnd(call')
        BY <3>5, EndedIs DEF Reasons
      <4> QED
        BY <3>2, <3>5, <4>1, EndKeeps
    <3> QED
      BY <2>4, <3>3, <3>4, <3>5 DEF BuildScene
  <2>5. CASE DrawFrame
    <3> DEFINE frame == ResolveLineFrame(call.request.viewport, Linear, call.request)
    <3>1. /\ call.stage = "built" /\ memory' = memory
          /\ \/ IsRefused(frame) /\ call' = Ended(call.x, call.y, frame.error)
             \/ \E result \in {"delivered", "sink"} : call' = Ended(call.x, call.y, result)
      BY <2>5 DEF DrawFrame
    <3>2. memory' \in Memories /\ Accepted(call)
      BY <2>1, <3>1
    <3>3. IsRefused(frame) => frame.error = "CapacityExceeded"
      BY <3>2, OnlyLimitsRefuse DEF Accepted
    <3> HIDE DEF frame
    <3>4. PICK reason \in {"CapacityExceeded", "delivered", "sink"} :
            call' = Ended(call.x, call.y, reason)
      BY <3>1, <3>3
    <3>5. GoodEnd(call')
      BY <3>4, EndedIs DEF Reasons
    <3> QED
      BY <3>2, <3>4, <3>5, EndKeeps
  <2>6. CASE ReturnToPython
    <3>1. /\ call' = NoCall /\ storage' = NoStorage /\ source' = <<>> /\ memory' = memory
      BY <2>6 DEF ReturnToPython
    <3>2. call'.stage = "idle"
      BY <3>1 DEF NoCall
    <3>3. memory' \in Memories /\ call'.stage \in {"idle", "detached", "built", "ended"}
          /\ call'.stage \notin {"detached", "built"} /\ call'.stage # "built"
          /\ call'.stage # "ended"
      BY <2>1, <3>1, <3>2
    <3> QED
      BY <3>1, <3>3 DEF IngestIInv
  <2>7. CASE UNCHANGED <<vars, ingestVars>>
    BY <2>7 DEF vars, ingestVars, IngestIInv
  <2> QED
    BY <2>2, <2>3, <2>4, <2>5, <2>6, <2>7 DEF IngestNext
<1> QED
  BY <1>1, <1>2, PTL DEF IngestSpec

\* No read of an array leaves its allocation, and no array is refused for its span
\* that stays in it: the extension's arithmetic on addresses is exact, for every
\* chain of owners, length and stride.
THEOREM ReadsAreBounded == IngestSpec => []ReadsStayInside
<1>1. IngestIInv => ReadsStayInside
  <2> SUFFICES ASSUME IngestIInv PROVE ReadsStayInside
    OBVIOUS
  <2>1. ASSUME call.stage \in {"detached", "built"} PROVE Inside(call.x) /\ Inside(call.y)
    <3>1. Accepted(call)
      BY <2>1, IngestIInvIs
    <3> QED
      BY <3>1, CopiedAreDoubles DEF Accepted
  <2>2. ASSUME call.stage = "ended", call.reason = "span"
        PROVE  \E a \in {call.x, call.y} :
                 \/ ~Inside(a) \/ ~Resolvable(a) \/ a.ptr = 0 \/ Root(a).ptr = 0
                 \/ a.length = 0 /\ a.ptr % Alignment # 0
    <3>1. GoodEnd(call)
      BY <2>2, IngestIInvIs
    <3>2. PICK a \in {call.x, call.y} : a \in Arrays /\ ~ReachableSpan(a)
      BY <2>2, <3>1 DEF GoodEnd
    <3> QED
      BY <3>2, ReachableIsInside
  <2> QED
    BY <2>1, <2>2 DEF ReadsStayInside
<1> QED
  BY <1>1, IngestKeepsAccepted, PTL

\* The series of a picture is what the arrays held when they were passed, whatever
\* other threads write to them once the lock is given up.
THEOREM DrawnIsWhatWasHeld == IngestSpec => []DrawsWhatWasHeld
<1>1. IngestIInv => DrawsWhatWasHeld
  <2> SUFFICES ASSUME IngestIInv, call.stage = "built"
               PROVE  LET xs == Elements(call.x, call.seen)
                          ys == Elements(call.y, call.seen)
                      IN source = [k \in 1 .. call.x.length |->
                                     IF FinitePair(xs, ys, k)
                                     THEN [x |-> xs[k].number, y |-> ys[k].number]
                                     ELSE Absent]
    BY DEF DrawsWhatWasHeld
  <2> DEFINE xs == Elements(call.x, call.seen)
             ys == Elements(call.y, call.seen)
  <2>1. Accepted(call) /\ source = Samples(call.columns)
    BY IngestIInvIs
  <2>2. /\ xs \in Seq(Doubles) /\ ys \in Seq(Doubles)
        /\ Len(xs) = call.x.length /\ Len(ys) = call.x.length
    BY <2>1, CopiedAreDoubles DEF Accepted
  <2>3. call.columns = Columns(xs, ys, ValidSegments(xs, ys))
    BY <2>1 DEF Accepted
  <2> HIDE DEF xs, ys
  <2>4. Samples(call.columns) = [k \in 1 .. Len(xs) |->
                                   IF FinitePair(xs, ys, k)
                                   THEN [x |-> xs[k].number, y |-> ys[k].number] ELSE Absent]
    BY <2>2, <2>3, ColumnsAreNormal
  <2> QED
    BY <2>1, <2>2, <2>4 DEF xs, ys
<1> QED
  BY <1>1, IngestKeepsAccepted, PTL

\* What one layer has made of good input no layer below it refuses: the segments
\* that the extension finds are those the bridge asks for, and the columns, the
\* geometry and the style that the bridge accepts the engine accepts too.
THEOREM LayersNeverDisagree == IngestSpec => []LayersAgree
<1>1. IngestIInv => LayersAgree
  <2> SUFFICES ASSUME IngestIInv, call.stage = "ended"
               PROVE  call.reason \notin {"segments", "InvalidInput", "NonFiniteCanonical",
                                          "TopologyViolation", "UnsupportedCapability",
                                          "RevisionExhausted"}
    BY DEF LayersAgree
  <2>1. call.reason \in Reasons
    BY IngestIInvIs DEF GoodEnd
  <2> QED
    BY <2>1 DEF Reasons
<1> QED
  BY <1>1, IngestKeepsAccepted, PTL
=============================================================================
