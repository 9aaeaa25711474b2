------------------------ MODULE PortableRenderer_proofs ------------------------
(***************************************************************************)
(* Proofs about PortableRenderer, for all frames, limits and faults: a     *)
(* delivered picture shows its own frame, a frame is refused for want of   *)
(* room only if the device has none, and only a renderer that failed half- *)
(* way before fails a frame that passed the checks.                        *)
(***************************************************************************)
EXTENDS PortableRenderer, FiniteSetTheorems, NaturalsInduction, WellFoundedInduction,
        SequenceTheorems, TLAPS


-----------------------------------------------------------------------------
(* Sequences *)

\* Every set of natural numbers that is not empty has a least element.
LEMMA LeastNatural ==
  ASSUME NEW T \in SUBSET Nat, T # {}
  PROVE  \E n \in T : \A m \in T : n <= m
<1> DEFINE R == OpToRel(<, Nat)
<1>1. IsWellFoundedOn(R, Nat)
  BY NatLessThanWellFounded
<1>2. \A i, j \in Nat : i < j => <<i, j>> \in R
  BY DEF OpToRel
<1> HIDE DEF R
<1>3. PICK n \in T : \A m \in T : ~(<<m, n>> \in R)
  BY <1>1, WFMin, Zenon
<1>4. \A m \in T : m \in Nat /\ n \in Nat
  OBVIOUS
<1>5. \A m \in T : ~(m < n)
  BY <1>2, <1>3, <1>4, Zenon
<1> QED
  BY <1>4, <1>5

\* A sequence's positions are the numbers from one to its length.
LEMMA SequenceDomain ==
  ASSUME NEW s, IsSequence(s)
  PROVE  /\ Len(s) \in Nat
         /\ DOMAIN s = 1 .. Len(s)
         /\ s = [i \in 1 .. Len(s) |-> s[i]]
         /\ \A i \in 1 .. Len(s) : s[i] \in ToSet(s)
BY DEF IsSequence, ToSet

LEMMA SeqIsSequence ==
  ASSUME NEW A, NEW s \in Seq(A)
  PROVE  IsSequence(s)
<1>1. s = [i \in 1 .. Len(s) |-> s[i]] /\ Len(s) \in Nat
  OBVIOUS
<1>2. DOMAIN s = 1 .. Len(s) /\ \A i \in 1 .. Len(s) : s[i] \in ToSet(s)
  BY <1>1 DEF ToSet
<1>3. s \in [1 .. Len(s) -> ToSet(s)]
  BY <1>1, <1>2
<1> QED
  BY <1>1, <1>3 DEF IsSequence

\* Whatever is given for every number up to n is a sequence.
LEMMA ListIsSequence ==
  ASSUME NEW n \in Nat, NEW s, s = [i \in 1 .. n |-> s[i]]
  PROVE  IsSequence(s) /\ Len(s) = n
<1>1. DOMAIN s = 1 .. n /\ \A i \in 1 .. n : s[i] \in ToSet(s)
  BY DEF ToSet
<1>2. s \in [1 .. n -> ToSet(s)]
  BY <1>1
<1> QED
  BY <1>2 DEF IsSequence

\* Two sequences one after the other are a sequence of what is in both.
LEMMA ConcatIsSequence ==
  ASSUME NEW s, NEW t, IsSequence(s), IsSequence(t)
  PROVE  IsSequence(s \o t) /\ ToSet(s \o t) = ToSet(s) \cup ToSet(t)
<1> DEFINE A == ToSet(s) \cup ToSet(t)
<1>1. s \in Seq(A) /\ t \in Seq(A)
  BY SequenceDomain DEF IsSequence
<1>2. /\ s \o t \in Seq(A)
      /\ Len(s \o t) = Len(s) + Len(t)
      /\ \A i \in 1 .. (Len(s) + Len(t)) :
           (s \o t)[i] = IF i <= Len(s) THEN s[i] ELSE t[i - Len(s)]
  BY <1>1
<1>3. DOMAIN (s \o t) = 1 .. (Len(s) + Len(t)) /\ Len(s) \in Nat /\ Len(t) \in Nat
  BY <1>2, SequenceDomain
<1>4. ToSet(s \o t) \subseteq A
  BY <1>2, <1>3, SequenceDomain DEF ToSet
<1>5. ToSet(s) \subseteq ToSet(s \o t)
  <2> SUFFICES ASSUME NEW i \in 1 .. Len(s) PROVE s[i] \in ToSet(s \o t)
    BY SequenceDomain DEF ToSet
  <2>1. i \in 1 .. (Len(s) + Len(t)) /\ i <= Len(s)
    BY <1>3
  <2>2. (s \o t)[i] = s[i]
    BY <1>2, <2>1
  <2> QED
    BY <1>3, <2>1, <2>2 DEF ToSet
<1>6. ToSet(t) \subseteq ToSet(s \o t)
  <2> SUFFICES ASSUME NEW i \in 1 .. Len(t) PROVE t[i] \in ToSet(s \o t)
    BY SequenceDomain DEF ToSet
  <2>1. i + Len(s) \in 1 .. (Len(s) + Len(t)) /\ ~(i + Len(s) <= Len(s))
    BY <1>3
  <2>2. (s \o t)[i + Len(s)] = t[i + Len(s) - Len(s)]
    BY <1>2, <2>1
  <2>3. (s \o t)[i + Len(s)] = t[i]
    BY <1>3, <2>2
  <2> QED
    BY <1>3, <2>1, <2>3 DEF ToSet
<1>7. IsSequence(s \o t)
  BY <1>2, SeqIsSequence
<1> QED
  BY <1>4, <1>5, <1>6, <1>7

-----------------------------------------------------------------------------
(* FlattenSeq *)

Joined(seqs, n, f) == f = [i \in 1 .. n |-> IF i = 1 THEN seqs[i] ELSE f[i - 1] \o seqs[i]]

\* The recursion of FlattenSeq has a solution.
LEMMA JoinedExists ==
  ASSUME NEW seqs, NEW n \in Nat
  PROVE  \E f : Joined(seqs, n, f)
<1> DEFINE T == {m \in Nat : ~\E f : Joined(seqs, m, f)}
<1> SUFFICES ASSUME T # {} PROVE FALSE
  OBVIOUS
<1>1. PICK m \in T : \A k \in T : m <= k
  <2>1. T \subseteq Nat
    OBVIOUS
  <2> HIDE DEF T
  <2> QED
    BY <2>1, LeastNatural
<1>2. m # 0
  <2> SUFFICES ASSUME m = 0 PROVE \E f : Joined(seqs, 0, f)
    OBVIOUS
  <2> Joined(seqs, 0, [i \in 1 .. 0 |-> {}])
    BY DEF Joined
  <2> QED
    OBVIOUS
<1>3. m - 1 \in Nat /\ m - 1 \notin T
  BY <1>1, <1>2
<1>4. PICK f : Joined(seqs, m - 1, f)
  BY <1>3
<1> DEFINE g == [i \in 1 .. m |-> IF i = m THEN IF i = 1 THEN seqs[i] ELSE f[i - 1] \o seqs[i] ELSE f[i]]
<1>5. Joined(seqs, m, g)
  <2>1. \A i \in 1 .. m : g[i] = IF i = 1 THEN seqs[i] ELSE g[i - 1] \o seqs[i]
    <3> SUFFICES ASSUME NEW i \in 1 .. m
                 PROVE  g[i] = IF i = 1 THEN seqs[i] ELSE g[i - 1] \o seqs[i]
      OBVIOUS
    <3>0. m \in Nat
      OBVIOUS
    <3>1. CASE i = m
      <4>1. i # 1 => i - 1 \in 1 .. m /\ i - 1 # m
        BY <3>0
      <4> QED
        BY <3>1, <4>1
    <3>2. CASE i # m
      <4>1. i \in 1 .. (m - 1)
        BY <3>0, <3>2
      <4>2. i # 1 => i - 1 \in 1 .. m /\ i - 1 # m /\ i - 1 \in 1 .. (m - 1)
        BY <3>0, <4>1
      <4>3. f[i] = IF i = 1 THEN seqs[i] ELSE f[i - 1] \o seqs[i]
        BY <1>4, <4>1 DEF Joined
      <4> QED
        BY <3>2, <4>2, <4>3
    <3> QED
      BY <3>1, <3>2
  <2> QED
    BY <2>1 DEF Joined
<1> QED
  BY <1>5

LEMMA FlattenSeqJoins ==
  ASSUME NEW seqs, Len(seqs) \in Nat \ {0}
  PROVE  \E f : Joined(seqs, Len(seqs), f) /\ FlattenSeq(seqs) = f[Len(seqs)]
<1> DEFINE f == CHOOSE g : g = [i \in 1 .. Len(seqs) |->
                                   IF i = 1 THEN seqs[i] ELSE g[i - 1] \o seqs[i]]
<1>1. \E g : g = [i \in 1 .. Len(seqs) |-> IF i = 1 THEN seqs[i] ELSE g[i - 1] \o seqs[i]]
  BY JoinedExists DEF Joined
<1>2. Joined(seqs, Len(seqs), f)
  BY <1>1 DEF Joined
<1>3. FlattenSeq(seqs) = f[Len(seqs)]
  BY DEF FlattenSeq
<1> QED
  BY <1>2, <1>3

InFirst(seqs, i) == UNION {ToSet(seqs[j]) : j \in 1 .. i}

LEMMA InFirstSteps ==
  ASSUME NEW seqs, NEW i \in Nat \ {0}
  PROVE  InFirst(seqs, i) = InFirst(seqs, i - 1) \cup ToSet(seqs[i])
<1>1. 1 .. i = (1 .. (i - 1)) \cup {i}
  OBVIOUS
<1>2. \A k, x : x \in InFirst(seqs, k) <=> \E j \in 1 .. k : x \in ToSet(seqs[j])
  BY DEF InFirst
<1> QED
  BY <1>1, <1>2

\* Sequences one after the other are a sequence of what is in them.
LEMMA FlattenIsSequence ==
  ASSUME NEW seqs, IsSequence(seqs), \A i \in DOMAIN seqs : IsSequence(seqs[i])
  PROVE  /\ IsSequence(FlattenSeq(seqs))
         /\ ToSet(FlattenSeq(seqs)) = UNION {ToSet(seqs[i]) : i \in DOMAIN seqs}
<1>1. Len(seqs) \in Nat /\ DOMAIN seqs = 1 .. Len(seqs)
  BY SequenceDomain
<1>2. CASE Len(seqs) = 0
  <2>1. FlattenSeq(seqs) = seqs
    BY <1>2 DEF FlattenSeq
  <2>2. DOMAIN seqs = {}
    BY <1>1, <1>2
  <2> QED
    BY <2>1, <2>2 DEF ToSet
<1>3. CASE Len(seqs) # 0
  <2> DEFINE n == Len(seqs)
  <2>1. PICK f : Joined(seqs, n, f) /\ FlattenSeq(seqs) = f[n]
    BY <1>1, <1>3, FlattenSeqJoins
  <2> DEFINE Good(i) == IsSequence(f[i]) /\ ToSet(f[i]) = InFirst(seqs, i)
             T == {i \in 1 .. n : ~Good(i)}
  <2>2. T = {}
    <3> SUFFICES ASSUME T # {} PROVE FALSE
      OBVIOUS
    <3>1. PICK i \in T : \A k \in T : i <= k
      <4>1. T \subseteq Nat
        BY <1>1
      <4> HIDE DEF T
      <4> QED
        BY <4>1, LeastNatural
    <3>2. i \in 1 .. n /\ ~Good(i) /\ n \in Nat
      BY <1>1
    <3> HIDE DEF Good
    <3>3. \A k \in 1 .. (i - 1) : Good(k)
      BY <3>1, <3>2
    <3> USE DEF Good
    <3> HIDE DEF T
    <3>4. f[i] = IF i = 1 THEN seqs[i] ELSE f[i - 1] \o seqs[i]
      BY <2>1, <3>2 DEF Joined
    <3>5. IsSequence(seqs[i])
      BY <1>1, <3>2
    <3>6. CASE i = 1
      <4>1. InFirst(seqs, 0) = {}
        BY DEF InFirst
      <4>2. InFirst(seqs, i) = ToSet(seqs[i])
        BY <3>6, <4>1, InFirstSteps
      <4> QED
        BY <3>2, <3>4, <3>5, <3>6, <4>2
    <3>7. CASE i # 1
      <4>1. i - 1 \in 1 .. (i - 1) /\ i \in Nat \ {0}
        BY <3>2, <3>7
      <4>2. Good(i - 1)
        BY <3>3, <4>1
      <4>3. IsSequence(f[i]) /\ ToSet(f[i]) = InFirst(seqs, i - 1) \cup ToSet(seqs[i])
        BY <3>4, <3>5, <3>7, <4>2, ConcatIsSequence
      <4> QED
        BY <3>2, <4>1, <4>3, InFirstSteps
    <3> QED
      BY <3>6, <3>7
  <2>3. n \in 1 .. n
    BY <1>1, <1>3
  <2>4. Good(n)
    BY <2>2, <2>3
  <2>5. InFirst(seqs, n) = UNION {ToSet(seqs[i]) : i \in DOMAIN seqs}
    BY <1>1 DEF InFirst
  <2> QED
    BY <2>1, <2>4, <2>5
<1> QED
  BY <1>2, <1>3

-----------------------------------------------------------------------------
(* Prefixes *)

IsNested(s) == IsSequence(s) /\ \A i \in DOMAIN s : IsSequence(s[i])

LEMMA ShortSequences ==
  ASSUME NEW x, NEW y
  PROVE  /\ IsSequence(<<>>) /\ IsSequence(<<x>>) /\ IsSequence(<<x, y>>)
         /\ ToSet(<<>>) = {} /\ ToSet(<<x>>) = {x} /\ ToSet(<<x, y>>) = {x, y}
<1>1. <<>> \in Seq({}) /\ <<x>> \in Seq({x}) /\ <<x, y>> \in Seq({x, y})
  OBVIOUS
<1>2. DOMAIN <<>> = {} /\ DOMAIN <<x>> = {1} /\ DOMAIN <<x, y>> = {1, 2}
  OBVIOUS
<1>3. /\ ToSet(<<>>) = {} /\ ToSet(<<x>>) = {x} /\ ToSet(<<x, y>>) = {x, y}
  BY <1>2 DEF ToSet
<1> QED
  BY <1>1, <1>3, SeqIsSequence

\* Two sequences one after the other, place by place.
LEMMA ConcatByPlace ==
  ASSUME NEW s, NEW t, IsSequence(s), IsSequence(t)
  PROVE  /\ Len(s \o t) = Len(s) + Len(t)
         /\ \A i \in 1 .. Len(s) : (s \o t)[i] = s[i]
         /\ \A i \in 1 .. Len(t) : (s \o t)[Len(s) + i] = t[i]
<1> DEFINE A == ToSet(s) \cup ToSet(t)
<1>1. s \in Seq(A) /\ t \in Seq(A)
  BY SequenceDomain DEF IsSequence
<1> HIDE DEF A
<1> QED
  BY <1>1

LEMMA PrefixSteps ==
  ASSUME NEW s, IsSequence(s)
  PROVE  /\ SubSeq(s, 1, 0) = <<>> /\ SubSeq(s, 1, Len(s)) = s
         /\ \A m \in 0 .. Len(s) :
              /\ IsSequence(SubSeq(s, 1, m)) /\ Len(SubSeq(s, 1, m)) = m
              /\ \A i \in 1 .. m : SubSeq(s, 1, m)[i] = s[i]
         /\ \A m \in 1 .. Len(s) : SubSeq(s, 1, m) = Append(SubSeq(s, 1, m - 1), s[m])
<1> DEFINE A == ToSet(s)
<1>1. s \in Seq(A) /\ Len(s) \in Nat
  BY SequenceDomain DEF IsSequence
<1> HIDE DEF A
<1>2. SubSeq(s, 1, 0) = <<>>
  BY <1>1
<1>3. SubSeq(s, 1, Len(s)) = s
  BY <1>1
<1>4. ASSUME NEW m \in 0 .. Len(s)
      PROVE  /\ SubSeq(s, 1, m) \in Seq(A) /\ Len(SubSeq(s, 1, m)) = m
             /\ \A i \in 1 .. m : SubSeq(s, 1, m)[i] = s[i]
  BY <1>1
<1>5. ASSUME NEW m \in 1 .. Len(s)
      PROVE  SubSeq(s, 1, m) = Append(SubSeq(s, 1, m - 1), s[m])
  BY <1>1
<1> QED
  BY <1>2, <1>3, <1>4, <1>5, SeqIsSequence

\* One more sequence at the end of those joined.
LEMMA FlattenAppend ==
  ASSUME NEW s, NEW t, IsNested(s), IsSequence(t)
  PROVE  FlattenSeq(Append(s, t)) = FlattenSeq(s) \o t
<1> DEFINE n == Len(s)
           u == Append(s, t)
           A == ToSet(s) \cup {t}
<1>1. s \in Seq(A) /\ t \in A /\ n \in Nat
  BY SequenceDomain DEF IsNested, IsSequence
<1>2. Len(u) = n + 1 /\ (\A i \in 1 .. n : u[i] = s[i]) /\ u[n + 1] = t
  <2> HIDE DEF A
  <2> QED
    BY <1>1
<1> HIDE DEF u, A
<1>3. PICK f : Joined(u, n + 1, f) /\ FlattenSeq(u) = f[n + 1]
  BY <1>1, <1>2, FlattenSeqJoins
<1>4. \A i \in 1 .. (n + 1) : f[i] = IF i = 1 THEN u[i] ELSE f[i - 1] \o u[i]
  BY <1>3 DEF Joined
<1>5. CASE n = 0
  <2>1. f[1] = t
    BY <1>1, <1>2, <1>4, <1>5
  <2>2. FlattenSeq(s) = <<>>
    BY <1>1, <1>5 DEF FlattenSeq
  <2>3. <<>> \o t = t
    BY DEF IsSequence
  <2> QED
    BY <1>3, <1>5, <2>1, <2>2, <2>3 DEF u
<1>6. CASE n # 0
  <2>1. PICK g : Joined(s, n, g) /\ FlattenSeq(s) = g[n]
    BY <1>1, <1>6, FlattenSeqJoins
  <2>2. \A i \in 1 .. n : g[i] = IF i = 1 THEN s[i] ELSE g[i - 1] \o s[i]
    BY <2>1 DEF Joined
  <2> DEFINE T == {i \in 1 .. n : f[i] # g[i]}
  <2>3. T = {}
    <3> SUFFICES ASSUME T # {} PROVE FALSE
      OBVIOUS
    <3>1. PICK i \in T : \A k \in T : i <= k
      <4>1. T \subseteq Nat
        BY <1>1
      <4> HIDE DEF T
      <4> QED
        BY <4>1, LeastNatural
    <3>2. i \in 1 .. n /\ i \in 1 .. (n + 1) /\ f[i] # g[i] /\ (i # 1 => i - 1 \in 1 .. n)
      BY <1>1
    <3>3. i # 1 => f[i - 1] = g[i - 1]
      BY <1>1, <3>1, <3>2
    <3> HIDE DEF n, T
    <3> QED
      BY <1>2, <1>4, <2>2, <3>2, <3>3
  <2>4. f[n] = g[n]
    <3>1. n \in 1 .. n
      BY <1>1, <1>6
    <3> QED
      BY <2>3, <3>1
  <2>5. f[n + 1] = f[n] \o t
    <3>1. n + 1 \in 1 .. (n + 1) /\ n + 1 # 1 /\ (n + 1) - 1 = n
      BY <1>1, <1>6
    <3> HIDE DEF n
    <3> QED
      BY <1>2, <1>4, <3>1
  <2> QED
    BY <1>3, <2>1, <2>4, <2>5 DEF u
<1> QED
  BY <1>5, <1>6

\* Joining the first m sequences, one by one.
LEMMA FlattenPrefix ==
  ASSUME NEW s, IsNested(s)
  PROVE  /\ FlattenSeq(SubSeq(s, 1, 0)) = <<>>
         /\ FlattenSeq(SubSeq(s, 1, Len(s))) = FlattenSeq(s)
         /\ \A m \in 0 .. Len(s) :
              /\ IsNested(SubSeq(s, 1, m)) /\ IsSequence(FlattenSeq(SubSeq(s, 1, m)))
              /\ ToSet(FlattenSeq(SubSeq(s, 1, m))) = UNION {ToSet(s[i]) : i \in 1 .. m}
         /\ \A m \in 1 .. Len(s) :
              FlattenSeq(SubSeq(s, 1, m)) = FlattenSeq(SubSeq(s, 1, m - 1)) \o s[m]
<1>1. IsSequence(s) /\ Len(s) \in Nat /\ \A i \in 1 .. Len(s) : IsSequence(s[i])
  BY SequenceDomain DEF IsNested
<1>2. FlattenSeq(SubSeq(s, 1, 0)) = <<>>
  <2>1. SubSeq(s, 1, 0) = <<>>
    BY <1>1, PrefixSteps
  <2> QED
    BY <2>1 DEF FlattenSeq
<1>3. FlattenSeq(SubSeq(s, 1, Len(s))) = FlattenSeq(s)
  BY <1>1, PrefixSteps
<1>4. ASSUME NEW m \in 0 .. Len(s)
      PROVE  /\ IsNested(SubSeq(s, 1, m)) /\ IsSequence(FlattenSeq(SubSeq(s, 1, m)))
             /\ ToSet(FlattenSeq(SubSeq(s, 1, m))) = UNION {ToSet(s[i]) : i \in 1 .. m}
  <2> DEFINE p == SubSeq(s, 1, m)
  <2>1. IsSequence(p) /\ Len(p) = m /\ \A i \in 1 .. m : p[i] = s[i]
    BY <1>1, PrefixSteps
  <2>2. DOMAIN p = 1 .. m
    BY <2>1, SequenceDomain
  <2>3. \A i \in 1 .. m : IsSequence(p[i]) /\ ToSet(p[i]) = ToSet(s[i])
    BY <1>1, <2>1
  <2> HIDE DEF p
  <2>4. /\ IsSequence(FlattenSeq(p))
        /\ ToSet(FlattenSeq(p)) = UNION {ToSet(p[i]) : i \in DOMAIN p}
    BY <2>1, <2>2, <2>3, FlattenIsSequence
  <2>5. {ToSet(p[i]) : i \in DOMAIN p} = {ToSet(s[i]) : i \in 1 .. m}
    BY <2>2, <2>3
  <2>6. IsNested(p)
    BY <2>1, <2>2, <2>3 DEF IsNested
  <2> QED
    BY <2>4, <2>5, <2>6 DEF p
<1>5. ASSUME NEW m \in 1 .. Len(s)
      PROVE  FlattenSeq(SubSeq(s, 1, m)) = FlattenSeq(SubSeq(s, 1, m - 1)) \o s[m]
  <2>1. m - 1 \in 0 .. Len(s) /\ IsSequence(s[m])
    BY <1>1
  <2>2. IsNested(SubSeq(s, 1, m - 1))
    BY <1>4, <2>1
  <2>3. SubSeq(s, 1, m) = Append(SubSeq(s, 1, m - 1), s[m])
    BY <1>1, PrefixSteps
  <2> QED
    BY <2>1, <2>2, <2>3, FlattenAppend
<1> QED
  BY <1>2, <1>3, <1>4, <1>5

\* Each of the joined sequences lies behind those before it.
LEMMA PieceInPlace ==
  ASSUME NEW s, IsNested(s), NEW i \in 1 .. Len(s)
  PROVE  LET b == Len(FlattenSeq(SubSeq(s, 1, i - 1)))
         IN /\ b \in Nat /\ b + Len(s[i]) <= Len(FlattenSeq(s))
            /\ \A k \in 1 .. Len(s[i]) : FlattenSeq(s)[b + k] = s[i][k]
<1> DEFINE F(m) == FlattenSeq(SubSeq(s, 1, m))
           b == Len(F(i - 1))
           InPlace(m) == /\ b + Len(s[i]) <= Len(F(m))
                         /\ \A k \in 1 .. Len(s[i]) : F(m)[b + k] = s[i][k]
           T == {m \in i .. Len(s) : ~InPlace(m)}
<1>1. IsSequence(s) /\ Len(s) \in Nat /\ i \in Nat /\ i >= 1
      /\ \A m \in 1 .. Len(s) : IsSequence(s[m]) /\ Len(s[m]) \in Nat
  BY SequenceDomain DEF IsNested
<1>2. \A m \in 0 .. Len(s) : IsSequence(F(m)) /\ Len(F(m)) \in Nat
  BY FlattenPrefix, SequenceDomain
<1>3. \A m \in 1 .. Len(s) : F(m) = F(m - 1) \o s[m]
  BY FlattenPrefix
<1>4. F(Len(s)) = FlattenSeq(s)
  BY FlattenPrefix
<1> HIDE DEF F
<1>5. \A m \in 1 .. Len(s) :
        /\ Len(F(m)) = Len(F(m - 1)) + Len(s[m])
        /\ \A k \in 1 .. Len(F(m - 1)) : F(m)[k] = F(m - 1)[k]
        /\ \A k \in 1 .. Len(s[m]) : F(m)[Len(F(m - 1)) + k] = s[m][k]
  <2> SUFFICES ASSUME NEW m \in 1 .. Len(s)
               PROVE  /\ Len(F(m)) = Len(F(m - 1)) + Len(s[m])
                      /\ \A k \in 1 .. Len(F(m - 1)) : F(m)[k] = F(m - 1)[k]
                      /\ \A k \in 1 .. Len(s[m]) : F(m)[Len(F(m - 1)) + k] = s[m][k]
    OBVIOUS
  <2>1. m - 1 \in 0 .. Len(s)
    BY <1>1
  <2>2. IsSequence(F(m - 1)) /\ IsSequence(s[m])
    BY <1>1, <1>2, <2>1
  <2>3. F(m) = F(m - 1) \o s[m]
    BY <1>3
  <2> QED
    BY <2>2, <2>3, ConcatByPlace
<1>6. b \in Nat
  <2>1. i - 1 \in 0 .. Len(s)
    BY <1>1
  <2> QED
    BY <1>2, <2>1
<1> HIDE DEF InPlace
<1>7. T = {}
  <2> SUFFICES ASSUME T # {} PROVE FALSE
    OBVIOUS
  <2>1. PICK m \in T : \A k \in T : m <= k
    <3>1. T \subseteq Nat
      BY <1>1
    <3> HIDE DEF T
    <3> QED
      BY <3>1, LeastNatural
  <2>2. m \in i .. Len(s) /\ m \in 1 .. Len(s) /\ ~InPlace(m)
    BY <1>1
  <2>3. m # i => m - 1 \in i .. Len(s) /\ m - 1 \notin T
    BY <1>1, <2>1, <2>2
  <2>4. CASE m = i
    <3>1. /\ Len(F(i)) = b + Len(s[i])
          /\ \A k \in 1 .. Len(s[i]) : F(i)[b + k] = s[i][k]
      BY <1>5 DEF b
    <3>2. Len(s[i]) \in Nat
      BY <1>1
    <3>3. b + Len(s[i]) <= Len(F(i))
      <4> HIDE DEF b
      <4> QED
        BY <1>6, <3>1, <3>2
    <3>4. InPlace(i)
      BY <3>1, <3>3 DEF InPlace
    <3> QED
      BY <2>2, <2>4, <3>4
  <2>5. CASE m # i
    <3>1. InPlace(m - 1)
      BY <2>3, <2>5
    <3>2. \A k \in 1 .. Len(s[i]) : b + k \in 1 .. Len(F(m - 1))
      <4>1. m - 1 \in 0 .. Len(s) /\ Len(s[i]) \in Nat
        BY <1>1, <2>2
      <4>2. Len(F(m - 1)) \in Nat
        BY <1>2, <4>1
      <4> HIDE DEF b, T
      <4> QED
        BY <1>6, <3>1, <4>1, <4>2 DEF InPlace
    <3>3. /\ Len(F(m)) = Len(F(m - 1)) + Len(s[m]) /\ Len(s[m]) \in Nat
          /\ Len(F(m - 1)) \in Nat /\ Len(s[i]) \in Nat
          /\ \A k \in 1 .. Len(F(m - 1)) : F(m)[k] = F(m - 1)[k]
      <4>1. m - 1 \in 0 .. Len(s)
        BY <1>1, <2>2
      <4> QED
        BY <1>1, <1>2, <1>5, <2>2, <4>1
    <3> HIDE DEF b, T
    <3>4. b + Len(s[i]) <= Len(F(m))
      <4>1. b + Len(s[i]) <= Len(F(m - 1))
        BY <3>1 DEF InPlace
      <4>2. \A j, k, l, n \in Nat : j + k <= l => j + k <= l + n
        OBVIOUS
      <4>3. /\ b \in Nat /\ Len(s[i]) \in Nat /\ Len(F(m - 1)) \in Nat /\ Len(s[m]) \in Nat
            /\ Len(F(m)) = Len(F(m - 1)) + Len(s[m])
        BY <1>6, <3>3
      <4> QED
        BY <4>1, <4>2, <4>3
    <3>5. \A k \in 1 .. Len(s[i]) : F(m)[b + k] = s[i][k]
      <4>1. \A k \in 1 .. Len(s[i]) : F(m - 1)[b + k] = s[i][k]
        BY <3>1 DEF InPlace
      <4> QED
        BY <3>2, <3>3, <4>1
    <3>6. InPlace(m)
      BY <3>4, <3>5 DEF InPlace
    <3> QED
      BY <2>2, <3>6
  <2> QED
    BY <2>4, <2>5
<1>8. Len(s) \in i .. Len(s)
  BY <1>1
<1>9. InPlace(Len(s))
  BY <1>7, <1>8
<1> QED
  BY <1>4, <1>6, <1>9 DEF F, InPlace

\* What lies further on has the greater rank.
Ranked(s, r) ==
  /\ \A x \in ToSet(s) : r[x] \in Int
  /\ \A i, j \in 1 .. Len(s) : i < j => r[s[i]] < r[s[j]]

LEMMA RankedConcat ==
  ASSUME NEW s, NEW t, NEW r, IsSequence(s), IsSequence(t), Ranked(s, r), Ranked(t, r),
         \A x \in ToSet(s), y \in ToSet(t) : r[x] < r[y]
  PROVE  Ranked(s \o t, r)
<1> DEFINE u == s \o t
<1>1. IsSequence(u) /\ ToSet(u) = ToSet(s) \cup ToSet(t)
  BY ConcatIsSequence
<1>2. /\ Len(u) = Len(s) + Len(t)
      /\ \A i \in 1 .. Len(s) : u[i] = s[i]
      /\ \A i \in 1 .. Len(t) : u[Len(s) + i] = t[i]
  BY ConcatByPlace
<1>3. /\ Len(s) \in Nat /\ \A i \in 1 .. Len(s) : s[i] \in ToSet(s)
      /\ Len(t) \in Nat /\ \A i \in 1 .. Len(t) : t[i] \in ToSet(t)
  BY SequenceDomain
<1> HIDE DEF u
<1>4. ASSUME NEW i \in 1 .. Len(u), NEW j \in 1 .. Len(u), i < j
      PROVE  r[u[i]] < r[u[j]]
  <2>1. CASE j <= Len(s)
    <3>1. i \in 1 .. Len(s) /\ j \in 1 .. Len(s)
      BY <1>2, <1>3, <1>4, <2>1
    <3> QED
      BY <1>2, <1>4, <3>1 DEF Ranked
  <2>2. CASE i <= Len(s) /\ ~(j <= Len(s))
    <3>1. i \in 1 .. Len(s) /\ j - Len(s) \in 1 .. Len(t) /\ Len(s) + (j - Len(s)) = j
      BY <1>2, <1>3, <1>4, <2>2
    <3>2. u[i] = s[i] /\ u[j] = t[j - Len(s)]
      BY <1>2, <3>1
    <3> QED
      BY <1>3, <3>1, <3>2
  <2>3. CASE ~(i <= Len(s))
    <3>1. /\ i - Len(s) \in 1 .. Len(t) /\ Len(s) + (i - Len(s)) = i
          /\ j - Len(s) \in 1 .. Len(t) /\ Len(s) + (j - Len(s)) = j
          /\ i - Len(s) < j - Len(s)
      BY <1>2, <1>3, <1>4, <2>3
    <3>2. u[i] = t[i - Len(s)] /\ u[j] = t[j - Len(s)]
      BY <1>2, <3>1
    <3> QED
      BY <3>1, <3>2 DEF Ranked
  <2> QED
    BY <2>1, <2>2, <2>3
<1> QED
  BY <1>1, <1>4 DEF Ranked, u

LEMMA FlattenIsRanked ==
  ASSUME NEW s, NEW r, IsNested(s),
         \A i \in 1 .. Len(s) : Ranked(s[i], r),
         \A i, j \in 1 .. Len(s) : i < j =>
           \A x \in ToSet(s[i]), y \in ToSet(s[j]) : r[x] < r[y]
  PROVE  Ranked(FlattenSeq(s), r)
<1> DEFINE F(m) == FlattenSeq(SubSeq(s, 1, m))
           T == {m \in 0 .. Len(s) : ~Ranked(F(m), r)}
<1>1. Len(s) \in Nat /\ \A m \in 1 .. Len(s) : IsSequence(s[m])
  BY SequenceDomain DEF IsNested
<1>2. /\ F(0) = <<>> /\ F(Len(s)) = FlattenSeq(s)
      /\ \A m \in 0 .. Len(s) :
           IsSequence(F(m)) /\ ToSet(F(m)) = UNION {ToSet(s[i]) : i \in 1 .. m}
      /\ \A m \in 1 .. Len(s) : F(m) = F(m - 1) \o s[m]
  BY FlattenPrefix
<1> HIDE DEF F
<1>3. T = {}
  <2> SUFFICES ASSUME T # {} PROVE FALSE
    OBVIOUS
  <2>1. PICK m \in T : \A k \in T : m <= k
    <3>1. T \subseteq Nat
      BY <1>1
    <3> HIDE DEF T
    <3> QED
      BY <3>1, LeastNatural
  <2>2. m \in 0 .. Len(s) /\ ~Ranked(F(m), r)
    OBVIOUS
  <2>3. m # 0
    <3>1. Ranked(<<>>, r)
      <4>1. ToSet(<<>>) = {} /\ Len(<<>>) = 0
        BY ShortSequences
      <4> QED
        BY <4>1 DEF Ranked
    <3> QED
      BY <1>2, <2>2, <3>1
  <2>4. m \in 1 .. Len(s) /\ m - 1 \in 0 .. Len(s) /\ m - 1 \notin T
    BY <1>1, <2>1, <2>2, <2>3
  <2>5. Ranked(F(m - 1), r)
    BY <2>4
  <2>6. \A x \in ToSet(F(m - 1)), y \in ToSet(s[m]) : r[x] < r[y]
    <3> SUFFICES ASSUME NEW x \in ToSet(F(m - 1)), NEW y \in ToSet(s[m]) PROVE r[x] < r[y]
      OBVIOUS
    <3>1. PICK i \in 1 .. (m - 1) : x \in ToSet(s[i])
      BY <1>2, <2>4
    <3>2. i \in 1 .. Len(s) /\ i < m
      BY <1>1, <2>4
    <3> QED
      BY <2>4, <3>1, <3>2
  <2>7. IsSequence(F(m - 1)) /\ IsSequence(s[m]) /\ Ranked(s[m], r) /\ F(m) = F(m - 1) \o s[m]
    BY <1>1, <1>2, <2>4
  <2> HIDE DEF T
  <2>8. Ranked(F(m), r)
    BY <2>5, <2>6, <2>7, RankedConcat
  <2> QED
    BY <2>2, <2>8
<1>4. Len(s) \in 0 .. Len(s)
  BY <1>1
<1> QED
  BY <1>2, <1>3, <1>4

-----------------------------------------------------------------------------
(* Numbers *)

LEMMA LeastIsIn ==
  ASSUME NEW K \in SUBSET Nat, K # {}
  PROVE  Min(K) \in K /\ \A k \in K : Min(K) <= k
<1>1. \E n \in K : \A m \in K : n <= m
  BY LeastNatural
<1> QED
  BY <1>1 DEF Min

LEMMA GreaterOfTwo ==
  ASSUME NEW a \in Nat, NEW b \in Nat
  PROVE  Max({a, b}) \in {a, b} /\ Max({a, b}) >= a /\ Max({a, b}) >= b
<1>1. \E x \in {a, b} : \A y \in {a, b} : x >= y
  <2>1. CASE a >= b
    BY <2>1
  <2>2. CASE ~(a >= b)
    BY <2>2
  <2> QED
    BY <2>1, <2>2
<1> QED
  BY <1>1 DEF Max

\* The capacities a growing object may have: doubled and cut to the maximum.
Doubled(current, maximum, n, f) ==
  f = [k \in 0 .. n |-> IF k = 0 THEN Max({current, 1}) ELSE Min({2 * f[k - 1], maximum})]

LEMMA DoubledExists ==
  ASSUME NEW current, NEW maximum, NEW n \in Nat
  PROVE  \E f : Doubled(current, maximum, n, f)
<1> DEFINE T == {m \in Nat : ~\E f : Doubled(current, maximum, m, f)}
           Next1(x) == Min({2 * x, maximum})
           first == Max({current, 1})
<1>0. \A m, f : Doubled(current, maximum, m, f)
                <=> f = [k \in 0 .. m |-> IF k = 0 THEN first ELSE Next1(f[k - 1])]
  BY DEF Doubled
<1> HIDE DEF Next1, first
<1> SUFFICES ASSUME T # {} PROVE FALSE
  OBVIOUS
<1>1. PICK m \in T : \A k \in T : m <= k
  <2>1. T \subseteq Nat
    OBVIOUS
  <2> HIDE DEF T
  <2> QED
    BY <2>1, LeastNatural
<1>2. m # 0
  <2> SUFFICES ASSUME m = 0 PROVE \E f : Doubled(current, maximum, 0, f)
    OBVIOUS
  <2> DEFINE g == [k \in 0 .. 0 |-> first]
  <2>1. g = [k \in 0 .. 0 |-> IF k = 0 THEN first ELSE Next1(g[k - 1])]
    OBVIOUS
  <2> QED
    BY <1>0, <2>1
<1>3. m \in Nat /\ m - 1 \in Nat /\ m - 1 \notin T
  BY <1>1, <1>2
<1>4. PICK f : Doubled(current, maximum, m - 1, f)
  BY <1>3
<1>5. \A k \in 0 .. (m - 1) : f[k] = IF k = 0 THEN first ELSE Next1(f[k - 1])
  BY <1>0, <1>4
<1> DEFINE g == [k \in 0 .. m |-> IF k = m THEN Next1(f[m - 1]) ELSE f[k]]
<1>6. \A k \in 0 .. m : g[k] = IF k = 0 THEN first ELSE Next1(g[k - 1])
  <2> SUFFICES ASSUME NEW k \in 0 .. m
               PROVE  g[k] = IF k = 0 THEN first ELSE Next1(g[k - 1])
    OBVIOUS
  <2>1. k # 0 => k - 1 \in 0 .. m /\ k - 1 # m /\ g[k - 1] = f[k - 1]
    BY <1>3
  <2>2. CASE k = m
    BY <1>2, <2>1, <2>2
  <2>3. CASE k # m
    <3>1. k \in 0 .. (m - 1) /\ g[k] = f[k]
      BY <1>3, <2>3
    <3> QED
      BY <1>5, <2>1, <3>1
  <2> QED
    BY <2>2, <2>3
<1>7. g = [k \in 0 .. m |-> IF k = 0 THEN first ELSE Next1(g[k - 1])]
  <2> DEFINE h == [k \in 0 .. m |-> IF k = 0 THEN first ELSE Next1(g[k - 1])]
  <2>1. DOMAIN g = 0 .. m /\ DOMAIN h = 0 .. m
    OBVIOUS
  <2>2. \A k \in 0 .. m : g[k] = h[k]
    BY <1>6
  <2>3. g = [k \in 0 .. m |-> g[k]] /\ h = [k \in 0 .. m |-> h[k]]
    OBVIOUS
  <2> HIDE DEF g, h
  <2>4. g = h
    BY <2>2, <2>3
  <2> QED
    BY <2>4 DEF h
<1>8. Doubled(current, maximum, m, g)
  BY <1>0, <1>7
<1> QED
  BY <1>1, <1>8

\* What is required is found, as long as the device could hold it.
LEMMA GrownIsEnough ==
  ASSUME NEW maximum \in Nat \ {0}, NEW required \in 1 .. maximum, NEW current \in 0 .. maximum
  PROVE  Grown(required, current, maximum) \in required .. maximum
<1> DEFINE f == CHOOSE g : g = [k \in 0 .. maximum |->
                  IF k = 0 THEN Max({current, 1}) ELSE Min({2 * g[k - 1], maximum})]
           enough == {k \in 0 .. maximum : f[k] >= required}
<1>1. \E g : g = [k \in 0 .. maximum |->
                  IF k = 0 THEN Max({current, 1}) ELSE Min({2 * g[k - 1], maximum})]
  <2>1. \E g : Doubled(current, maximum, maximum, g)
    <3>1. maximum \in Nat
      OBVIOUS
    <3> QED
      BY <3>1, DoubledExists, Zenon
  <2> QED
    BY <2>1, Zenon DEF Doubled
<1>2. f = [k \in 0 .. maximum |->
             IF k = 0 THEN Max({current, 1}) ELSE Min({2 * f[k - 1], maximum})]
  BY <1>1
<1>3. Grown(required, current, maximum)
      = IF required = 0 \/ enough = {} THEN 0 ELSE f[Min(enough)]
  BY DEF Grown
<1> HIDE DEF f
<1>4. f[0] \in 1 .. maximum /\ f[0] >= 1
  <2>1. Max({current, 1}) \in {current, 1} /\ Max({current, 1}) >= 1
    BY GreaterOfTwo
  <2> QED
    BY <1>2, <2>1
<1>5. \A k \in 1 .. maximum : f[k] = Min({2 * f[k - 1], maximum})
  <2> SUFFICES ASSUME NEW k \in 1 .. maximum PROVE f[k] = Min({2 * f[k - 1], maximum})
    OBVIOUS
  <2>1. k \in 0 .. maximum /\ k # 0
    OBVIOUS
  <2> QED
    BY <1>2, <2>1
<1> DEFINE Sound(k) == f[k] \in 1 .. maximum /\ (f[k] = maximum \/ f[k] >= k + 1)
           T == {k \in 0 .. maximum : ~Sound(k)}
<1>6. T = {}
  <2> SUFFICES ASSUME T # {} PROVE FALSE
    OBVIOUS
  <2>1. PICK m \in T : \A k \in T : m <= k
    <3>1. T \subseteq Nat
      OBVIOUS
    <3> HIDE DEF T
    <3> QED
      BY <3>1, LeastNatural
  <2>2. m \in 0 .. maximum /\ ~Sound(m)
    OBVIOUS
  <2>3. m # 0
    BY <1>4, <2>2
  <2>4. m \in 1 .. maximum /\ m - 1 \in 0 .. maximum /\ m - 1 \notin T
    BY <2>1, <2>2, <2>3
  <2>5. Sound(m - 1)
    BY <2>4
  <2>6. 2 * f[m - 1] \in Nat \ {0} /\ 2 * f[m - 1] >= f[m - 1] + 1
    BY <2>5
  <2>7. /\ Min({2 * f[m - 1], maximum}) \in {2 * f[m - 1], maximum}
        /\ Min({2 * f[m - 1], maximum}) <= maximum
    BY <2>6, LeastIsIn
  <2>8. f[m] \in {2 * f[m - 1], maximum} /\ f[m] <= maximum
    BY <1>5, <2>4, <2>7
  <2>9. f[m - 1] = maximum => f[m] = maximum
    BY <2>5, <2>6, <2>8
  <2> HIDE DEF T
  <2> QED
    BY <2>2, <2>4, <2>5, <2>6, <2>8, <2>9
<1>7. maximum \in enough
  BY <1>6
<1>8. Min(enough) \in enough
  <2>1. enough \in SUBSET Nat
    OBVIOUS
  <2> HIDE DEF enough
  <2> QED
    BY <1>7, <2>1, LeastIsIn
<1>9. Min(enough) \in 0 .. maximum /\ f[Min(enough)] >= required
  BY <1>8
<1>10. f[Min(enough)] \in 1 .. maximum
  BY <1>6, <1>9
<1> HIDE DEF enough
<1> QED
  BY <1>3, <1>7, <1>9, <1>10

\* The readback buffer has room for a picture's every row.
LEMMA ReadbackIsPositive ==
  ASSUME RendererAssumption, NEW frame, frame.canvas[1] \in Nat \ {0},
         frame.canvas[2] \in Nat \ {0}
  PROVE  ReadbackSize(frame) \in Nat \ {0}
<1> DEFINE w == frame.canvas[1]
           h == frame.canvas[2]
           q == (w + RowAlignment - 1) \div RowAlignment
<1>1. RowAlignment \in Nat \ {0} /\ w \in Nat \ {0} /\ h \in Nat \ {0}
  BY DEF RendererAssumption
<1>2. \A a \in Nat : \A b \in Nat \ {0} : a >= b => a \div b \in Nat \ {0}
  OBVIOUS
<1>3. q \in Nat \ {0}
  <2>1. w + RowAlignment - 1 \in Nat /\ w + RowAlignment - 1 >= RowAlignment
    BY <1>1
  <2> QED
    BY <1>1, <1>2, <2>1
<1>4. \A a, b \in Nat \ {0} : a * b \in Nat \ {0}
  OBVIOUS
<1>5. ReadbackSize(frame) = (q * RowAlignment) * h
  BY DEF ReadbackSize, RowPitch
<1> HIDE DEF q, w, h
<1>6. q * RowAlignment \in Nat \ {0}
  BY <1>1, <1>3, <1>4
<1> QED
  BY <1>1, <1>4, <1>5, <1>6

-----------------------------------------------------------------------------
(* The first error *)

LEMMA FirstOfErrors ==
  ASSUME NEW outcomes, NEW n \in Nat, DOMAIN outcomes = 1 .. n
  PROVE  /\ FirstError(outcomes) = "Ok" <=> \A i \in 1 .. n : outcomes[i] = "Ok"
         /\ FirstError(outcomes) # "Ok" =>
              \E i \in 1 .. n : outcomes[i] # "Ok" /\ FirstError(outcomes) = outcomes[i]
<1> DEFINE failed == {i \in DOMAIN outcomes : outcomes[i] # "Ok"}
<1>1. failed \in SUBSET Nat
  OBVIOUS
<1>2. failed # {} => Min(failed) \in failed
  <2> HIDE DEF failed
  <2> QED
    BY <1>1, LeastIsIn
<1>3. FirstError(outcomes) = IF failed = {} THEN "Ok" ELSE outcomes[Min(failed)]
  BY DEF FirstError
<1> QED
  BY <1>2, <1>3

-----------------------------------------------------------------------------
(* Frames *)

LEMMA FrameIsWhole ==
  ASSUME FramesAreConstructed, NEW f \in Frames
  PROVE  /\ f.canvas[1] \in Nat \ {0} /\ f.canvas[2] \in Nat \ {0}
         /\ Holds(f.plot, f.canvas)
         /\ {f.plot.x0, f.plot.x1, f.plot.y0, f.plot.y1} \subseteq Int
         /\ IsSequence(f.series)
         /\ \A s \in DOMAIN f.series :
              /\ IsSequence(f.series[s])
              /\ \A g \in DOMAIN f.series[s] : IsSequence(f.series[s][g])
         /\ IsSequence(f.fillBar.order)
         /\ ToSet(f.fillBar.order) = PaintSlots(f.fillBar.fills, f.fillBar.bars)
         /\ Len(f.fillBar.order) = Cardinality(PaintSlots(f.fillBar.fills, f.fillBar.bars))
         /\ \A i \in DOMAIN f.fillBar.fills :
              /\ IsSequence(f.fillBar.fills[i].points)
              /\ Len(f.fillBar.fills[i].points) >= 3
<1>1. IsFrame(f) /\ SpecAccepted(f) /\ FillBarAccepted(f.fillBar)
  BY DEF FramesAreConstructed
<1>2. SizeSupported(f.canvas) /\ Holds(f.plot, f.canvas)
  BY <1>1 DEF SpecAccepted
<1>3. f.canvas[1] \in 1 .. MaxDimension /\ f.canvas[2] \in 1 .. MaxDimension
  BY <1>2 DEF SizeSupported
<1>4. {f.plot.x0, f.plot.x1, f.plot.y0, f.plot.y1} \subseteq Int
  BY <1>1 DEF IsFrame
<1>5. /\ IsSequence(f.series)
      /\ \A s \in DOMAIN f.series :
           /\ IsSequence(f.series[s])
           /\ \A g \in DOMAIN f.series[s] : IsSequence(f.series[s][g])
  BY <1>1 DEF IsFrame, ToSet
<1>6. /\ IsSequence(f.fillBar.order)
      /\ ToSet(f.fillBar.order) = PaintSlots(f.fillBar.fills, f.fillBar.bars)
      /\ Len(f.fillBar.order) = Cardinality(PaintSlots(f.fillBar.fills, f.fillBar.bars))
  BY <1>1 DEF IsFrame, FillBarAccepted, IsPermutation
<1>7. \A i \in DOMAIN f.fillBar.fills :
        /\ IsSequence(f.fillBar.fills[i].points)
        /\ Len(f.fillBar.fills[i].points) >= 3
  BY <1>1 DEF IsFrame, FillBarAccepted, ToSet
<1>8. f.canvas[1] \in Nat \ {0} /\ f.canvas[2] \in Nat \ {0}
  BY <1>3
<1> QED
  BY <1>2, <1>4, <1>5, <1>6, <1>7, <1>8

LEMMA ImageIsFinite ==
  ASSUME NEW S, IsFiniteSet(S), NEW f, DOMAIN f = S
  PROVE  IsFiniteSet({f[x] : x \in S})
<1> DEFINE T == {f[x] : x \in S}
           g == [x \in S |-> f[x]]
<1>1. g \in Surjection(S, T)
  BY DEF Surjection
<1> HIDE DEF g, T
<1>2. IsFiniteSet(T)
  BY <1>1, FS_Surjection
<1> QED
  BY <1>2 DEF T

\* The triangles of the lines are a number.
LEMMA LinesAreCounted ==
  ASSUME FramesAreConstructed, NEW f \in Frames
  PROVE  LineTriangles(f) \in Nat
<1> DEFINE OfSegment(s, g) == {<<s, g, k>> : k \in PairsApart(f.series[s][g])}
           OfSeries(s) == UNION {OfSegment(s, g) : g \in DOMAIN f.series[s]}
           All == UNION {OfSeries(s) : s \in DOMAIN f.series}
<1>1. \A s \in DOMAIN f.series : \A g \in DOMAIN f.series[s] : IsFiniteSet(OfSegment(s, g))
  <2> SUFFICES ASSUME NEW s \in DOMAIN f.series, NEW g \in DOMAIN f.series[s]
               PROVE  IsFiniteSet(OfSegment(s, g))
    OBVIOUS
  <2> DEFINE points == f.series[s][g]
             S == PairsApart(points)
             m == [k \in S |-> <<s, g, k>>]
  <2>1. Len(points) \in Nat
    BY FrameIsWhole, SequenceDomain
  <2>2. S \subseteq 2 .. Len(points)
    BY DEF PairsApart
  <2>3. IsFiniteSet(S)
    <3>1. IsFiniteSet(2 .. Len(points))
      <4> HIDE DEF points
      <4> QED
        BY <2>1, FS_Interval
    <3> HIDE DEF S, points
    <3> QED
      BY <2>2, <3>1, FS_Subset
  <2>4. OfSegment(s, g) = {m[k] : k \in S} /\ DOMAIN m = S
    OBVIOUS
  <2> HIDE DEF m, S, OfSegment
  <2> QED
    BY <2>3, <2>4, ImageIsFinite
<1> HIDE DEF OfSegment
<1>2. \A s \in DOMAIN f.series : IsFiniteSet(OfSeries(s))
  <2> SUFFICES ASSUME NEW s \in DOMAIN f.series PROVE IsFiniteSet(OfSeries(s))
    OBVIOUS
  <2> DEFINE S == DOMAIN f.series[s]
             m == [g \in S |-> OfSegment(s, g)]
  <2>1. Len(f.series[s]) \in Nat /\ S = 1 .. Len(f.series[s])
    BY FrameIsWhole, SequenceDomain
  <2>2. IsFiniteSet(S)
    BY <2>1, FS_Interval
  <2>3. {OfSegment(s, g) : g \in S} = {m[g] : g \in S} /\ DOMAIN m = S
    OBVIOUS
  <2> HIDE DEF m
  <2>4. IsFiniteSet({OfSegment(s, g) : g \in S})
    <3> HIDE DEF S
    <3> QED
      BY <2>2, <2>3, ImageIsFinite
  <2> QED
    BY <1>1, <2>4, FS_UNION
<1> HIDE DEF OfSeries
<1>3. IsFiniteSet(All)
  <2> DEFINE S == DOMAIN f.series
             m == [s \in S |-> OfSeries(s)]
  <2>1. Len(f.series) \in Nat /\ S = 1 .. Len(f.series)
    BY FrameIsWhole, SequenceDomain
  <2>2. IsFiniteSet(S)
    BY <2>1, FS_Interval
  <2>3. {OfSeries(s) : s \in S} = {m[s] : s \in S} /\ DOMAIN m = S
    OBVIOUS
  <2> HIDE DEF m
  <2>4. IsFiniteSet({OfSeries(s) : s \in S})
    <3> HIDE DEF S
    <3> QED
      BY <2>2, <2>3, ImageIsFinite
  <2> QED
    BY <1>2, <2>4, FS_UNION
<1>4. LineTriangles(f) = 2 * Cardinality(All)
  BY DEF LineTriangles, OfSegment, OfSeries
<1> HIDE DEF All
<1>5. Cardinality(All) \in Nat
  BY <1>3, FS_CardinalityType
<1> QED
  BY <1>4, <1>5

\* What a frame that passed its own check keeps to.
LEMMA CheckedFrameFits ==
  ASSUME NEW f, FrameError(f) = "Ok"
  PROVE  /\ ~(f.canvas[1] * f.canvas[2] > MaxPixels)
         /\ ~(Len(f.series) > MaxSeries)
         /\ Totals(f).error = "Ok"
         /\ ~(Len(f.fillBar.fills) + Len(f.fillBar.bars) > MaxSegments)
         /\ ~(Totals(f).points + FillPoints(f.fillBar) > MaxPoints)
<1> DEFINE outcomes == <<
       Check(~GeometryValid(f), "FrameInvalid"),
       Check(f.canvas[1] * f.canvas[2] > MaxPixels, "CapacityExceeded"),
       Check(~MetadataValid(f), "FrameInvalid"),
       Check(f.text # f.layout, "FrameInvalid"),
       Check(~ThreeDOnCanvas(f), "FrameInvalid"),
       Check(Len(f.series) > MaxSeries, "CapacityExceeded"),
       Totals(f).error,
       FillBarError(f, Totals(f).points)>>
<1>1. FirstError(outcomes) = "Ok"
  BY DEF FrameError
<1>2. DOMAIN outcomes = 1 .. 8 /\ 8 \in Nat
  OBVIOUS
<1>3. \A i \in 1 .. 8 : outcomes[i] = "Ok"
  <2> HIDE DEF outcomes
  <2> QED
    BY <1>1, <1>2, FirstOfErrors
<1>4. outcomes[2] = "Ok" /\ outcomes[6] = "Ok" /\ outcomes[7] = "Ok" /\ outcomes[8] = "Ok"
  <2> HIDE DEF outcomes
  <2> QED
    BY <1>3
<1>5. /\ Check(f.canvas[1] * f.canvas[2] > MaxPixels, "CapacityExceeded") = "Ok"
      /\ Check(Len(f.series) > MaxSeries, "CapacityExceeded") = "Ok"
      /\ Totals(f).error = "Ok" /\ FillBarError(f, Totals(f).points) = "Ok"
  BY <1>4
<1> HIDE DEF outcomes
<1> DEFINE shapes == <<
    Check(~FillBarOnCanvas(f), "FrameInvalid"),
    Check(Len(f.fillBar.fills) + Len(f.fillBar.bars) > MaxSegments, "CapacityExceeded"),
    Check(Totals(f).points + FillPoints(f.fillBar) > MaxPoints, "CapacityExceeded")>>
<1>6. FirstError(shapes) = "Ok"
  BY <1>5 DEF FillBarError
<1>7. DOMAIN shapes = 1 .. 3 /\ 3 \in Nat
  OBVIOUS
<1>8. \A i \in 1 .. 3 : shapes[i] = "Ok"
  <2> HIDE DEF shapes
  <2> QED
    BY <1>6, <1>7, FirstOfErrors
<1>9. shapes[2] = "Ok" /\ shapes[3] = "Ok"
  <2> HIDE DEF shapes
  <2> QED
    BY <1>8
<1>10. /\ Check(Len(f.fillBar.fills) + Len(f.fillBar.bars) > MaxSegments,
                "CapacityExceeded") = "Ok"
       /\ Check(Totals(f).points + FillPoints(f.fillBar) > MaxPoints,
                "CapacityExceeded") = "Ok"
  BY <1>9
<1>11. \A p : Check(p, "CapacityExceeded") = "Ok" => ~p
  BY DEF Check
<1> QED
  BY <1>5, <1>10 DEF Check

\* What the checks before a render make sure of, and what they say.
LEMMA RenderIsChecked ==
  ASSUME FramesAreConstructed, RendererAssumption, NEW f \in Frames, NEW n
  PROVE  /\ RenderError(f, n) = "Ok" =>
              /\ ~lost
              /\ f.canvas[1] \in 1 .. MaxTexture /\ f.canvas[2] \in 1 .. MaxTexture
              /\ ~(LineTriangles(f) + Triangles(FillDraws(f, n)) > MaxBuffer)
              /\ ~(ReadbackSize(f) > MaxBuffer)
         /\ RenderError(f, n) \in {"Ok", "DeviceLost", "CapacityExceeded", "InvalidInput"}
         /\ FrameError(f) = "Ok" /\ RenderError(f, n) = "CapacityExceeded" => TooLarge(f, n)
<1> DEFINE prepare == <<
       Check(\/ f.canvas[1] \notin 1 .. MaxTexture
             \/ f.canvas[2] \notin 1 .. MaxTexture
             \/ f.canvas[1] * f.canvas[2] > MaxPixels, "CapacityExceeded"),
       Check(~MetadataPreparable(f), "InvalidInput"),
       Check(Len(f.series) > MaxSeries, "CapacityExceeded"),
       Check(Totals(f).error = "CapacityExceeded", "CapacityExceeded"),
       Check(Totals(f).error # "Ok", "InvalidInput"),
       Check(2 * LinePairs(f) > MaxTriangles, "CapacityExceeded")>>
       fills == <<
    Check(Len(f.fillBar.fills) + Len(f.fillBar.bars) > MaxSegments, "CapacityExceeded"),
    Check(Totals(f).points + FillPoints(f.fillBar) > MaxPoints, "CapacityExceeded"),
    Check(~FillBarOnCanvas(f), "InvalidInput"),
    Check(\E d \in ToSet(FillDraws(f, n)) : d.width > MaxSingle, "InvalidInput"),
    Check(Triangles(FillDraws(f, n)) > MaxTriangles, "CapacityExceeded")>>
       room == Check(\/ LineTriangles(f) + Triangles(FillDraws(f, n)) > MaxBuffer
                     \/ ReadbackSize(f) > MaxBuffer, "CapacityExceeded")
       outcomes == <<Check(lost, "DeviceLost"), PrepareError(f), FillDrawsError(f, n), room>>
<1>0. \A p, e : Check(p, e) \in {"Ok", e}
  BY DEF Check
<1>1. PrepareError(f) = FirstError(prepare) /\ DOMAIN prepare = 1 .. 6 /\ 6 \in Nat
  BY DEF PrepareError
<1>2. FillDrawsError(f, n) = FirstError(fills) /\ DOMAIN fills = 1 .. 5 /\ 5 \in Nat
  BY DEF FillDrawsError
<1>3. RenderError(f, n) = FirstError(outcomes) /\ DOMAIN outcomes = 1 .. 4 /\ 4 \in Nat
  BY DEF RenderError
<1>4. /\ FirstError(prepare) = "Ok" <=> \A i \in 1 .. 6 : prepare[i] = "Ok"
      /\ FirstError(prepare) # "Ok" =>
           \E i \in 1 .. 6 : prepare[i] # "Ok" /\ FirstError(prepare) = prepare[i]
  <2> HIDE DEF prepare
  <2> QED
    BY <1>1, FirstOfErrors
<1>5. /\ FirstError(fills) = "Ok" <=> \A i \in 1 .. 5 : fills[i] = "Ok"
      /\ FirstError(fills) # "Ok" =>
           \E i \in 1 .. 5 : fills[i] # "Ok" /\ FirstError(fills) = fills[i]
  <2> HIDE DEF fills
  <2> QED
    BY <1>2, FirstOfErrors
<1>6. /\ FirstError(outcomes) = "Ok" <=> \A i \in 1 .. 4 : outcomes[i] = "Ok"
      /\ FirstError(outcomes) # "Ok" =>
           \E i \in 1 .. 4 : outcomes[i] # "Ok" /\ FirstError(outcomes) = outcomes[i]
  <2> HIDE DEF outcomes
  <2> QED
    BY <1>3, FirstOfErrors
<1>7. /\ outcomes[1] = Check(lost, "DeviceLost") /\ outcomes[2] = PrepareError(f)
      /\ outcomes[3] = FillDrawsError(f, n) /\ outcomes[4] = room
  OBVIOUS
<1>8. ASSUME RenderError(f, n) = "Ok"
      PROVE  /\ ~lost
             /\ f.canvas[1] \in 1 .. MaxTexture /\ f.canvas[2] \in 1 .. MaxTexture
             /\ ~(LineTriangles(f) + Triangles(FillDraws(f, n)) > MaxBuffer)
             /\ ~(ReadbackSize(f) > MaxBuffer)
  <2>1. Check(lost, "DeviceLost") = "Ok" /\ PrepareError(f) = "Ok" /\ room = "Ok"
    <3>1. outcomes[1] = "Ok" /\ outcomes[2] = "Ok" /\ outcomes[4] = "Ok"
      <4> HIDE DEF outcomes
      <4> QED
        BY <1>3, <1>6, <1>8
    <3> HIDE DEF outcomes
    <3> QED
      BY <1>7, <3>1
  <2>2. prepare[1] = "Ok"
    <3> HIDE DEF prepare
    <3> QED
      BY <1>1, <1>4, <2>1
  <2> QED
    BY <2>1, <2>2 DEF Check
<1>9. PrepareError(f) \in {"Ok", "CapacityExceeded", "InvalidInput"}
  <2>0. /\ prepare[1] \in {"Ok", "CapacityExceeded", "InvalidInput"}
        /\ prepare[2] \in {"Ok", "CapacityExceeded", "InvalidInput"}
        /\ prepare[3] \in {"Ok", "CapacityExceeded", "InvalidInput"}
        /\ prepare[4] \in {"Ok", "CapacityExceeded", "InvalidInput"}
        /\ prepare[5] \in {"Ok", "CapacityExceeded", "InvalidInput"}
        /\ prepare[6] \in {"Ok", "CapacityExceeded", "InvalidInput"}
    BY DEF Check
  <2>1. \A i \in 1 .. 6 : prepare[i] \in {"Ok", "CapacityExceeded", "InvalidInput"}
    <3>1. \A i \in 1 .. 6 : i \in {1, 2, 3, 4, 5, 6}
      OBVIOUS
    <3> HIDE DEF prepare
    <3> QED
      BY <2>0, <3>1
  <2> HIDE DEF prepare
  <2> QED
    BY <1>1, <1>4, <2>1
<1>10. FillDrawsError(f, n) \in {"Ok", "CapacityExceeded", "InvalidInput"}
  <2>0. /\ fills[1] \in {"Ok", "CapacityExceeded", "InvalidInput"}
        /\ fills[2] \in {"Ok", "CapacityExceeded", "InvalidInput"}
        /\ fills[3] \in {"Ok", "CapacityExceeded", "InvalidInput"}
        /\ fills[4] \in {"Ok", "CapacityExceeded", "InvalidInput"}
        /\ fills[5] \in {"Ok", "CapacityExceeded", "InvalidInput"}
    BY DEF Check
  <2>1. \A i \in 1 .. 5 : fills[i] \in {"Ok", "CapacityExceeded", "InvalidInput"}
    <3>1. \A i \in 1 .. 5 : i \in {1, 2, 3, 4, 5}
      OBVIOUS
    <3> HIDE DEF fills
    <3> QED
      BY <2>0, <3>1
  <2> HIDE DEF fills
  <2> QED
    BY <1>2, <1>5, <2>1
<1>11. RenderError(f, n) \in {"Ok", "DeviceLost", "CapacityExceeded", "InvalidInput"}
  <2>1. room \in {"Ok", "CapacityExceeded"} /\ Check(lost, "DeviceLost") \in {"Ok", "DeviceLost"}
    BY <1>0
  <2> HIDE DEF outcomes, room
  <2> QED
    BY <1>3, <1>6, <1>7, <1>9, <1>10, <2>1
<1>12. ASSUME FrameError(f) = "Ok", RenderError(f, n) = "CapacityExceeded"
       PROVE  TooLarge(f, n)
  <2>0. "CapacityExceeded" # "Ok" /\ "InvalidInput" # "CapacityExceeded"
        /\ "DeviceLost" # "CapacityExceeded"
    OBVIOUS
  <2>1. CASE PrepareError(f) = "CapacityExceeded"
    <3>1. PICK i \in 1 .. 6 : prepare[i] = "CapacityExceeded"
      <4> HIDE DEF prepare
      <4> QED
        BY <1>1, <1>4, <2>0, <2>1
    <3>2. prepare[1] = "CapacityExceeded" \/ prepare[6] = "CapacityExceeded"
      <4>1. prepare[2] # "CapacityExceeded" /\ prepare[5] # "CapacityExceeded"
        BY <2>0 DEF Check
      <4>2. prepare[3] # "CapacityExceeded" /\ prepare[4] # "CapacityExceeded"
        BY <1>12, <2>0, CheckedFrameFits DEF Check
      <4> HIDE DEF prepare
      <4> QED
        BY <3>1, <4>1, <4>2
    <3>3. CASE prepare[1] = "CapacityExceeded"
      <4>1. f.canvas[1] \notin 1 .. MaxTexture \/ f.canvas[2] \notin 1 .. MaxTexture
        BY <1>12, <2>0, <3>3, CheckedFrameFits DEF Check
      <4>2. f.canvas[1] > MaxTexture \/ f.canvas[2] > MaxTexture
        BY <4>1, FrameIsWhole DEF RendererAssumption
      <4> QED
        BY <4>2 DEF TooLarge
    <3>4. CASE prepare[6] = "CapacityExceeded"
      BY <2>0, <3>4 DEF Check, TooLarge
    <3> QED
      BY <3>2, <3>3, <3>4
  <2>2. CASE FillDrawsError(f, n) = "CapacityExceeded"
    <3>1. PICK i \in 1 .. 5 : fills[i] = "CapacityExceeded"
      <4> HIDE DEF fills
      <4> QED
        BY <1>2, <1>5, <2>0, <2>2
    <3>2. fills[5] = "CapacityExceeded"
      <4>1. fills[3] # "CapacityExceeded" /\ fills[4] # "CapacityExceeded"
        BY <2>0 DEF Check
      <4>2. fills[1] # "CapacityExceeded" /\ fills[2] # "CapacityExceeded"
        BY <1>12, <2>0, CheckedFrameFits DEF Check
      <4> HIDE DEF fills
      <4> QED
        BY <3>1, <4>1, <4>2
    <3> QED
      BY <2>0, <3>2 DEF Check, TooLarge
  <2>3. CASE room = "CapacityExceeded"
    BY <2>0, <2>3 DEF Check, TooLarge
  <2>4. Check(lost, "DeviceLost") # "CapacityExceeded"
    BY <2>0 DEF Check
  <2>5. PICK i \in 1 .. 4 : outcomes[i] = "CapacityExceeded"
    <3> HIDE DEF outcomes
    <3> QED
      BY <1>3, <1>6, <1>12, <2>0
  <2> HIDE DEF outcomes, room
  <2> QED
    BY <1>7, <2>1, <2>2, <2>3, <2>4, <2>5
<1> QED
  BY <1>8, <1>11, <1>12

-----------------------------------------------------------------------------
(* The steps of a render *)

IsCall(c) ==
  /\ DOMAIN c = {"gpu", "raised", "error", "fault"}
  /\ ObjectsTyped(c.gpu)
  /\ c.raised \subseteq {"memory", "validation"}

\* Unless memory ran out, no step failed and none will fail for what it finds.
Clean(c) == "memory" \in c.raised \/ (c.raised = {} /\ ObjectsUsable(c.gpu))

\* A step that returns no error and forgets none that was raised.
Proceeds(c, d) ==
  /\ IsCall(d) /\ d.error = "Ok" /\ d.fault = c.fault
  /\ c.raised \subseteq d.raised

Parts == {"target", "vertex", "readback", "uniform"}

LEMMA TargetIsEnsured ==
  ASSUME RendererAssumption, NEW c, IsCall(c), c.error = "Ok",
         NEW w \in 1 .. MaxTexture, NEW h \in 1 .. MaxTexture
  PROVE  LET d == EnsureTarget(c, w, h)
         IN /\ Proceeds(c, d)
            /\ d.gpu.target.w >= w /\ d.gpu.target.h >= h
            /\ \A part \in Parts \ {"target"} : d.gpu[part] = c.gpu[part]
            /\ Clean(c) => Clean(d)
<1> DEFINE d == EnsureTarget(c, w, h)
           t == c.gpu.target
           gw == Grown(w, t.w, MaxTexture)
           gh == Grown(h, t.h, MaxTexture)
           new == [w |-> gw, h |-> gh, valid |-> c.fault # "target", paint |-> <<>>]
           more == IF c.fault = "target" THEN {"memory"} ELSE {}
<1>1. /\ MaxTexture \in Nat \ {0} /\ t.w \in 0 .. MaxTexture /\ t.h \in 0 .. MaxTexture
      /\ DOMAIN c.gpu = Parts
  BY DEF RendererAssumption, IsCall, ObjectsTyped, Parts
<1>2. gw \in w .. MaxTexture /\ gh \in h .. MaxTexture
  <2> HIDE DEF t
  <2> QED
    BY <1>1, GrownIsEnough
<1>3. CASE t.w >= w /\ t.h >= h
  <2>1. d = c
    BY <1>3 DEF EnsureTarget
  <2> QED
    BY <1>3, <2>1 DEF Proceeds
<1>4. CASE ~(t.w >= w /\ t.h >= h)
  <2>1. d = [c EXCEPT !.gpu.target = new, !.raised = @ \cup more]
    <3>1. <<gw, gh>>[1] = gw /\ <<gw, gh>>[2] = gh /\ 0 \notin {gw, gh}
      BY <1>2
    <3> HIDE DEF gw, gh
    <3> QED
      BY <1>4, <3>1 DEF EnsureTarget, gw, gh
  <2> HIDE DEF d, gw, gh
  <2>2. /\ DOMAIN d = {"gpu", "raised", "error", "fault"}
        /\ d.gpu = [c.gpu EXCEPT !.target = new] /\ d.raised = c.raised \cup more
        /\ d.error = "Ok" /\ d.fault = c.fault
    BY <2>1 DEF IsCall
  <2>3. /\ DOMAIN d.gpu = Parts /\ d.gpu.target = new
        /\ \A part \in Parts \ {"target"} : d.gpu[part] = c.gpu[part]
    BY <1>1, <2>2 DEF Parts
  <2>4. /\ d.gpu.vertex = c.gpu.vertex /\ d.gpu.readback = c.gpu.readback
        /\ d.gpu["vertex"] = c.gpu["vertex"] /\ d.gpu["readback"] = c.gpu["readback"]
    BY <2>3 DEF Parts
  <2>5. ObjectsTyped(d.gpu)
    <3>1. /\ DOMAIN d.gpu.target = {"w", "h", "valid", "paint"}
          /\ d.gpu.target.w \in 0 .. MaxTexture /\ d.gpu.target.h \in 0 .. MaxTexture
      BY <1>2, <2>3
    <3> QED
      BY <2>3, <2>4, <3>1 DEF ObjectsTyped, IsCall, Parts
  <2>6. Clean(c) => Clean(d)
    <3>1. CASE c.fault = "target"
      <4>1. "memory" \in d.raised
        BY <2>2, <3>1
      <4> QED
        BY <4>1 DEF Clean
    <3>2. CASE c.fault # "target"
      <4>1. d.raised = c.raised
        BY <2>2, <3>2
      <4>2. new.valid
        BY <3>2
      <4>3. d.gpu.target.valid
        BY <2>3, <4>2
      <4>4. ObjectsUsable(c.gpu) => ObjectsUsable(d.gpu)
        BY <2>4, <4>3, Zenon DEF ObjectsUsable
      <4> QED
        BY <4>1, <4>4, Zenon DEF Clean
    <3> QED
      BY <3>1, <3>2
  <2>7. Proceeds(c, d)
    BY <2>2, <2>5 DEF Proceeds, IsCall
  <2>8. d.gpu.target.w >= w /\ d.gpu.target.h >= h
    BY <1>2, <2>3
  <2> QED
    BY <2>3, <2>6, <2>7, <2>8, Zenon DEF d
<1> QED
  BY <1>3, <1>4

LEMMA BufferIsEnsured ==
  ASSUME RendererAssumption, NEW c, IsCall(c), c.error = "Ok",
         NEW which \in {"vertex", "readback"}, NEW required \in 1 .. MaxBuffer
  PROVE  LET d == EnsureBuffer(c, which, required)
         IN /\ Proceeds(c, d)
            /\ d.gpu[which].size >= required /\ d.gpu[which].size # 0
            /\ \A part \in Parts \ {which} : d.gpu[part] = c.gpu[part]
            /\ Clean(c) => Clean(d)
<1> DEFINE d == EnsureBuffer(c, which, required)
           b == c.gpu[which]
           size == Grown(required, b.size, MaxBuffer)
           new == [size |-> size, valid |-> c.fault # which, data |-> <<>>, held |-> FALSE]
           more == IF c.fault = which THEN {"memory"} ELSE {}
<1>1. MaxBuffer \in Nat \ {0} /\ b.size \in 0 .. MaxBuffer /\ DOMAIN c.gpu = Parts
  BY DEF RendererAssumption, IsCall, ObjectsTyped, Parts
<1>2. size \in required .. MaxBuffer
  <2> HIDE DEF b
  <2> QED
    BY <1>1, GrownIsEnough
<1>3. CASE b.size # 0 /\ b.size >= required
  <2>1. d = c
    BY <1>3 DEF EnsureBuffer
  <2> QED
    BY <1>3, <2>1 DEF Proceeds
<1>4. CASE ~(b.size # 0 /\ b.size >= required)
  <2>1. d = [c EXCEPT !.gpu[which] = new, !.raised = @ \cup more]
    <3>1. size # 0
      BY <1>2
    <3> HIDE DEF size
    <3> QED
      BY <1>4, <3>1 DEF EnsureBuffer, size
  <2> HIDE DEF d, size
  <2>2. /\ DOMAIN d = {"gpu", "raised", "error", "fault"}
        /\ d.gpu = [c.gpu EXCEPT ![which] = new] /\ d.raised = c.raised \cup more
        /\ d.error = "Ok" /\ d.fault = c.fault
    BY <2>1 DEF IsCall
  <2>3. /\ DOMAIN d.gpu = Parts /\ d.gpu[which] = new
        /\ \A part \in Parts \ {which} : d.gpu[part] = c.gpu[part]
    BY <1>1, <2>2 DEF Parts
  <2>4. /\ d.gpu.target = c.gpu.target
        /\ which = "vertex" => d.gpu.readback = c.gpu.readback /\ d.gpu.vertex = new
        /\ which = "readback" => d.gpu.vertex = c.gpu.vertex /\ d.gpu.readback = new
    BY <2>3 DEF Parts
  <2>5. ObjectsTyped(d.gpu)
    <3>1. DOMAIN new = {"size", "valid", "data", "held"} /\ new.size \in 0 .. MaxBuffer
          /\ new.data = <<>>
      BY <1>2
    <3>2. IsSequence(<<>>)
      BY ShortSequences
    <3> HIDE DEF new
    <3>3. IsSequence(d.gpu.vertex.data)
      BY <2>4, <3>1, <3>2 DEF ObjectsTyped, IsCall
    <3>4. \A k \in {"vertex", "readback"} :
            /\ DOMAIN d.gpu[k] = {"size", "valid", "data", "held"}
            /\ d.gpu[k].size \in 0 .. MaxBuffer
      <4> SUFFICES ASSUME NEW k \in {"vertex", "readback"}
                   PROVE  /\ DOMAIN d.gpu[k] = {"size", "valid", "data", "held"}
                          /\ d.gpu[k].size \in 0 .. MaxBuffer
        OBVIOUS
      <4>1. d.gpu[k] = IF k = which THEN new ELSE c.gpu[k]
        BY <2>3 DEF Parts
      <4> QED
        BY <3>1, <4>1 DEF ObjectsTyped, IsCall
    <3> QED
      BY <2>3, <2>4, <3>3, <3>4 DEF ObjectsTyped, IsCall, Parts
  <2>6. Clean(c) => Clean(d)
    <3>1. CASE c.fault = which
      <4>1. "memory" \in d.raised
        BY <2>2, <3>1
      <4> QED
        BY <4>1 DEF Clean
    <3>2. CASE c.fault # which
      <4>1. d.raised = c.raised
        BY <2>2, <3>2
      <4>2. new.valid /\ ~new.held
        BY <3>2
      <4> HIDE DEF new
      <4>3. d.gpu[which].valid /\ ~d.gpu[which].held
        BY <2>3, <4>2
      <4>4. which = "vertex" => d.gpu["vertex"].valid /\ d.gpu.readback = c.gpu.readback
        BY <2>4, <4>3
      <4>5. which = "readback" => /\ d.gpu["readback"].valid /\ ~d.gpu["readback"].held
                                 /\ d.gpu.vertex = c.gpu.vertex
        BY <2>4, <4>3
      <4>6. d.gpu.vertex = d.gpu["vertex"] /\ d.gpu.readback = d.gpu["readback"]
        OBVIOUS
      <4>7. ObjectsUsable(c.gpu) => ObjectsUsable(d.gpu)
        <5>1. CASE which = "vertex"
          BY <2>4, <4>4, <4>6, <5>1, Zenon DEF ObjectsUsable
        <5>2. CASE which = "readback"
          BY <2>4, <4>5, <4>6, <5>2, Zenon DEF ObjectsUsable
        <5> QED
          BY <5>1, <5>2
      <4> QED
        BY <4>1, <4>7, Zenon DEF Clean
    <3> QED
      BY <3>1, <3>2
  <2>7. Proceeds(c, d)
    BY <2>2, <2>5 DEF Proceeds, IsCall
  <2>8. d.gpu[which].size >= required /\ d.gpu[which].size # 0
    BY <1>2, <2>3
  <2> QED
    BY <2>3, <2>6, <2>7, <2>8, Zenon DEF d
<1> QED
  BY <1>3, <1>4

LEMMA VerticesAreWritten ==
  ASSUME NEW c, IsCall(c), c.error = "Ok", NEW data, IsSequence(data), data # <<>>
  PROVE  LET d == WriteVertices(c, data)
         IN /\ Proceeds(c, d)
            /\ d.gpu.vertex.size = c.gpu.vertex.size
            /\ \A part \in Parts \ {"vertex"} : d.gpu[part] = c.gpu[part]
            /\ d.raised = {} =>
                 \E rest : IsSequence(rest) /\ d.gpu.vertex.data = data \o rest
            /\ Clean(c) /\ c.gpu.vertex.size # 0 => Clean(d)
<1> DEFINE d == WriteVertices(c, data)
           old == c.gpu.vertex.data
           rest == SubSeq(old, Len(data) + 1, Len(old))
           all == data \o rest
<1>1. IsSequence(old) /\ DOMAIN c.gpu = Parts
      /\ DOMAIN c.gpu.vertex = {"size", "valid", "data", "held"}
      /\ DOMAIN c.gpu["vertex"] = {"size", "valid", "data", "held"}
  BY DEF IsCall, ObjectsTyped, Parts
<1>2. IsSequence(rest)
  <2> DEFINE A == ToSet(old)
  <2>1. old \in Seq(A) /\ Len(data) \in Nat
    BY <1>1, SequenceDomain DEF IsSequence
  <2> HIDE DEF A, old
  <2>2. rest \in Seq(A)
    BY <2>1
  <2> QED
    BY <2>2, SeqIsSequence
<1>3. IsSequence(all)
  BY <1>2, ConcatIsSequence
<1>4. CASE ~c.gpu.vertex.valid
  <2>1. d = [c EXCEPT !.raised = @ \cup {"validation"}]
    BY <1>4 DEF WriteVertices, Raise
  <2>2. /\ DOMAIN d = DOMAIN c /\ d.gpu = c.gpu /\ d.raised = c.raised \cup {"validation"}
        /\ d.error = c.error /\ d.fault = c.fault
    BY <2>1 DEF IsCall
  <2>3. d.raised # {}
    BY <2>2
  <2> QED
    BY <1>4, <2>2, <2>3 DEF Proceeds, IsCall, Clean, ObjectsUsable
<1>5. CASE c.gpu.vertex.valid
  <2>1. d = [c EXCEPT !.gpu.vertex.data = all]
    BY <1>5 DEF WriteVertices
  <2> HIDE DEF d, all
  <2>2. /\ DOMAIN d = {"gpu", "raised", "error", "fault"} /\ d.raised = c.raised
        /\ d.error = "Ok" /\ d.fault = c.fault
        /\ d.gpu = [c.gpu EXCEPT !.vertex = [c.gpu.vertex EXCEPT !.data = all]]
    BY <2>1 DEF IsCall
  <2>3. /\ DOMAIN d.gpu = Parts
        /\ d.gpu.vertex = [c.gpu.vertex EXCEPT !.data = all]
        /\ d.gpu["vertex"] = d.gpu.vertex /\ c.gpu["vertex"] = c.gpu.vertex
        /\ \A part \in Parts \ {"vertex"} : d.gpu[part] = c.gpu[part]
    BY <1>1, <2>2 DEF Parts
  <2>4. /\ DOMAIN d.gpu.vertex = {"size", "valid", "data", "held"}
        /\ d.gpu.vertex.data = all /\ d.gpu.vertex.size = c.gpu.vertex.size
        /\ d.gpu.vertex.valid = c.gpu.vertex.valid
    BY <1>1, <2>3
  <2>5. d.gpu.target = c.gpu.target /\ d.gpu.readback = c.gpu.readback
        /\ d.gpu["readback"] = c.gpu["readback"]
    BY <2>3 DEF Parts
  <2>6. ObjectsTyped(d.gpu)
    BY <1>3, <2>3, <2>4, <2>5 DEF ObjectsTyped, IsCall, Parts
  <2>7. Clean(c) => Clean(d)
    BY <2>2, <2>4, <2>5 DEF Clean, ObjectsUsable
  <2>8. Proceeds(c, d)
    BY <2>2, <2>6 DEF Proceeds, IsCall
  <2>9. \E more : IsSequence(more) /\ d.gpu.vertex.data = data \o more
    BY <1>2, <2>4 DEF all
  <2> QED
    BY <2>3, <2>4, <2>7, <2>8, <2>9, Zenon DEF d
<1> QED
  BY <1>4, <1>5

LEMMA UniformIsWritten ==
  ASSUME NEW c, IsCall(c), c.error = "Ok", NEW uniform
  PROVE  LET d == WriteUniform(c, uniform)
         IN /\ Proceeds(c, d) /\ d.raised = c.raised
            /\ d.gpu.uniform = uniform
            /\ \A part \in Parts \ {"uniform"} : d.gpu[part] = c.gpu[part]
            /\ Clean(c) => Clean(d)
<1> DEFINE d == WriteUniform(c, uniform)
<1>1. d = [c EXCEPT !.gpu.uniform = uniform]
  BY DEF WriteUniform
<1> HIDE DEF d
<1>2. /\ DOMAIN d = {"gpu", "raised", "error", "fault"} /\ d.raised = c.raised
      /\ d.error = "Ok" /\ d.fault = c.fault
      /\ d.gpu = [c.gpu EXCEPT !.uniform = uniform] /\ DOMAIN c.gpu = Parts
  BY <1>1 DEF IsCall, ObjectsTyped, Parts
<1>3. /\ DOMAIN d.gpu = Parts /\ d.gpu.uniform = uniform
      /\ \A part \in Parts \ {"uniform"} : d.gpu[part] = c.gpu[part]
  BY <1>2 DEF Parts
<1>4. /\ d.gpu.target = c.gpu.target /\ d.gpu.readback = c.gpu.readback
      /\ d.gpu.vertex = c.gpu.vertex
      /\ d.gpu["vertex"] = c.gpu["vertex"] /\ d.gpu["readback"] = c.gpu["readback"]
  BY <1>3 DEF Parts
<1>5. ObjectsTyped(d.gpu)
  BY <1>3, <1>4 DEF ObjectsTyped, IsCall, Parts
<1>6. Clean(c) => Clean(d)
  BY <1>2, <1>4 DEF Clean, ObjectsUsable
<1>7. Proceeds(c, d)
  BY <1>2, <1>5 DEF Proceeds, IsCall
<1> QED
  BY <1>2, <1>3, <1>6, <1>7, Zenon DEF d

\* What a submission leaves on the target, and what it must find.
PaintOver(c, p, passes) ==
  IF passes = <<>> THEN c.gpu.target.paint
  ELSE Cleared(p, c.gpu.target) \o Painted(p, c.gpu)

Fits(c, p, passes, extent) ==
  /\ c.gpu.target.w # 0
  /\ passes # <<>> => Holds(p.scissor, <<c.gpu.target.w, c.gpu.target.h>>)
  /\ extent # <<0, 0>> =>
       /\ c.gpu.readback.size # 0
       /\ extent[1] <= c.gpu.target.w /\ extent[2] <= c.gpu.target.h

\* The sizes and the vertices stay.
Keeps(c, d) ==
  /\ d.gpu.target.w = c.gpu.target.w /\ d.gpu.target.h = c.gpu.target.h
  /\ d.gpu.vertex = c.gpu.vertex
  /\ d.gpu.readback.size = c.gpu.readback.size

LEMMA WorkIsSubmitted ==
  ASSUME NEW c, IsCall(c), c.error = "Ok", NEW p, NEW passes,
         passes = <<>> \/ passes = <<p>>, NEW extent
  PROVE  LET d == Submit(c, passes, extent)
         IN /\ Proceeds(c, d) /\ Keeps(c, d) /\ d.gpu.uniform = c.gpu.uniform
            /\ d.raised = {} =>
                 /\ d.gpu.target.paint = PaintOver(c, p, passes)
                 /\ extent # <<0, 0>> => d.gpu.readback.data = PaintOver(c, p, passes)
            /\ Clean(c) /\ Fits(c, p, passes, extent) => Clean(d)
<1> DEFINE d == Submit(c, passes, extent)
           paint == IF passes = <<>> THEN c.gpu.target.paint
                    ELSE Cleared(p, c.gpu.target) \o Painted(p, c.gpu)
           painted == IF passes = <<>> THEN c.gpu
                      ELSE [c.gpu EXCEPT !.target = [c.gpu.target EXCEPT !.paint = paint]]
           copied == [painted EXCEPT !.readback = [c.gpu.readback EXCEPT !.data = paint]]
<1>0. /\ DOMAIN c = {"gpu", "raised", "error", "fault"} /\ DOMAIN c.gpu = Parts
      /\ DOMAIN c.gpu.target = {"w", "h", "valid", "paint"}
      /\ DOMAIN c.gpu["readback"] = {"size", "valid", "data", "held"}
  BY DEF IsCall, ObjectsTyped, Parts
<1>1. <<p>> # <<>> /\ Head(<<p>>) = p /\ DOMAIN <<p>> = {1} /\ <<p>>[1] = p /\ DOMAIN <<>> = {}
  OBVIOUS
<1>2. CASE ~Usable(c, passes, extent)
  <2>1. d = [c EXCEPT !.raised = @ \cup {"validation"}]
    BY <1>2 DEF Submit, Raise
  <2> HIDE DEF d
  <2>2. /\ DOMAIN d = DOMAIN c /\ d.gpu = c.gpu /\ d.raised = c.raised \cup {"validation"}
        /\ d.error = c.error /\ d.fault = c.fault
    BY <1>0, <2>1
  <2>3. d.raised # {} /\ Proceeds(c, d)
    BY <2>2 DEF Proceeds, IsCall
  <2>4. ASSUME Clean(c), Fits(c, p, passes, extent) PROVE Clean(d)
    <3>1. ~ObjectsUsable(c.gpu)
      <4> SUFFICES ASSUME ObjectsUsable(c.gpu) PROVE FALSE
        OBVIOUS
      <4>1. \A i \in DOMAIN passes : passes[i] = p /\ passes # <<>>
        BY <1>1
      <4>2. /\ c.gpu.target.valid
            /\ c.gpu.vertex.size # 0 => c.gpu.vertex.valid
            /\ extent # <<0, 0>> => c.gpu.readback.valid /\ ~c.gpu.readback.held
        BY <2>4, Zenon DEF ObjectsUsable, Fits
      <4>3. \A i \in DOMAIN passes :
              /\ c.gpu.vertex.size # 0 => c.gpu.vertex.valid
              /\ Holds(passes[i].scissor, <<c.gpu.target.w, c.gpu.target.h>>)
        BY <2>4, <4>1, <4>2, Zenon DEF Fits
      <4> QED
        BY <1>2, <2>4, <4>2, <4>3, Zenon DEF Usable, Fits
    <3>2. "memory" \in c.raised
      BY <2>4, <3>1 DEF Clean
    <3> QED
      BY <2>2, <3>2 DEF Clean
  <2>5. Keeps(c, d)
    BY <2>2 DEF Keeps
  <2> QED
    BY <2>2, <2>3, <2>4, <2>5, Zenon DEF d
<1>3. CASE Usable(c, passes, extent)
  <2> DEFINE g == IF extent = <<0, 0>> THEN painted ELSE copied
  <2>1. d = [c EXCEPT !.gpu = g]
    <3>1. CASE passes = <<>>
      BY <1>0, <1>3, <3>1 DEF Submit, Parts
    <3>2. CASE passes # <<>>
      <4>1. Head(passes) = p
        BY <1>1, <3>2
      <4>2. painted.target.paint = paint /\ painted.readback = c.gpu.readback
        BY <1>0, <3>2 DEF Parts
      <4>3. d = [c EXCEPT !.gpu = IF extent = <<0, 0>> THEN painted
                                  ELSE [painted EXCEPT !.readback.data = painted.target.paint]]
        <5> DEFINE done == Cleared(p, c.gpu.target) \o Painted(p, c.gpu)
                   after == [c.gpu EXCEPT !.target.paint = done]
        <5>1. d = [c EXCEPT !.gpu = IF extent = <<0, 0>> THEN after
                                    ELSE [after EXCEPT !.readback.data = after.target.paint]]
          <6> DEFINE head == [c.gpu EXCEPT !.target.paint =
                                Cleared(Head(passes), c.gpu.target) \o Painted(Head(passes), c.gpu)]
                     chosen == IF passes = <<>> THEN c.gpu ELSE head
          <6>1. d = IF c.error # "Ok" THEN c
                    ELSE IF ~Usable(c, passes, extent) THEN Raise(c, "validation")
                    ELSE [c EXCEPT !.gpu = IF extent = <<0, 0>> THEN chosen
                                           ELSE [chosen EXCEPT !.readback.data = chosen.target.paint]]
            BY Zenon DEF Submit
          <6>2. chosen = head /\ head = after
            BY <3>2, <4>1, Zenon
          <6> HIDE DEF chosen, after, d
          <6> QED
            <7>1. d = [c EXCEPT !.gpu = IF extent = <<0, 0>> THEN chosen
                                        ELSE [chosen EXCEPT !.readback.data = chosen.target.paint]]
              BY <1>3, <6>1, Zenon
            <7>2. chosen = after
              BY <6>2, Zenon
            <7> QED
              BY <7>1, <7>2, Zenon
        <5>2. painted = after
          <6>1. paint = done
            BY <3>2
          <6>2. painted = [c.gpu EXCEPT !.target = [c.gpu.target EXCEPT !.paint = paint]]
            BY <3>2, Zenon
          <6> HIDE DEF paint, done, painted
          <6> QED
            BY <6>1, <6>2
        <5> QED
          BY <5>1, <5>2, Zenon
      <4> HIDE DEF painted, paint, d
      <4>4. [painted EXCEPT !.readback.data = painted.target.paint]
            = [painted EXCEPT !.readback = [painted.readback EXCEPT !.data = paint]]
        BY <4>2
      <4>5. copied = [painted EXCEPT !.readback = [painted.readback EXCEPT !.data = paint]]
        BY <4>2
      <4> QED
        BY <4>3, <4>4, <4>5, Zenon
    <3> QED
      BY <3>1, <3>2
  <2> HIDE DEF d
  <2>2. /\ DOMAIN d = {"gpu", "raised", "error", "fault"} /\ d.raised = c.raised
        /\ d.error = "Ok" /\ d.fault = c.fault /\ d.gpu = g
    BY <1>0, <2>1
  <2> HIDE DEF paint
  <2>3. /\ DOMAIN g = Parts /\ g["vertex"] = c.gpu["vertex"] /\ g["uniform"] = c.gpu["uniform"]
        /\ passes = <<>> => g["target"] = c.gpu["target"] /\ paint = c.gpu["target"].paint
        /\ passes # <<>> => g["target"] = [c.gpu["target"] EXCEPT !.paint = paint]
        /\ extent = <<0, 0>> => g["readback"] = c.gpu["readback"]
        /\ extent # <<0, 0>> => g["readback"] = [c.gpu["readback"] EXCEPT !.data = paint]
    <3>0. passes = <<>> => paint = c.gpu["target"].paint
      BY DEF paint
    <3> HIDE DEF paint
    <3> DEFINE other == [c.gpu EXCEPT !.target = [c.gpu.target EXCEPT !.paint = paint]]
    <3>1. /\ DOMAIN other = Parts /\ other["vertex"] = c.gpu["vertex"]
          /\ other["uniform"] = c.gpu["uniform"] /\ other["readback"] = c.gpu["readback"]
          /\ other["target"] = [c.gpu["target"] EXCEPT !.paint = paint]
      BY <1>0 DEF Parts
    <3> HIDE DEF other
    <3>2. /\ DOMAIN painted = Parts /\ painted["vertex"] = c.gpu["vertex"]
          /\ painted["uniform"] = c.gpu["uniform"] /\ painted["readback"] = c.gpu["readback"]
          /\ passes = <<>> => painted["target"] = c.gpu["target"]
          /\ passes # <<>> => painted["target"] = [c.gpu["target"] EXCEPT !.paint = paint]
      <4>1. painted = IF passes = <<>> THEN c.gpu ELSE other
        BY DEF other
      <4> HIDE DEF painted
      <4> QED
        BY <1>0, <3>1, <4>1 
    <3> HIDE DEF painted
    <3> QED
      BY <3>0, <3>2 DEF Parts
  <2> HIDE DEF g
  <2>4. /\ DOMAIN g["target"] = {"w", "h", "valid", "paint"} /\ g["target"].paint = paint
        /\ g["target"].w = c.gpu["target"].w /\ g["target"].h = c.gpu["target"].h
        /\ g["target"].valid = c.gpu["target"].valid
    BY <1>0, <2>3
  <2>5. /\ DOMAIN g["readback"] = {"size", "valid", "data", "held"}
        /\ g["readback"].size = c.gpu["readback"].size
        /\ g["readback"].valid = c.gpu["readback"].valid
        /\ g["readback"].held = c.gpu["readback"].held
        /\ extent # <<0, 0>> => g["readback"].data = paint
    <3>1. CASE extent = <<0, 0>>
      BY <1>0, <2>3, <3>1
    <3>2. CASE extent # <<0, 0>>
      BY <1>0, <2>3, <3>2
    <3> QED
      BY <3>1, <3>2
  <2>6. ObjectsTyped(g)
    BY <2>3, <2>4, <2>5 DEF ObjectsTyped, IsCall, Parts
  <2>7. Proceeds(c, d)
    BY <2>2, <2>6 DEF Proceeds, IsCall
  <2>8. ObjectsUsable(c.gpu) => ObjectsUsable(g)
    BY <2>3, <2>4, <2>5, Zenon DEF ObjectsUsable
  <2>9. Clean(c) => Clean(d)
    BY <2>2, <2>8, Zenon DEF Clean
  <2>10. /\ Keeps(c, d) /\ d.gpu.uniform = c.gpu.uniform
         /\ d.gpu.target.paint = paint
         /\ extent # <<0, 0>> => d.gpu.readback.data = paint
    BY <2>2, <2>3, <2>4, <2>5 DEF Keeps
  <2>11. paint = PaintOver(c, p, passes)
    BY Zenon DEF paint, PaintOver
  <2> QED
    BY <2>7, <2>9, <2>10, <2>11, Zenon DEF d
<1> QED
  BY <1>2, <1>3

\* Errors a caller is told of by name; none of them is a want of room.
LEMMA PictureIsReadBack ==
  ASSUME NEW c, IsCall(c), c.error = "Ok"
  PROVE  LET d == ReadBack(c)
         IN /\ IsCall(d)
            /\ d.error \in {"Ok", "ReadbackFailed", "DeviceLost", "OutOfMemory"}
            /\ c.raised \subseteq d.raised
            /\ d.error = "Ok" => d = c
            /\ Clean(c) /\ c.gpu.readback.size # 0 =>
                 "memory" \in d.raised \/ d.raised = {}
<1> DEFINE d == ReadBack(c)
<1>0. /\ DOMAIN c = {"gpu", "raised", "error", "fault"} /\ DOMAIN c.gpu = Parts
      /\ DOMAIN c.gpu["readback"] = {"size", "valid", "data", "held"}
  BY DEF IsCall, ObjectsTyped, Parts
<1>1. \A x, kind : IsCall(x) => /\ IsCall(Fail(x, kind)) /\ Fail(x, kind).error = kind
                                /\ Fail(x, kind).raised = x.raised
  BY DEF IsCall, Fail
<1>2. IsCall(Hold(c)) /\ Hold(c).raised = c.raised
  <2> DEFINE h == Hold(c)
             g == [c.gpu EXCEPT !.readback = [c.gpu.readback EXCEPT !.held = TRUE]]
  <2>1. /\ DOMAIN h = {"gpu", "raised", "error", "fault"} /\ h.raised = c.raised
        /\ h.gpu = g
    BY <1>0 DEF Hold
  <2>2. /\ DOMAIN g = Parts /\ g["vertex"] = c.gpu["vertex"] /\ g["target"] = c.gpu["target"]
        /\ g["readback"] = [c.gpu["readback"] EXCEPT !.held = TRUE]
    BY <1>0 DEF Parts
  <2>3. /\ DOMAIN g["readback"] = {"size", "valid", "data", "held"}
        /\ g["readback"].size = c.gpu["readback"].size
    BY <1>0, <2>2
  <2> HIDE DEF g, h
  <2>4. ObjectsTyped(g)
    BY <2>2, <2>3 DEF ObjectsTyped, IsCall, Parts
  <2> QED
    BY <2>1, <2>4 DEF IsCall, h
<1>3. /\ IsCall(Raise(c, "validation"))
      /\ Raise(c, "validation").raised = c.raised \cup {"validation"}
  BY <1>0 DEF IsCall, Raise
<1>4. c.raised \subseteq c.raised /\ c.raised \subseteq c.raised \cup {"validation"}
  OBVIOUS
<1>5. CASE c.fault = "timeout"
  <2>1. d = Fail(Hold(c), "ReadbackFailed")
    BY <1>5 DEF ReadBack
  <2>2. IsCall(d) /\ d.error = "ReadbackFailed" /\ d.raised = c.raised
    BY <1>1, <1>2, <2>1
  <2> QED
    BY <1>4, <2>2 DEF Clean
<1>6. CASE c.fault # "timeout" /\ c.fault = "loss"
  <2>1. d = Fail(Hold(c), "DeviceLost")
    BY <1>6 DEF ReadBack
  <2>2. IsCall(d) /\ d.error = "DeviceLost" /\ d.raised = c.raised
    BY <1>1, <1>2, <2>1
  <2> QED
    BY <1>4, <2>2 DEF Clean
<1>7. CASE /\ c.fault # "timeout" /\ c.fault # "loss"
           /\ c.gpu.readback.held \/ ~c.gpu.readback.valid
  <2>1. d = Fail(Raise(c, "validation"), "ReadbackFailed")
    BY <1>7 DEF ReadBack
  <2>2. IsCall(d) /\ d.error = "ReadbackFailed" /\ d.raised = c.raised \cup {"validation"}
    BY <1>1, <1>3, <2>1
  <2>3. ASSUME Clean(c), c.gpu.readback.size # 0 PROVE "memory" \in d.raised
    <3>1. ~ObjectsUsable(c.gpu)
      BY <1>7, <2>3, Zenon DEF ObjectsUsable
    <3>2. "memory" \in c.raised
      BY <2>3, <3>1, Zenon DEF Clean
    <3> QED
      BY <2>2, <3>2
  <2> QED
    BY <1>4, <2>2, <2>3
<1>8. CASE /\ c.fault # "timeout" /\ c.fault # "loss"
           /\ ~(c.gpu.readback.held \/ ~c.gpu.readback.valid)
  <2>1. CASE c.fault = "mapping"
    <3>1. d = Fail(c, "ReadbackFailed")
      BY <1>8, <2>1 DEF ReadBack
    <3>2. IsCall(d) /\ d.error = "ReadbackFailed" /\ d.raised = c.raised
      BY <1>1, <3>1
    <3> QED
      BY <1>4, <3>2 DEF Clean
  <2>2. CASE c.fault # "mapping" /\ c.fault = "host pixels"
    <3>1. d = Fail(Hold(c), "OutOfMemory")
      BY <1>8, <2>2 DEF ReadBack
    <3>2. IsCall(d) /\ d.error = "OutOfMemory" /\ d.raised = c.raised
      BY <1>1, <1>2, <3>1
    <3> QED
      BY <1>4, <3>2 DEF Clean
  <2>3. CASE c.fault # "mapping" /\ c.fault # "host pixels"
    <3>1. d = c
      BY <1>8, <2>3 DEF ReadBack
    <3> QED
      BY <1>4, <3>1 DEF Clean
  <2> QED
    BY <2>1, <2>2, <2>3
<1> QED
  BY <1>5, <1>6, <1>7, <1>8

-----------------------------------------------------------------------------
(* Pictures *)

LEMMA RepeatIsSequence ==
  ASSUME NEW k \in Nat, NEW x
  PROVE  /\ IsSequence(Repeat(k, x)) /\ Len(Repeat(k, x)) = k
         /\ \A i \in 1 .. k : Repeat(k, x)[i] = x
         /\ k # 0 => ToSet(Repeat(k, x)) = {x} /\ Head(Repeat(k, x)) = x
<1> DEFINE s == Repeat(k, x)
<1>1. s = [i \in 1 .. k |-> x]
  BY DEF Repeat
<1>2. s = [i \in 1 .. k |-> s[i]]
  BY <1>1
<1> HIDE DEF s
<1>3. IsSequence(s) /\ Len(s) = k
  BY <1>2, ListIsSequence
<1>4. \A i \in 1 .. k : s[i] = x
  BY <1>1
<1>5. ASSUME k # 0 PROVE ToSet(s) = {x} /\ Head(s) = x
  <2>1. 1 \in 1 .. k /\ DOMAIN s = 1 .. k
    BY <1>1, <1>5
  <2>2. ToSet(s) = {x}
    BY <1>4, <2>1 DEF ToSet
  <2>3. s \in Seq(ToSet(s))
    BY <1>3 DEF IsSequence
  <2>4. Head(s) = s[1]
    BY <1>3, <2>3
  <2> QED
    BY <1>4, <2>1, <2>2, <2>4
<1> QED
  BY <1>3, <1>4, <1>5 DEF s

\* A piece of what was written is found in the buffer, whatever lies behind it.
AllAre(all, b, k, x) ==
  /\ b \in Nat /\ k \in Nat \ {0} /\ b + k <= Len(all)
  /\ \A i \in 1 .. k : all[b + i] = x

Found(data, b, k, x) == SubSeq(data, b + 1, b + 1 + k - 1) = Repeat(k, x)

LEMMA PieceIsFound ==
  ASSUME NEW all, NEW rest, NEW b, NEW k, NEW x,
         IsSequence(all), IsSequence(rest), AllAre(all, b, k, x)
  PROVE  Found(all \o rest, b, k, x)
<1>0. /\ b \in Nat /\ k \in Nat \ {0} /\ b + k <= Len(all)
      /\ \A i \in 1 .. k : all[b + i] = x
  BY DEF AllAre
<1> DEFINE data == all \o rest
           A == ToSet(data)
<1>1. IsSequence(data) /\ Len(data) = Len(all) + Len(rest)
      /\ \A i \in 1 .. Len(all) : data[i] = all[i]
  BY ConcatIsSequence, ConcatByPlace
<1>2. Len(all) \in Nat /\ Len(rest) \in Nat
  BY SequenceDomain
<1>3. data \in Seq(A)
  BY <1>1 DEF IsSequence
<1> HIDE DEF data, A
<1>4. \A i \in 1 .. k : data[b + i] = x
  <2> SUFFICES ASSUME NEW i \in 1 .. k PROVE data[b + i] = x
    OBVIOUS
  <2>1. b + i \in 1 .. Len(all)
    BY <1>0, <1>2
  <2>2. data[b + i] = all[b + i]
    BY <1>1, <2>1, Zenon
  <2> QED
    BY <1>0, <2>2
<1>5. b + 1 + k - 1 = b + k /\ b + k <= Len(data) /\ Len(data) \in Nat
  BY <1>0, <1>1, <1>2
<1>6. SubSeq(data, b + 1, b + k) = [i \in 1 .. k |-> data[b + i]]
  <2>1. SubSeq(data, b + 1, b + k) = [i \in 1 .. ((b + k) - (b + 1) + 1) |-> data[(b + 1) + i - 1]]
    BY <1>0, <1>3
  <2>2. (b + k) - (b + 1) + 1 = k
    BY <1>0
  <2>3. \A i \in 1 .. k : (b + 1) + i - 1 = b + i
    BY <1>0
  <2> QED
    BY <2>1, <2>2, <2>3
<1>7. SubSeq(data, b + 1, b + k) = [i \in 1 .. k |-> x]
  BY <1>4, <1>6
<1> QED
  BY <1>5, <1>7 DEF data, Repeat, Found

\* A picture of n with these paints, each of one shape.
Pictures(picture, n, m, shapes, f) ==
  /\ IsSequence(picture) /\ Len(picture) = m + 1 /\ picture[1] = [cleared |-> n]
  /\ \A i \in 1 .. m :
       /\ \E k \in Nat \ {0} : picture[i + 1].what = Repeat(k, shapes[i])
       /\ picture[i + 1].uniform =
            Uniform(f, ExpectedWidth(f, shapes[i]),
                    IF shapes[i] = Lines(n) THEN LineColour ELSE shapes[i])

LEMMA PictureShows ==
  ASSUME NEW f, NEW n, NEW m \in Nat, NEW shapes, NEW picture,
         Pictures(picture, n, m, shapes, f),
         {shapes[i] : i \in 1 .. m} = ExpectedShapes(f, n),
         \A i, j \in 1 .. m : i < j => Rank(f, shapes[i]) < Rank(f, shapes[j])
  PROVE  Shows(picture, f, n)
<1> DEFINE paints == Tail(picture)
           ShapeAt(i) == Head(paints[i].what)
<1>1. picture \in Seq(ToSet(picture)) /\ Len(picture) = m + 1 /\ picture[1] = [cleared |-> n]
  BY DEF Pictures, IsSequence
<1>2. /\ Head(picture) = [cleared |-> n] /\ DOMAIN paints = 1 .. m
      /\ \A i \in 1 .. m : paints[i] = picture[i + 1]
  <2>1. picture # <<>>
    BY <1>1
  <2>2. Head(picture) = picture[1]
    BY <1>1, <2>1
  <2>3. /\ Tail(picture) \in Seq(ToSet(picture)) /\ Len(Tail(picture)) = Len(picture) - 1
        /\ \A i \in 1 .. Len(Tail(picture)) : Tail(picture)[i] = picture[i + 1]
    <3> DEFINE A == ToSet(picture)
    <3>1. picture \in Seq(A)
      BY <1>1
    <3> HIDE DEF A
    <3>2. /\ Tail(picture) \in Seq(A) /\ Len(Tail(picture)) = Len(picture) - 1
          /\ \A i \in 1 .. Len(Tail(picture)) : Tail(picture)[i] = picture[i + 1]
      BY <2>1, <3>1, HeadTailProperties
    <3> QED
      BY <3>2 DEF A
  <2>4. Len(picture) - 1 = m
    BY <1>1
  <2>5. DOMAIN Tail(picture) = 1 .. m
    BY <2>3, <2>4
  <2> QED
    BY <1>1, <2>2, <2>3, <2>4, <2>5
<1> HIDE DEF paints
<1>3. \A i \in 1 .. m : ToSet(paints[i].what) = {shapes[i]} /\ ShapeAt(i) = shapes[i]
  <2> SUFFICES ASSUME NEW i \in 1 .. m
               PROVE  ToSet(paints[i].what) = {shapes[i]} /\ ShapeAt(i) = shapes[i]
    OBVIOUS
  <2>1. PICK k \in Nat \ {0} : paints[i].what = Repeat(k, shapes[i])
    BY <1>2 DEF Pictures
  <2> QED
    BY <2>1, RepeatIsSequence
<1>4. \A i \in 1 .. m :
        /\ paints[i].uniform.colour = IF shapes[i] = Lines(n) THEN LineColour ELSE shapes[i]
        /\ paints[i].uniform.half = ExpectedWidth(f, shapes[i])
        /\ paints[i].uniform.viewport = f.canvas
  <2> SUFFICES ASSUME NEW i \in 1 .. m
               PROVE  /\ paints[i].uniform.colour = IF shapes[i] = Lines(n) THEN LineColour ELSE shapes[i]
                      /\ paints[i].uniform.half = ExpectedWidth(f, shapes[i])
                      /\ paints[i].uniform.viewport = f.canvas
    OBVIOUS
  <2> DEFINE colour == IF shapes[i] = Lines(n) THEN LineColour ELSE shapes[i]
             width == ExpectedWidth(f, shapes[i])
  <2>1. paints[i].uniform = Uniform(f, width, colour)
    BY <1>2, Zenon DEF Pictures
  <2> HIDE DEF colour, width
  <2>2. /\ paints[i].uniform.colour = colour /\ paints[i].uniform.half = width
        /\ paints[i].uniform.viewport = f.canvas
    BY <2>1 DEF Uniform
  <2> QED
    BY <2>2, Zenon DEF colour, width
<1> HIDE DEF ShapeAt
<1>5. {ShapeAt(i) : i \in DOMAIN paints} = ExpectedShapes(f, n)
  BY <1>2, <1>3
<1>6. \A i \in DOMAIN paints :
        /\ ToSet(paints[i].what) = {ShapeAt(i)}
        /\ paints[i].uniform.colour = IF ShapeAt(i) = Lines(n) THEN LineColour ELSE ShapeAt(i)
        /\ paints[i].uniform.half = ExpectedWidth(f, ShapeAt(i))
        /\ paints[i].uniform.viewport = f.canvas
  BY <1>2, <1>3, <1>4
<1>7. \A i, j \in DOMAIN paints : i < j => Rank(f, ShapeAt(i)) < Rank(f, ShapeAt(j))
  BY <1>2, <1>3
<1> QED
  BY <1>2, <1>5, <1>6, <1>7, Zenon DEF Shows, ShapeAt, paints

LEMMA StepIsPainted ==
  ASSUME NEW c, IsCall(c), c.error = "Ok", NEW step
  PROVE  LET d == PaintStep(c, step)
             p == step.pass
         IN /\ Proceeds(c, d) /\ Keeps(c, d)
            /\ d.raised = {} /\ p.count # 0 =>
                 \E x : /\ d.gpu.target.paint = Cleared(p, c.gpu.target) \o <<x>>
                        /\ x.what = SubSeq(c.gpu.vertex.data, p.from, p.from + p.count - 1)
                        /\ x.uniform = step.uniform
            /\ (/\ Clean(c) /\ c.gpu.target.w # 0
                /\ Holds(p.scissor, <<c.gpu.target.w, c.gpu.target.h>>)) => Clean(d)
<1> DEFINE e == WriteUniform(c, step.uniform)
           p == step.pass
           d == Submit(e, <<p>>, <<0, 0>>)
<1>0. PaintStep(c, step) = d
  BY Zenon DEF PaintStep
<1>1. /\ Proceeds(c, e) /\ e.raised = c.raised
      /\ e.gpu.uniform = step.uniform
      /\ \A part \in Parts \ {"uniform"} : e.gpu[part] = c.gpu[part]
      /\ Clean(c) => Clean(e)
  BY UniformIsWritten
<1> HIDE DEF e
<1>2. /\ e.gpu.target = c.gpu.target /\ e.gpu.vertex = c.gpu.vertex
      /\ e.gpu.readback = c.gpu.readback
  BY <1>1 DEF Parts
<1>3. <<p>> # <<>> /\ IsCall(e) /\ e.error = "Ok"
  BY <1>1 DEF Proceeds
<1> HIDE DEF p
<1>4. /\ Proceeds(e, d) /\ Keeps(e, d) /\ d.gpu.uniform = e.gpu.uniform
      /\ d.raised = {} => d.gpu.target.paint = PaintOver(e, p, <<p>>)
      /\ Clean(e) /\ Fits(e, p, <<p>>, <<0, 0>>) => Clean(d)
  <2> DEFINE passes == <<p>>
             zero == <<0, 0>>
             s == Submit(e, passes, zero)
  <2>1. passes = <<>> \/ passes = <<p>>
    OBVIOUS
  <2> HIDE DEF passes, zero
  <2>2. /\ Proceeds(e, s) /\ Keeps(e, s) /\ s.gpu.uniform = e.gpu.uniform
        /\ s.raised = {} =>
             /\ s.gpu.target.paint = PaintOver(e, p, passes)
             /\ zero # <<0, 0>> => s.gpu.readback.data = PaintOver(e, p, passes)
        /\ Clean(e) /\ Fits(e, p, passes, zero) => Clean(s)
    BY <1>3, <2>1, WorkIsSubmitted, Zenon
  <2> HIDE DEF s
  <2>3. s = d
    BY DEF s, passes, zero
  <2> QED
    BY <2>2, <2>3, Zenon DEF passes, zero
<1> HIDE DEF d
<1>5. Proceeds(c, d) /\ Keeps(c, d)
  BY <1>1, <1>2, <1>4 DEF Proceeds, Keeps
<1>6. ASSUME d.raised = {}, p.count # 0
      PROVE  \E x : /\ d.gpu.target.paint = Cleared(p, c.gpu.target) \o <<x>>
                    /\ x.what = SubSeq(c.gpu.vertex.data, p.from, p.from + p.count - 1)
                    /\ x.uniform = step.uniform
  <2> DEFINE x == [what |-> SubSeq(e.gpu.vertex.data, p.from, p.from + p.count - 1),
                   uniform |-> e.gpu.uniform, scissor |-> p.scissor,
                   over |-> <<e.gpu.target.w, e.gpu.target.h>>]
  <2>1. Painted(p, e.gpu) = <<x>>
    BY <1>6, Zenon DEF Painted
  <2>2. PaintOver(e, p, <<p>>) = Cleared(p, e.gpu.target) \o Painted(p, e.gpu)
    BY <1>3, Zenon DEF PaintOver
  <2>3. d.gpu.target.paint = Cleared(p, e.gpu.target) \o <<x>>
    BY <1>4, <1>6, <2>1, <2>2, Zenon
  <2>4. x.what = SubSeq(e.gpu.vertex.data, p.from, p.from + p.count - 1)
        /\ x.uniform = e.gpu.uniform
    OBVIOUS
  <2> HIDE DEF x
  <2> QED
    BY <1>1, <1>2, <2>3, <2>4, Zenon
<1>7. (/\ Clean(c) /\ c.gpu.target.w # 0
       /\ Holds(p.scissor, <<c.gpu.target.w, c.gpu.target.h>>)) => Clean(d)
  <2> SUFFICES ASSUME Clean(c), c.gpu.target.w # 0,
                      Holds(p.scissor, <<c.gpu.target.w, c.gpu.target.h>>)
               PROVE  Clean(d)
    OBVIOUS
  <2>1. Fits(e, p, <<p>>, <<0, 0>>)
    BY <1>2, <1>3 DEF Fits
  <2> QED
    BY <1>1, <1>4, <2>1, Zenon
<1> QED
  BY <1>0, <1>5, <1>6, <1>7, Zenon DEF p

\* What the calls are after each of the first n passes.
After(c, steps, n, f) == f = [i \in 0 .. n |-> IF i = 0 THEN c ELSE PaintStep(f[i - 1], steps[i])]

LEMMA AfterExists ==
  ASSUME NEW c, NEW steps, NEW n \in Nat
  PROVE  \E f : After(c, steps, n, f)
<1> DEFINE T == {m \in Nat : ~\E f : After(c, steps, m, f)}
<1> SUFFICES ASSUME T # {} PROVE FALSE
  OBVIOUS
<1>1. PICK m \in T : \A k \in T : m <= k
  <2>1. T \subseteq Nat
    OBVIOUS
  <2> HIDE DEF T
  <2> QED
    BY <2>1, LeastNatural
<1>2. m # 0
  <2> SUFFICES ASSUME m = 0 PROVE \E f : After(c, steps, 0, f)
    OBVIOUS
  <2> DEFINE g == [k \in 0 .. 0 |-> c]
  <2>1. g = [k \in 0 .. 0 |-> IF k = 0 THEN c ELSE PaintStep(g[k - 1], steps[k])]
    OBVIOUS
  <2> QED
    BY <2>1 DEF After
<1>3. m \in Nat /\ m - 1 \in Nat /\ m - 1 \notin T
  BY <1>1, <1>2
<1>4. PICK f : After(c, steps, m - 1, f)
  BY <1>3
<1>5. \A k \in 0 .. (m - 1) : f[k] = IF k = 0 THEN c ELSE PaintStep(f[k - 1], steps[k])
  BY <1>4 DEF After
<1> DEFINE g == [k \in 0 .. m |-> IF k = m THEN PaintStep(f[m - 1], steps[m]) ELSE f[k]]
<1>6. \A k \in 0 .. m : g[k] = IF k = 0 THEN c ELSE PaintStep(g[k - 1], steps[k])
  <2> SUFFICES ASSUME NEW k \in 0 .. m
               PROVE  g[k] = IF k = 0 THEN c ELSE PaintStep(g[k - 1], steps[k])
    OBVIOUS
  <2>1. k # 0 => k - 1 \in 0 .. m /\ k - 1 # m /\ g[k - 1] = f[k - 1]
    BY <1>3
  <2>2. CASE k = m
    BY <1>2, <2>1, <2>2
  <2>3. CASE k # m
    <3>1. k \in 0 .. (m - 1) /\ g[k] = f[k]
      BY <1>3, <2>3
    <3> QED
      BY <1>5, <2>1, <3>1
  <2> QED
    BY <2>2, <2>3
<1>7. g = [k \in 0 .. m |-> IF k = 0 THEN c ELSE PaintStep(g[k - 1], steps[k])]
  <2> DEFINE h == [k \in 0 .. m |-> IF k = 0 THEN c ELSE PaintStep(g[k - 1], steps[k])]
  <2>1. \A k \in 0 .. m : g[k] = h[k]
    BY <1>6
  <2>2. g = [k \in 0 .. m |-> g[k]] /\ h = [k \in 0 .. m |-> h[k]]
    OBVIOUS
  <2> HIDE DEF g, h
  <2>3. g = h
    BY <2>1, <2>2
  <2> QED
    BY <2>3 DEF h
<1>8. After(c, steps, m, g)
  BY <1>7 DEF After
<1> QED
  BY <1>1, <1>8

\* What is on the target after the first i passes: the clearing and their pieces.
PaintedTo(picture, n, i, steps, pieces) ==
  /\ IsSequence(picture) /\ Len(picture) = i + 1 /\ picture[1] = [cleared |-> n]
  /\ \A j \in 1 .. i : /\ picture[j + 1].what = pieces[j]
                       /\ picture[j + 1].uniform = steps[j].uniform

LEMMA PictureGrows ==
  ASSUME NEW n, NEW steps, NEW pieces, NEW i \in Nat \ {0}, NEW picture, NEW x,
         x.what = pieces[i], x.uniform = steps[i].uniform,
         \/ i = 1 /\ picture = <<[cleared |-> n]>>
         \/ PaintedTo(picture, n, i - 1, steps, pieces)
  PROVE  PaintedTo(picture \o <<x>>, n, i, steps, pieces)
<1>0. <<x>>[1] = x /\ Len(<<x>>) = 1 /\ IsSequence(<<x>>)
  BY ShortSequences
<1>1. PaintedTo(picture, n, i - 1, steps, pieces)
  <2>1. CASE i = 1 /\ picture = <<[cleared |-> n]>>
    <3>1. Len(picture) = 1 /\ picture[1] = [cleared |-> n] /\ IsSequence(picture)
      BY <2>1, ShortSequences
    <3>2. i - 1 = 0 /\ 1 .. 0 = {}
      BY <2>1
    <3> QED
      BY <3>1, <3>2 DEF PaintedTo
  <2> QED
    BY <2>1
<1> DEFINE q == picture \o <<x>>
<1>2. IsSequence(picture) /\ Len(picture) = i /\ picture[1] = [cleared |-> n]
  BY <1>1 DEF PaintedTo
<1>3. /\ IsSequence(q) /\ Len(q) = i + 1
      /\ \A j \in 1 .. i : q[j] = picture[j]
      /\ q[i + 1] = x
  <2>1. /\ Len(q) = Len(picture) + Len(<<x>>)
        /\ \A j \in 1 .. Len(picture) : q[j] = picture[j]
        /\ \A j \in 1 .. Len(<<x>>) : q[Len(picture) + j] = <<x>>[j]
    BY <1>0, <1>2, ConcatByPlace
  <2>2. IsSequence(q)
    BY <1>0, <1>2, ConcatIsSequence
  <2> HIDE DEF q
  <2>3. 1 \in 1 .. Len(<<x>>)
    BY <1>0
  <2>4. q[i + 1] = x
    BY <1>0, <1>2, <2>1, <2>3
  <2> QED
    BY <1>0, <1>2, <2>1, <2>2, <2>4
<1> HIDE DEF q
<1>4. 1 \in 1 .. i
  OBVIOUS
<1>5. \A j \in 1 .. i : /\ q[j + 1].what = pieces[j]
                        /\ q[j + 1].uniform = steps[j].uniform
  <2> SUFFICES ASSUME NEW j \in 1 .. i
               PROVE  q[j + 1].what = pieces[j] /\ q[j + 1].uniform = steps[j].uniform
    OBVIOUS
  <2>1. CASE j = i
    BY <1>3, <2>1
  <2>2. CASE j # i
    <3>1. j \in 1 .. (i - 1) /\ j + 1 \in 1 .. i
      BY <2>2
    <3> QED
      BY <1>1, <1>3, <3>1 DEF PaintedTo
  <2> QED
    BY <2>1, <2>2
<1> QED
  BY <1>2, <1>3, <1>4, <1>5 DEF PaintedTo, q

\* The first pass clears, each paints its piece of the vertices, within the target.
Paintable(steps, n, data, pieces) ==
  /\ IsSequence(steps)
  /\ \A i \in 1 .. Len(steps) :
       LET p == steps[i].pass
       IN /\ IF i = 1 THEN p.clears /\ p.frame = n ELSE ~p.clears
          /\ p.count # 0
          /\ SubSeq(data, p.from, p.from + p.count - 1) = pieces[i]

PassesFit(steps, target) ==
  target.w # 0 /\ \A i \in 1 .. Len(steps) : Holds(steps[i].pass.scissor, <<target.w, target.h>>)

LEMMA PassesArePainted ==
  ASSUME NEW c, IsCall(c), c.error = "Ok", NEW steps, NEW n, NEW pieces,
         IsSequence(steps)
  PROVE  LET d == PaintAll(c, steps)
         IN /\ Proceeds(c, d) /\ Keeps(c, d)
            /\ (/\ d.raised = {} /\ Len(steps) # 0
                /\ Paintable(steps, n, c.gpu.vertex.data, pieces)) =>
                 PaintedTo(d.gpu.target.paint, n, Len(steps), steps, pieces)
            /\ Clean(c) /\ PassesFit(steps, c.gpu.target) => Clean(d)
<1> DEFINE m == Len(steps)
           after == CHOOSE f : f = [i \in 0 .. m |->
                      IF i = 0 THEN c ELSE PaintStep(f[i - 1], steps[i])]
           ready == Paintable(steps, n, c.gpu.vertex.data, pieces)
<1>1. m \in Nat
  BY SequenceDomain
<1>2. \E f : f = [i \in 0 .. m |-> IF i = 0 THEN c ELSE PaintStep(f[i - 1], steps[i])]
  <2>1. \E f : After(c, steps, m, f)
    <3> HIDE DEF m
    <3> QED
      BY <1>1, AfterExists, Zenon
  <2> QED
    BY <2>1, Zenon DEF After
<1>3. after = [i \in 0 .. m |-> IF i = 0 THEN c ELSE PaintStep(after[i - 1], steps[i])]
  BY <1>2
<1>4. PaintAll(c, steps) = after[m]
  BY DEF PaintAll
<1> HIDE DEF after, m
<1>5. after[0] = c /\ \A i \in 1 .. m : after[i] = PaintStep(after[i - 1], steps[i])
  <2>1. \A i \in 1 .. m : i \in 0 .. m /\ i # 0
    BY <1>1
  <2> QED
    BY <1>1, <1>3, <2>1
<1> DEFINE Sound(i) ==
             LET d == after[i]
             IN /\ Proceeds(c, d) /\ Keeps(c, d)
                /\ d.raised = {} /\ i # 0 /\ ready =>
                     PaintedTo(d.gpu.target.paint, n, i, steps, pieces)
                /\ Clean(c) /\ PassesFit(steps, c.gpu.target) => Clean(d)
           T == {i \in 0 .. m : ~Sound(i)}
<1>6. T = {}
  <2> SUFFICES ASSUME T # {} PROVE FALSE
    OBVIOUS
  <2>1. PICK i \in T : \A k \in T : i <= k
    <3>1. T \subseteq Nat
      BY <1>1
    <3> HIDE DEF T
    <3> QED
      BY <3>1, LeastNatural
  <2>2. i \in 0 .. m /\ ~Sound(i)
    OBVIOUS
  <2>3. i # 0
    <3>1. Proceeds(c, c) /\ Keeps(c, c)
      BY DEF Proceeds, Keeps
    <3> SUFFICES ASSUME i = 0 PROVE Sound(0)
      BY <2>2
    <3> QED
      BY <1>5, <3>1
  <2>4. i \in 1 .. m /\ i - 1 \in 0 .. m /\ i - 1 \notin T
    BY <1>1, <2>1, <2>2, <2>3
  <2>5. Sound(i - 1)
    BY <2>4
  <2> DEFINE e == after[i - 1]
             d == after[i]
             step == steps[i]
             p == step.pass
  <2>6. d = PaintStep(e, step)
    BY <1>5, <2>4
  <2>7. Proceeds(c, e) /\ Keeps(c, e)
    BY <2>5
  <2>8. /\ e.raised = {} /\ i - 1 # 0 /\ ready =>
             PaintedTo(e.gpu.target.paint, n, i - 1, steps, pieces)
        /\ Clean(c) /\ PassesFit(steps, c.gpu.target) => Clean(e)
    BY <2>5
  <2> HIDE DEF e, d, step, T
  <2>9. IsCall(e) /\ e.error = "Ok"
    BY <2>7 DEF Proceeds
  <2>10. /\ Proceeds(e, d) /\ Keeps(e, d)
         /\ d.raised = {} /\ p.count # 0 =>
              \E x : /\ d.gpu.target.paint = Cleared(p, e.gpu.target) \o <<x>>
                     /\ x.what = SubSeq(e.gpu.vertex.data, p.from, p.from + p.count - 1)
                     /\ x.uniform = step.uniform
         /\ (/\ Clean(e) /\ e.gpu.target.w # 0
             /\ Holds(p.scissor, <<e.gpu.target.w, e.gpu.target.h>>)) => Clean(d)
    <3> DEFINE s == PaintStep(e, step)
    <3>1. /\ Proceeds(e, s) /\ Keeps(e, s)
          /\ s.raised = {} /\ p.count # 0 =>
               \E x : /\ s.gpu.target.paint = Cleared(p, e.gpu.target) \o <<x>>
                      /\ x.what = SubSeq(e.gpu.vertex.data, p.from, p.from + p.count - 1)
                      /\ x.uniform = step.uniform
          /\ (/\ Clean(e) /\ e.gpu.target.w # 0
              /\ Holds(p.scissor, <<e.gpu.target.w, e.gpu.target.h>>)) => Clean(s)
      BY <2>9, StepIsPainted
    <3>2. s = d
      BY <2>6
    <3> HIDE DEF s
    <3> QED
      BY <3>1, <3>2
  <2>11. Proceeds(c, d) /\ Keeps(c, d)
    BY <2>7, <2>10 DEF Proceeds, Keeps
  <2>12. ASSUME Clean(c), PassesFit(steps, c.gpu.target) PROVE Clean(d)
    <3>1. e.gpu.target.w = c.gpu.target.w /\ e.gpu.target.h = c.gpu.target.h
      BY <2>7 DEF Keeps
    <3>2. e.gpu.target.w # 0 /\ Holds(p.scissor, <<e.gpu.target.w, e.gpu.target.h>>)
      BY <2>4, <2>12, <3>1 DEF PassesFit, m, step
    <3> QED
      BY <2>8, <2>10, <2>12, <3>2, Zenon
  <2>13. ASSUME d.raised = {}, ready
         PROVE  PaintedTo(d.gpu.target.paint, n, i, steps, pieces)
    <3>1. e.raised = {}
      BY <2>10, <2>13 DEF Proceeds
    <3>2. /\ IF i = 1 THEN p.clears /\ p.frame = n ELSE ~p.clears
          /\ p.count # 0
          /\ SubSeq(c.gpu.vertex.data, p.from, p.from + p.count - 1) = pieces[i]
      BY <2>4, <2>13, Zenon DEF Paintable, m, step
    <3>3. PICK x : /\ d.gpu.target.paint = Cleared(p, e.gpu.target) \o <<x>>
                   /\ x.what = SubSeq(e.gpu.vertex.data, p.from, p.from + p.count - 1)
                   /\ x.uniform = step.uniform
      BY <2>10, <2>13, <3>2, Zenon
    <3>4. e.gpu.vertex = c.gpu.vertex
      BY <2>7 DEF Keeps
    <3>5. x.what = pieces[i] /\ x.uniform = steps[i].uniform
      BY <3>2, <3>3, <3>4, Zenon DEF step
    <3>6. \/ i = 1 /\ Cleared(p, e.gpu.target) = <<[cleared |-> n]>>
          \/ PaintedTo(Cleared(p, e.gpu.target), n, i - 1, steps, pieces)
      <4>1. CASE i = 1
        <5>1. p.clears /\ p.frame = n
          BY <3>2, <4>1
        <5> QED
          BY <4>1, <5>1, Zenon DEF Cleared
      <4>2. CASE i # 1
        <5>1. ~p.clears /\ i - 1 # 0
          BY <2>4, <3>2, <4>2
        <5>2. Cleared(p, e.gpu.target) = e.gpu.target.paint
          BY <5>1, Zenon DEF Cleared
        <5>3. PaintedTo(e.gpu.target.paint, n, i - 1, steps, pieces)
          BY <2>8, <2>13, <3>1, <5>1, Zenon
        <5> QED
          BY <5>2, <5>3, Zenon
      <4> QED
        BY <4>1, <4>2
    <3>7. i \in Nat \ {0}
      BY <1>1, <2>4
    <3>8. PaintedTo(Cleared(p, e.gpu.target) \o <<x>>, n, i, steps, pieces)
      BY <3>5, <3>6, <3>7, PictureGrows, Zenon
    <3> QED
      BY <3>3, <3>8, Zenon
  <2>14. Sound(i)
    BY <2>11, <2>12, <2>13, Zenon DEF d
  <2> QED
    BY <2>2, <2>14
<1>7. Sound(m)
  BY <1>1, <1>6
<1> QED
  BY <1>4, <1>7, Zenon DEF m

-----------------------------------------------------------------------------
(* The draws of the filled shapes *)

\* The paint order names every slot once.
LEMMA OrderIsInjective ==
  ASSUME FramesAreConstructed, NEW f \in Frames
  PROVE  LET order == f.fillBar.order
         IN /\ Len(order) \in Nat /\ DOMAIN order = 1 .. Len(order)
            /\ \A k \in 1 .. Len(order) : order[k] \in PaintSlots(f.fillBar.fills, f.fillBar.bars)
            /\ \A j, k \in 1 .. Len(order) : order[j] = order[k] => j = k
<1> DEFINE order == f.fillBar.order
           N == Len(order)
           slots == PaintSlots(f.fillBar.fills, f.fillBar.bars)
<1>1. IsSequence(order) /\ ToSet(order) = slots /\ N = Cardinality(slots)
  BY FrameIsWhole
<1> HIDE DEF slots
<1>2. N \in Nat /\ DOMAIN order = 1 .. N /\ order = [k \in 1 .. N |-> order[k]]
      /\ \A k \in 1 .. N : order[k] \in slots
  BY <1>1, SequenceDomain
<1>3. \A x \in slots : \E k \in 1 .. N : order[k] = x
  BY <1>1, <1>2 DEF ToSet
<1> HIDE DEF order, N
<1>4. order \in Surjection(1 .. N, slots)
  BY <1>2, <1>3 DEF Surjection
<1>5. IsFiniteSet(1 .. N) /\ Cardinality(1 .. N) = N
  <2>1. IsFiniteSet(1 .. N) /\ Cardinality(1 .. N) = IF 1 > N THEN 0 ELSE N - 1 + 1
    <3>1. 1 \in Int /\ N \in Int
      BY <1>2
    <3> QED
      BY <3>1, FS_Interval, Zenon
  <2>2. (IF 1 > N THEN 0 ELSE N - 1 + 1) = N
    BY <1>2
  <2> QED
    BY <2>1, <2>2
<1>6. order \in Injection(1 .. N, slots)
  <2> DEFINE S == 1 .. N
  <2>1. IsFiniteSet(S) /\ Cardinality(S) = Cardinality(slots) /\ order \in Surjection(S, slots)
    BY <1>1, <1>4, <1>5
  <2> HIDE DEF S
  <2>2. order \in Injection(S, slots)
    BY <2>1, FS_SurjSameCardinalityImpliesInj, Zenon
  <2> QED
    BY <2>2 DEF S
<1>7. \A j, k \in 1 .. N : order[j] = order[k] => j = k
  <2> DEFINE S == 1 .. N
  <2>1. order \in Injection(S, slots)
    BY <1>6
  <2> HIDE DEF S
  <2>2. \A j, k \in S : order[j] = order[k] => j = k
    BY <2>1, SMT DEF Injection, IsInjective
  <2> QED
    BY <2>2 DEF S
<1> QED
  BY <1>2, <1>7 DEF order, N, slots

\* What a draw is: of a filled shape, in its width, with a number of triangles.
IsDraw(d, f) ==
  /\ d.triangles \in Nat
  /\ d.shape.family # "Line"
  /\ d.width = ExpectedWidth(f, d.shape)

\* The draws of the slot in place k come between those of its neighbours.
LEMMA ShapeIsDrawn ==
  ASSUME FramesAreConstructed, NEW f \in Frames, NEW n, NEW k \in 1 .. Len(f.fillBar.order)
  PROVE  LET draws == ShapeDraws(f, n, f.fillBar.order[k])
         IN /\ IsSequence(draws)
            /\ \A d \in ToSet(draws) :
                 IsDraw(d, f) /\ Rank(f, d.shape) \in {2 * (k - 1), 2 * (k - 1) + 1}
            /\ Len(draws) \in {1, 2}
            /\ Len(draws) = 2 => Rank(f, draws[1].shape) < Rank(f, draws[2].shape)
<1> DEFINE order == f.fillBar.order
           key == order[k]
           isFill == key.family = "Fill"
           shape == IF isFill THEN f.fillBar.fills[key.index] ELSE f.fillBar.bars[key.index]
           body == IF isFill THEN Len(shape.points) - 2 ELSE 2
           edge == IF isFill THEN Perimeter(shape.points) ELSE 8
           Draw(part, triangles, width) ==
             [shape |-> Shape(n, key.family, key.index, part),
              triangles |-> triangles, width |-> width]
           first == Draw("body", body, 2)
           second == Draw("edge", edge, shape.edge)
<1>1. /\ Len(order) \in Nat /\ k \in 1 .. Len(order) /\ DOMAIN order = 1 .. Len(order)
      /\ key \in PaintSlots(f.fillBar.fills, f.fillBar.bars)
      /\ \A j \in 1 .. Len(order) : order[j] \in PaintSlots(f.fillBar.fills, f.fillBar.bars)
      /\ \A j \in 1 .. Len(order) : order[j] = key => j = k
  BY OrderIsInjective
<1>2. \A x \in PaintSlots(f.fillBar.fills, f.fillBar.bars) :
        /\ x = [family |-> x.family, index |-> x.index]
        /\ x.family \in {"Fill", "Bar"}
        /\ x.family = "Fill" => x.index \in DOMAIN f.fillBar.fills
  BY DEF PaintSlots
<1>3. key.family \in {"Fill", "Bar"} /\ (isFill => key.index \in DOMAIN f.fillBar.fills)
  BY <1>1, <1>2
<1>4. \A part : /\ Shape(n, key.family, key.index, part).family = key.family
                /\ Shape(n, key.family, key.index, part).index = key.index
                /\ Shape(n, key.family, key.index, part).part = part
  BY DEF Shape
<1>5. \A j \in DOMAIN order : (order[j].family = key.family /\ order[j].index = key.index) <=> j = k
  <2> SUFFICES ASSUME NEW j \in DOMAIN order, order[j].family = key.family,
                      order[j].index = key.index
               PROVE  j = k
    OBVIOUS
  <2>1. j \in 1 .. Len(order)
    BY <1>1
  <2> HIDE DEF order
  <2>2. order[j] = [family |-> order[j].family, index |-> order[j].index]
        /\ key = [family |-> key.family, index |-> key.index]
    BY <1>1, <1>2, <2>1
  <2>3. order[j] = key
    BY <2>2
  <2> QED
    BY <1>1, <2>1, <2>3
<1>6. \A part : Rank(f, Shape(n, key.family, key.index, part))
                = 2 * (k - 1) + (IF part = "edge" THEN 1 ELSE 0)
  <2> SUFFICES ASSUME NEW part
               PROVE  Rank(f, Shape(n, key.family, key.index, part))
                      = 2 * (k - 1) + (IF part = "edge" THEN 1 ELSE 0)
    OBVIOUS
  <2> DEFINE s == Shape(n, key.family, key.index, part)
             place == CHOOSE j \in DOMAIN order :
                        order[j].family = s.family /\ order[j].index = s.index
  <2>1. s.family = key.family /\ s.index = key.index /\ s.part = part /\ s.family # "Line"
    BY <1>3, <1>4
  <2>2. Rank(f, s) = 2 * (place - 1) + (IF s.part = "edge" THEN 1 ELSE 0)
    BY <2>1, Zenon DEF Rank
  <2> HIDE DEF s, order
  <2>3. place = k
    <3>1. k \in DOMAIN order
      BY <1>1
    <3>2. \A j \in DOMAIN order : (order[j].family = s.family /\ order[j].index = s.index) <=> j = k
      BY <1>5, <2>1, Zenon
    <3>3. \E j \in DOMAIN order : order[j].family = s.family /\ order[j].index = s.index
      BY <3>1, <3>2, Zenon
    <3>4. place \in DOMAIN order /\ order[place].family = s.family /\ order[place].index = s.index
      BY <3>3, Zenon
    <3> QED
      BY <3>2, <3>4, Zenon
  <2> HIDE DEF place
  <2> QED
    BY <2>1, <2>2, <2>3 DEF s
<1>7. body \in Nat
  <2>1. CASE isFill
    <3>1. /\ shape = f.fillBar.fills[key.index] /\ IsSequence(shape.points)
          /\ Len(shape.points) >= 3
      BY <1>3, <2>1, FrameIsWhole
    <3>2. Len(shape.points) \in Nat
      BY <3>1, SequenceDomain
    <3>3. body = Len(shape.points) - 2
      BY <2>1
    <3>4. \A l \in Nat : l >= 3 => l - 2 \in Nat
      OBVIOUS
    <3> HIDE DEF shape, isFill, body
    <3> QED
      BY <3>1, <3>2, <3>3, <3>4, Zenon
  <2>2. CASE ~isFill
    BY <2>2
  <2> QED
    BY <2>1, <2>2
<1>8. edge \in Nat
  <2>1. CASE isFill
    <3>1. shape = f.fillBar.fills[key.index] /\ IsSequence(shape.points)
      BY <1>3, <2>1, FrameIsWhole
    <3> DEFINE points == shape.points
               apart == {j \in DOMAIN points : points[j] # points[(j % Len(points)) + 1]}
    <3>2. Len(points) \in Nat /\ DOMAIN points = 1 .. Len(points)
      BY <3>1, SequenceDomain
    <3> HIDE DEF shape, isFill
    <3>3. IsFiniteSet(1 .. Len(points))
      <4> HIDE DEF points
      <4> QED
        BY <3>2, FS_Interval
    <3>4. apart \subseteq 1 .. Len(points)
      BY <3>2
    <3> HIDE DEF apart, points
    <3>5. Cardinality(apart) \in Nat
      BY <3>3, <3>4, FS_Subset, FS_CardinalityType
    <3>6. edge = 2 * Cardinality(apart)
      BY <2>1 DEF Perimeter, apart, points
    <3> QED
      BY <3>5, <3>6
  <2>2. CASE ~isFill
    BY <2>2
  <2> QED
    BY <2>1, <2>2
<1>9. first.shape = Shape(n, key.family, key.index, "body") /\ first.triangles = body
      /\ first.width = 2
  OBVIOUS
<1>10. second.shape = Shape(n, key.family, key.index, "edge") /\ second.triangles = edge
       /\ second.width = shape.edge
  OBVIOUS
<1>11. ShapeDraws(f, n, key) = IF shape.edge = NoEdge THEN <<first>> ELSE <<first, second>>
  BY DEF ShapeDraws
<1> HIDE DEF first, second, body, edge
<1>12. IsDraw(first, f)
  <2>1. ExpectedWidth(f, first.shape) = 2
    BY <1>3, <1>4, <1>9 DEF ExpectedWidth
  <2>2. first.shape.family # "Line"
    BY <1>3, <1>4, <1>9
  <2> QED
    BY <1>7, <1>9, <2>1, <2>2 DEF IsDraw
<1>13. IsDraw(second, f)
  <2>1. ExpectedWidth(f, second.shape) = shape.edge
    BY <1>3, <1>4, <1>10 DEF ExpectedWidth
  <2>2. second.shape.family # "Line"
    BY <1>3, <1>4, <1>10
  <2> QED
    BY <1>8, <1>10, <2>1, <2>2 DEF IsDraw
<1>14. Rank(f, first.shape) = 2 * (k - 1) /\ Rank(f, second.shape) = 2 * (k - 1) + 1
  <2>1. /\ Rank(f, first.shape) = 2 * (k - 1) + (IF "body" = "edge" THEN 1 ELSE 0)
        /\ Rank(f, second.shape) = 2 * (k - 1) + (IF "edge" = "edge" THEN 1 ELSE 0)
    BY <1>6, <1>9, <1>10
  <2> QED
    BY <2>1
<1> HIDE DEF key, shape, isFill
<1>15. CASE shape.edge = NoEdge
  <2>1. ShapeDraws(f, n, key) = <<first>>
    BY <1>11, <1>15
  <2>2. IsSequence(<<first>>) /\ ToSet(<<first>>) = {first} /\ Len(<<first>>) = 1
    BY ShortSequences
  <2> QED
    BY <1>12, <1>14, <2>1, <2>2 DEF key
<1>16. CASE shape.edge # NoEdge
  <2>1. ShapeDraws(f, n, key) = <<first, second>>
    BY <1>11, <1>16
  <2>2. /\ IsSequence(<<first, second>>) /\ ToSet(<<first, second>>) = {first, second}
        /\ Len(<<first, second>>) = 2 /\ <<first, second>>[1] = first
        /\ <<first, second>>[2] = second
    BY ShortSequences
  <2>3. Rank(f, first.shape) < Rank(f, second.shape)
    BY <1>14
  <2> QED
    BY <1>12, <1>13, <1>14, <2>1, <2>2, <2>3 DEF key
<1> QED
  BY <1>15, <1>16

\* Draws in the order they are painted.
Ordered(draws, f) ==
  /\ IsSequence(draws)
  /\ \A i \in 1 .. Len(draws) : IsDraw(draws[i], f) /\ Rank(f, draws[i].shape) \in 0 .. (2 * Len(f.fillBar.order) - 1)
  /\ \A i, j \in 1 .. Len(draws) : i < j => Rank(f, draws[i].shape) < Rank(f, draws[j].shape)

\* From a rank for each member of a set to the order of a sequence of them, and back.
LEMMA OrderedIsRanked ==
  ASSUME NEW draws, NEW f, NEW D, NEW r, IsSequence(draws), ToSet(draws) \subseteq D,
         r = [d \in D |-> Rank(f, d.shape)],
         \A d \in ToSet(draws) :
           IsDraw(d, f) /\ Rank(f, d.shape) \in 0 .. (2 * Len(f.fillBar.order) - 1)
  PROVE  Ordered(draws, f) <=> Ranked(draws, r)
<1>1. /\ \A i \in 1 .. Len(draws) : draws[i] \in ToSet(draws)
      /\ \A d \in ToSet(draws) : r[d] = Rank(f, d.shape)
  BY SequenceDomain
<1>2. \A d \in ToSet(draws) : r[d] \in Int
  BY <1>1
<1>3. \A i \in 1 .. Len(draws) : r[draws[i]] = Rank(f, draws[i].shape)
  BY <1>1
<1>4. \A i \in 1 .. Len(draws) :
        IsDraw(draws[i], f) /\ Rank(f, draws[i].shape) \in 0 .. (2 * Len(f.fillBar.order) - 1)
  BY <1>1
<1>5. Ordered(draws, f) => Ranked(draws, r)
  BY <1>2, <1>3 DEF Ordered, Ranked
<1>6. Ranked(draws, r) => Ordered(draws, f)
  BY <1>3, <1>4 DEF Ordered, Ranked
<1> QED
  BY <1>5, <1>6

LEMMA FillDrawsAreOrdered ==
  ASSUME FramesAreConstructed, NEW f \in Frames, NEW n
  PROVE  Ordered(FillDraws(f, n), f)
<1> DEFINE order == f.fillBar.order
           N == Len(order)
           s == [k \in DOMAIN order |-> ShapeDraws(f, n, order[k])]
           D == UNION {ToSet(s[k]) : k \in 1 .. N}
           r == [d \in D |-> Rank(f, d.shape)]
           all == FlattenSeq(s)
<1>1. N \in Nat /\ DOMAIN order = 1 .. N
  BY OrderIsInjective
<1>2. ASSUME NEW k \in 1 .. N
      PROVE  /\ IsSequence(s[k])
             /\ \A d \in ToSet(s[k]) :
                  IsDraw(d, f) /\ Rank(f, d.shape) \in {2 * (k - 1), 2 * (k - 1) + 1}
             /\ Len(s[k]) \in {1, 2}
             /\ Len(s[k]) = 2 => Rank(f, s[k][1].shape) < Rank(f, s[k][2].shape)
  <2>1. s[k] = ShapeDraws(f, n, f.fillBar.order[k])
    BY <1>1
  <2>2. k \in 1 .. Len(f.fillBar.order)
    OBVIOUS
  <2> HIDE DEF s
  <2> QED
    BY <2>1, <2>2, ShapeIsDrawn
<1>3. IsSequence(s) /\ Len(s) = N
  <2>1. s = [k \in 1 .. N |-> s[k]]
    BY <1>1
  <2> HIDE DEF s, N
  <2> QED
    BY <1>1, <2>1, ListIsSequence
<1>4. IsNested(s) /\ DOMAIN s = 1 .. N
  BY <1>1, <1>2, <1>3 DEF IsNested
<1> HIDE DEF s, N
<1>5. /\ IsSequence(all) /\ ToSet(all) = D
  BY <1>4, FlattenIsSequence DEF IsNested
<1>6. \A k \in 1 .. N : ToSet(s[k]) \subseteq D
  OBVIOUS
<1>7. \A d \in D : r[d] = Rank(f, d.shape)
  OBVIOUS
<1>8. \A d \in D : IsDraw(d, f) /\ Rank(f, d.shape) \in 0 .. (2 * N - 1)
  <2> SUFFICES ASSUME NEW k \in 1 .. N, NEW d \in ToSet(s[k])
               PROVE  IsDraw(d, f) /\ Rank(f, d.shape) \in 0 .. (2 * N - 1)
    OBVIOUS
  <2>1. IsDraw(d, f) /\ Rank(f, d.shape) \in {2 * (k - 1), 2 * (k - 1) + 1}
    BY <1>2
  <2> QED
    BY <1>1, <2>1
<1>9. r = [d \in D |-> Rank(f, d.shape)]
  OBVIOUS
<1> HIDE DEF D, r, all
<1>10. ASSUME NEW k \in 1 .. N PROVE Ranked(s[k], r)
  <2>1. \A d \in ToSet(s[k]) : d \in D /\ r[d] = Rank(f, d.shape) /\ r[d] \in Int
    BY <1>6, <1>7, <1>8
  <2>2. \A i \in 1 .. Len(s[k]) : r[s[k][i]] = Rank(f, s[k][i].shape)
    BY <1>2, <2>1, SequenceDomain
  <2>3. ASSUME NEW i \in 1 .. Len(s[k]), NEW j \in 1 .. Len(s[k]), i < j
        PROVE  r[s[k][i]] < r[s[k][j]]
    <3> DEFINE l == Len(s[k])
    <3>0. l \in {1, 2} /\ i \in 1 .. l /\ j \in 1 .. l
      BY <1>2
    <3> HIDE DEF l
    <3>1. l = 2 /\ i = 1 /\ j = 2
      BY <2>3, <3>0
    <3> QED
      BY <1>2, <2>2, <3>1 DEF l
  <2> QED
    BY <2>1, <2>3 DEF Ranked
<1>11. ASSUME NEW i \in 1 .. N, NEW j \in 1 .. N, i < j,
              NEW x \in ToSet(s[i]), NEW y \in ToSet(s[j])
       PROVE  r[x] < r[y]
  <2>1. x \in D /\ y \in D
    BY <1>6
  <2>2. r[x] \in {2 * (i - 1), 2 * (i - 1) + 1} /\ r[y] \in {2 * (j - 1), 2 * (j - 1) + 1}
    BY <1>2, <1>7, <2>1
  <2> QED
    BY <1>1, <1>11, <2>2
<1>12. Ranked(all, r)
  BY <1>3, <1>4, <1>10, <1>11, FlattenIsRanked DEF all
<1>13. Ordered(all, f)
  <2>1. ToSet(all) \subseteq D
    BY <1>5
  <2>2. \A d \in ToSet(all) :
          IsDraw(d, f) /\ Rank(f, d.shape) \in 0 .. (2 * Len(f.fillBar.order) - 1)
    BY <1>5, <1>8 DEF N
  <2> QED
    BY <1>5, <1>9, <1>12, <2>1, <2>2, OrderedIsRanked
<1> QED
  BY <1>13 DEF FillDraws, all, s

LEMMA NonemptyIsOrdered ==
  ASSUME NEW draws, NEW f, Ordered(draws, f)
  PROVE  /\ Ordered(Nonempty(draws), f)
         /\ ToSet(Nonempty(draws)) = {d \in ToSet(draws) : d.triangles # 0}
<1> DEFINE N == Len(draws)
           s == [i \in DOMAIN draws |-> IF draws[i].triangles = 0 THEN <<>> ELSE <<draws[i]>>]
           D == ToSet(draws)
           r == [d \in D |-> Rank(f, d.shape)]
           some == FlattenSeq(s)
<1>1. N \in Nat /\ DOMAIN draws = 1 .. N /\ IsSequence(draws)
      /\ \A i \in 1 .. N : draws[i] \in D
  BY SequenceDomain DEF Ordered
<1>2. \A i \in 1 .. N :
        /\ IsSequence(s[i])
        /\ ToSet(s[i]) = IF draws[i].triangles = 0 THEN {} ELSE {draws[i]}
        /\ s[i] = <<>> \/ s[i] = <<draws[i]>>
  BY <1>1, ShortSequences
<1>3. IsSequence(s) /\ Len(s) = N
  <2>1. s = [k \in 1 .. N |-> s[k]]
    BY <1>1
  <2> HIDE DEF s, N
  <2> QED
    BY <1>1, <2>1, ListIsSequence
<1>4. IsNested(s) /\ DOMAIN s = 1 .. N
  BY <1>1, <1>2, <1>3 DEF IsNested
<1> HIDE DEF s, N
<1>5. IsSequence(some) /\ ToSet(some) = UNION {ToSet(s[i]) : i \in 1 .. N}
  BY <1>4, FlattenIsSequence DEF IsNested
<1>6. \A d : d \in D <=> \E i \in 1 .. N : d = draws[i]
  BY <1>1 DEF ToSet
<1>7. ToSet(some) = {d \in D : d.triangles # 0}
  <2>1. \A d : d \in UNION {ToSet(s[i]) : i \in 1 .. N}
              <=> \E i \in 1 .. N : d = draws[i] /\ draws[i].triangles # 0
    BY <1>2
  <2> HIDE DEF D, some
  <2>2. \A d : d \in ToSet(some) <=> d \in D /\ d.triangles # 0
    BY <1>5, <1>6, <2>1
  <2> QED
    BY <2>2
<1>8. r = [d \in D |-> Rank(f, d.shape)] /\ \A d \in D : r[d] = Rank(f, d.shape)
  OBVIOUS
<1>9. \A d \in D : IsDraw(d, f) /\ Rank(f, d.shape) \in 0 .. (2 * Len(f.fillBar.order) - 1)
  <2> HIDE DEF D
  <2> QED
    BY <1>6 DEF Ordered, N
<1>10. Ranked(draws, r)
  <2>1. ToSet(draws) \subseteq D
    OBVIOUS
  <2> HIDE DEF r
  <2> QED
    BY <1>1, <1>8, <1>9, <2>1, OrderedIsRanked DEF Ordered
<1> HIDE DEF D, r, some
<1>11. ASSUME NEW i \in 1 .. N PROVE Ranked(s[i], r)
  <2>1. draws[i] \in D /\ r[draws[i]] \in Int
    BY <1>1, <1>8, <1>9
  <2>2. CASE s[i] = <<>>
    <3>1. ToSet(s[i]) = {} /\ Len(s[i]) = 0
      BY <2>2, ShortSequences
    <3> QED
      BY <3>1 DEF Ranked
  <2>3. CASE s[i] = <<draws[i]>>
    <3>1. ToSet(s[i]) = {draws[i]} /\ Len(s[i]) = 1
      BY <2>3, ShortSequences
    <3> QED
      BY <2>1, <3>1 DEF Ranked
  <2> QED
    BY <1>2, <2>2, <2>3
<1>12. ASSUME NEW i \in 1 .. N, NEW j \in 1 .. N, i < j,
              NEW x \in ToSet(s[i]), NEW y \in ToSet(s[j])
       PROVE  r[x] < r[y]
  <2>1. x = draws[i] /\ y = draws[j]
    BY <1>2
  <2> QED
    BY <1>10, <1>12, <2>1 DEF Ranked, N
<1>13. Ranked(some, r)
  BY <1>3, <1>4, <1>11, <1>12, FlattenIsRanked DEF some
<1>14. Ordered(some, f)
  <2>1. ToSet(some) \subseteq D
    BY <1>7
  <2>2. \A d \in ToSet(some) :
          IsDraw(d, f) /\ Rank(f, d.shape) \in 0 .. (2 * Len(f.fillBar.order) - 1)
    BY <1>7, <1>9
  <2> QED
    BY <1>5, <1>8, <1>13, <2>1, <2>2, OrderedIsRanked
<1> QED
  BY <1>7, <1>14 DEF Nonempty, some, s, D

\* A sequence of draws, each with a number of triangles.
Counted(s) == IsSequence(s) /\ \A i \in 1 .. Len(s) : s[i].triangles \in Nat

Runs(s) == [i \in DOMAIN s |-> Repeat(s[i].triangles, s[i].shape)]
Kept(s) == [i \in DOMAIN s |-> IF s[i].triangles = 0 THEN <<>> ELSE <<s[i]>>]

LEMMA VerticesAreJoined ==
  ASSUME NEW s, Counted(s)
  PROVE  /\ IsNested(Runs(s)) /\ Len(Runs(s)) = Len(s)
         /\ \A i \in 1 .. Len(s) : /\ Runs(s)[i] = Repeat(s[i].triangles, s[i].shape)
                                   /\ Len(Runs(s)[i]) = s[i].triangles
         /\ Vertices(s) = FlattenSeq(Runs(s))
         /\ IsSequence(Vertices(s)) /\ Triangles(s) \in Nat
         /\ IsNested(Kept(s)) /\ Len(Kept(s)) = Len(s)
         /\ \A i \in 1 .. Len(s) : Kept(s)[i] = IF s[i].triangles = 0 THEN <<>> ELSE <<s[i]>>
         /\ Nonempty(s) = FlattenSeq(Kept(s))
         /\ Counted(Nonempty(s))
<1> DEFINE N == Len(s)
           v == Runs(s)
           t == Kept(s)
<1>1. N \in Nat /\ DOMAIN s = 1 .. N /\ \A i \in 1 .. N : s[i].triangles \in Nat
  BY SequenceDomain DEF Counted
<1>2. /\ \A i \in 1 .. N : v[i] = Repeat(s[i].triangles, s[i].shape)
      /\ v = [i \in 1 .. N |-> v[i]]
      /\ \A i \in 1 .. N : t[i] = IF s[i].triangles = 0 THEN <<>> ELSE <<s[i]>>
      /\ t = [i \in 1 .. N |-> t[i]]
  BY <1>1 DEF Runs, Kept
<1>3. Vertices(s) = FlattenSeq(v) /\ Nonempty(s) = FlattenSeq(t)
  BY DEF Vertices, Runs, Nonempty, Kept
<1>4. /\ \A i \in 1 .. N : IsSequence(v[i]) /\ Len(v[i]) = s[i].triangles
      /\ \A i \in 1 .. N : IsSequence(t[i]) /\ ToSet(t[i]) \subseteq {s[i]}
  <2> SUFFICES ASSUME NEW i \in 1 .. N
               PROVE  /\ IsSequence(v[i]) /\ Len(v[i]) = s[i].triangles
                      /\ IsSequence(t[i]) /\ ToSet(t[i]) \subseteq {s[i]}
    OBVIOUS
  <2>1. IsSequence(v[i]) /\ Len(v[i]) = s[i].triangles
    BY <1>1, <1>2, RepeatIsSequence
  <2>2. IsSequence(t[i]) /\ ToSet(t[i]) \subseteq {s[i]}
    BY <1>2, ShortSequences
  <2> QED
    BY <2>1, <2>2
<1> HIDE DEF v, t, N
<1>5. /\ IsSequence(v) /\ Len(v) = N /\ DOMAIN v = 1 .. N
      /\ IsSequence(t) /\ Len(t) = N /\ DOMAIN t = 1 .. N
  BY <1>1, <1>2, ListIsSequence, SequenceDomain
<1>6. IsNested(v) /\ IsNested(t)
  BY <1>4, <1>5 DEF IsNested
<1>7. IsSequence(FlattenSeq(v)) /\ IsSequence(FlattenSeq(t))
      /\ ToSet(FlattenSeq(t)) = UNION {ToSet(t[i]) : i \in 1 .. N}
  BY <1>5, <1>6, FlattenIsSequence DEF IsNested
<1>8. Triangles(s) \in Nat
  BY <1>3, <1>7, SequenceDomain DEF Triangles
<1>9. Counted(Nonempty(s))
  <2>1. \A d \in ToSet(FlattenSeq(t)) : d.triangles \in Nat
    BY <1>1, <1>4, <1>7
  <2>2. \A i \in 1 .. Len(FlattenSeq(t)) : FlattenSeq(t)[i] \in ToSet(FlattenSeq(t))
    BY <1>7, SequenceDomain
  <2> QED
    BY <1>3, <1>7, <2>1, <2>2 DEF Counted
<1> QED
  BY <1>2, <1>3, <1>4, <1>5, <1>6, <1>7, <1>8, <1>9 DEF v, t, N

LEMMA AppendByPlace ==
  ASSUME NEW s, NEW x, IsSequence(s)
  PROVE  Append(s, x) = [i \in 1 .. (Len(s) + 1) |-> IF i = Len(s) + 1 THEN x ELSE s[i]]
<1> DEFINE A == ToSet(s) \cup {x}
           u == Append(s, x)
<1>1. s \in Seq(A) /\ x \in A
  <2>1. s \in Seq(ToSet(s)) /\ ToSet(s) \subseteq A /\ x \in A
    BY DEF IsSequence
  <2> HIDE DEF A
  <2> QED
    BY <2>1
<1> HIDE DEF A
<1>2. /\ u \in Seq(A) /\ Len(u) = Len(s) + 1 /\ Len(s) \in Nat
      /\ \A i \in 1 .. (Len(s) + 1) : u[i] = IF i = Len(s) + 1 THEN x ELSE s[i]
  BY <1>1
<1> HIDE DEF u
<1>3. u = [i \in 1 .. (Len(s) + 1) |-> u[i]]
  BY <1>2
<1> QED
  BY <1>2, <1>3 DEF u

LEMMA CountedAppend ==
  ASSUME NEW s, NEW d, Counted(s), d.triangles \in Nat
  PROVE  /\ Counted(Append(s, d))
         /\ Vertices(Append(s, d)) = Vertices(s) \o Repeat(d.triangles, d.shape)
         /\ Nonempty(Append(s, d)) =
              Nonempty(s) \o (IF d.triangles = 0 THEN <<>> ELSE <<d>>)
<1> DEFINE N == Len(s)
           u == Append(s, d)
           run == Repeat(d.triangles, d.shape)
           keep == IF d.triangles = 0 THEN <<>> ELSE <<d>>
<1>1. /\ N \in Nat /\ DOMAIN s = 1 .. N /\ IsSequence(s)
      /\ \A i \in 1 .. N : s[i].triangles \in Nat
  BY SequenceDomain DEF Counted
<1>2. IsSequence(run) /\ IsSequence(keep)
  BY RepeatIsSequence, ShortSequences
<1>3. /\ IsSequence(u) /\ Len(u) = N + 1 /\ DOMAIN u = 1 .. (N + 1)
      /\ u[N + 1] = d /\ \A i \in 1 .. N : u[i] = s[i]
  <2> DEFINE A == ToSet(s) \cup {d}
  <2>1. s \in Seq(A)
    <3>1. s \in Seq(ToSet(s)) /\ ToSet(s) \subseteq A
      BY <1>1 DEF IsSequence
    <3> HIDE DEF A
    <3> QED
      BY <3>1
  <2>2. d \in A
    OBVIOUS
  <2> HIDE DEF A
  <2>3. /\ u \in Seq(A) /\ Len(u) = N + 1 /\ DOMAIN u = 1 .. (N + 1)
        /\ u[N + 1] = d /\ \A i \in 1 .. N : u[i] = s[i]
    BY <1>1, <2>1, <2>2
  <2>4. IsSequence(u)
    BY <2>3, SeqIsSequence
  <2> QED
    BY <2>3, <2>4
<1> HIDE DEF u, N, run, keep
<1>4. Counted(u)
  <2>1. \A i \in 1 .. (N + 1) : i = N + 1 \/ i \in 1 .. N
    BY <1>1
  <2> QED
    BY <1>1, <1>3, <2>1 DEF Counted
<1>5. Runs(u) = Append(Runs(s), run) /\ Kept(u) = Append(Kept(s), keep)
  <2> DEFINE a == Append(Runs(s), run)
             b == Append(Kept(s), keep)
  <2>1. /\ IsSequence(Runs(s)) /\ Len(Runs(s)) = N
        /\ \A i \in 1 .. N : Runs(s)[i] = Repeat(s[i].triangles, s[i].shape)
        /\ IsSequence(Kept(s)) /\ Len(Kept(s)) = N
        /\ \A i \in 1 .. N : Kept(s)[i] = IF s[i].triangles = 0 THEN <<>> ELSE <<s[i]>>
    BY VerticesAreJoined DEF IsNested, N
  <2>3. /\ a = [i \in 1 .. (N + 1) |-> IF i = N + 1 THEN run ELSE Runs(s)[i]]
        /\ b = [i \in 1 .. (N + 1) |-> IF i = N + 1 THEN keep ELSE Kept(s)[i]]
    BY <2>1, AppendByPlace
  <2>4. \A i \in 1 .. (N + 1) : i # N + 1 => i \in 1 .. N
    BY <1>1
  <2>5. Runs(u) = [i \in 1 .. (N + 1) |-> Repeat(u[i].triangles, u[i].shape)]
        /\ Kept(u) = [i \in 1 .. (N + 1) |-> IF u[i].triangles = 0 THEN <<>> ELSE <<u[i]>>]
    BY <1>3 DEF Runs, Kept
  <2>6. \A i \in 1 .. (N + 1) :
          /\ Repeat(u[i].triangles, u[i].shape) = IF i = N + 1 THEN run ELSE Runs(s)[i]
          /\ (IF u[i].triangles = 0 THEN <<>> ELSE <<u[i]>>) =
               IF i = N + 1 THEN keep ELSE Kept(s)[i]
    <3> SUFFICES ASSUME NEW i \in 1 .. (N + 1)
                 PROVE  /\ Repeat(u[i].triangles, u[i].shape) = IF i = N + 1 THEN run ELSE Runs(s)[i]
                        /\ (IF u[i].triangles = 0 THEN <<>> ELSE <<u[i]>>) =
                             IF i = N + 1 THEN keep ELSE Kept(s)[i]
      OBVIOUS
    <3>1. CASE i = N + 1
      BY <1>3, <3>1 DEF run, keep
    <3>2. CASE i # N + 1
      BY <1>3, <2>1, <2>4, <3>2
    <3> QED
      BY <3>1, <3>2
  <2> HIDE DEF a, b
  <2>7. Runs(u) = a
    BY <2>3, <2>5, <2>6
  <2>8. Kept(u) = b
    BY <2>3, <2>5, <2>6
  <2> QED
    BY <2>7, <2>8 DEF a, b
<1>6. /\ Vertices(u) = FlattenSeq(Runs(u)) /\ Nonempty(u) = FlattenSeq(Kept(u))
      /\ Vertices(s) = FlattenSeq(Runs(s)) /\ Nonempty(s) = FlattenSeq(Kept(s))
      /\ IsNested(Runs(s)) /\ IsNested(Kept(s))
  BY <1>4, VerticesAreJoined
<1>7. /\ FlattenSeq(Append(Runs(s), run)) = FlattenSeq(Runs(s)) \o run
      /\ FlattenSeq(Append(Kept(s), keep)) = FlattenSeq(Kept(s)) \o keep
  BY <1>2, <1>6, FlattenAppend
<1>8. Vertices(u) = Vertices(s) \o run /\ Nonempty(u) = Nonempty(s) \o keep
  BY <1>5, <1>6, <1>7
<1> QED
  BY <1>4, <1>8 DEF u, run, keep

\* Draws without triangles take no room.
LEMMA NonemptyKeepsVertices ==
  ASSUME NEW s, Counted(s)
  PROVE  Vertices(Nonempty(s)) = Vertices(s)
<1> DEFINE P(m) == SubSeq(s, 1, m)
           Same(m) == Vertices(Nonempty(P(m))) = Vertices(P(m)) /\ Counted(P(m))
           T == {m \in 0 .. Len(s) : ~Same(m)}
<1>1. /\ Len(s) \in Nat /\ P(0) = <<>> /\ P(Len(s)) = s
      /\ \A m \in 1 .. Len(s) : P(m) = Append(P(m - 1), s[m]) /\ s[m].triangles \in Nat
  BY PrefixSteps, SequenceDomain DEF Counted
<1> HIDE DEF P
<1>2. Same(0)
  <2>1. Counted(<<>>)
    <3>1. IsSequence(<<>>)
      BY ShortSequences, Zenon
    <3>2. Len(<<>>) = 0 /\ 1 .. 0 = {}
      OBVIOUS
    <3> QED
      BY <3>1, <3>2 DEF Counted
  <2>2. Nonempty(<<>>) = <<>>
    <3>1. Kept(<<>>) = <<>> /\ Len(<<>>) = 0
      BY DEF Kept
    <3>2. FlattenSeq(<<>>) = <<>>
      BY <3>1 DEF FlattenSeq
    <3> QED
      BY <2>1, <3>1, <3>2, VerticesAreJoined
  <2> QED
    BY <1>1, <2>1, <2>2
<1>3. ASSUME NEW m \in 1 .. Len(s), Same(m - 1) PROVE Same(m)
  <2> DEFINE x == P(m - 1)
             d == s[m]
  <2>1. Counted(x) /\ d.triangles \in Nat /\ Vertices(Nonempty(x)) = Vertices(x)
        /\ P(m) = Append(x, d)
    BY <1>1, <1>3
  <2> HIDE DEF x, d
  <2>2. /\ Counted(P(m))
        /\ Vertices(P(m)) = Vertices(x) \o Repeat(d.triangles, d.shape)
        /\ Nonempty(P(m)) = Nonempty(x) \o (IF d.triangles = 0 THEN <<>> ELSE <<d>>)
    BY <2>1, CountedAppend
  <2>3. IsSequence(Vertices(x)) /\ Counted(Nonempty(x)) /\ IsSequence(Nonempty(x))
    BY <2>1, VerticesAreJoined DEF Counted
  <2>4. \A y : IsSequence(y) => y \o <<>> = y /\ y \o <<d>> = Append(y, d)
    BY DEF IsSequence
  <2>5. CASE d.triangles = 0
    <3>1. Repeat(d.triangles, d.shape) = <<>>
      BY <2>5 DEF Repeat
    <3>2. Vertices(P(m)) = Vertices(x) /\ Nonempty(P(m)) = Nonempty(x)
      BY <2>2, <2>3, <2>4, <2>5, <3>1
    <3> QED
      BY <2>1, <2>2, <3>2
  <2>6. CASE d.triangles # 0
    <3>1. Nonempty(P(m)) = Append(Nonempty(x), d)
      BY <2>2, <2>3, <2>4, <2>6
    <3>2. Vertices(Append(Nonempty(x), d)) = Vertices(Nonempty(x)) \o Repeat(d.triangles, d.shape)
      BY <2>1, <2>3, CountedAppend
    <3> QED
      BY <2>1, <2>2, <3>1, <3>2
  <2> QED
    BY <2>5, <2>6
<1> HIDE DEF Same
<1>4. T = {}
  <2> SUFFICES ASSUME T # {} PROVE FALSE
    OBVIOUS
  <2>1. PICK m \in T : \A k \in T : m <= k
    <3>1. T \subseteq Nat
      BY <1>1
    <3> HIDE DEF T
    <3> QED
      BY <3>1, LeastNatural
  <2>2. m \in 0 .. Len(s) /\ ~Same(m)
    OBVIOUS
  <2>3. m # 0
    BY <1>2, <2>2
  <2>4. m \in 1 .. Len(s) /\ m - 1 \in 0 .. Len(s) /\ m - 1 \notin T
    BY <1>1, <2>1, <2>2, <2>3
  <2>5. Same(m - 1)
    BY <2>4
  <2> QED
    BY <1>3, <2>2, <2>4, <2>5
<1>5. Same(Len(s))
  BY <1>1, <1>4
<1> QED
  BY <1>1, <1>5 DEF Same

\* Each draw's triangles lie behind those of the draws before it.
LEMMA DrawInVertices ==
  ASSUME NEW s, Counted(s), NEW i \in 1 .. Len(s)
  PROVE  LET b == Triangles(SubSeq(s, 1, i - 1))
         IN /\ b \in Nat /\ b + s[i].triangles <= Triangles(s)
            /\ \A k \in 1 .. s[i].triangles : Vertices(s)[b + k] = s[i].shape
<1> DEFINE p == SubSeq(s, 1, i - 1)
           v == Runs(s)
           t == s[i].triangles
<1>1. /\ IsNested(v) /\ Len(v) = Len(s) /\ Vertices(s) = FlattenSeq(v)
      /\ \A j \in 1 .. Len(s) : v[j] = Repeat(s[j].triangles, s[j].shape)
      /\ Len(v[i]) = t
  BY VerticesAreJoined
<1>2. IsSequence(s) /\ Len(s) \in Nat /\ t \in Nat
  BY SequenceDomain DEF Counted
<1>3. i - 1 \in 0 .. Len(s) /\ \A j \in 1 .. (i - 1) : j \in 1 .. Len(s)
  BY <1>2
<1>4. IsSequence(p) /\ Len(p) = i - 1 /\ \A j \in 1 .. (i - 1) : p[j] = s[j]
  BY <1>2, <1>3, PrefixSteps
<1>5. Counted(p)
  BY <1>3, <1>4 DEF Counted
<1> HIDE DEF p, v, t
<1>6. /\ IsSequence(Runs(p)) /\ Len(Runs(p)) = i - 1 /\ Vertices(p) = FlattenSeq(Runs(p))
      /\ \A j \in 1 .. (i - 1) : Runs(p)[j] = Repeat(p[j].triangles, p[j].shape)
  BY <1>4, <1>5, VerticesAreJoined DEF IsNested
<1>7. Runs(p) = SubSeq(v, 1, i - 1)
  <2> DEFINE q == SubSeq(v, 1, i - 1)
  <2>1. IsSequence(q) /\ Len(q) = i - 1 /\ \A j \in 1 .. (i - 1) : q[j] = v[j]
    BY <1>1, <1>3, PrefixSteps DEF IsNested
  <2> HIDE DEF q
  <2>2. q = [j \in 1 .. (i - 1) |-> q[j]] /\ Runs(p) = [j \in 1 .. (i - 1) |-> Runs(p)[j]]
    BY <1>6, <2>1, SequenceDomain
  <2>3. \A j \in 1 .. (i - 1) : q[j] = Runs(p)[j]
    BY <1>1, <1>3, <1>4, <1>6, <2>1
  <2>4. Runs(p) = q
    BY <2>2, <2>3
  <2> QED
    BY <2>4 DEF q
<1> DEFINE b == Len(FlattenSeq(SubSeq(v, 1, i - 1)))
<1>8. /\ b \in Nat /\ b + Len(v[i]) <= Len(FlattenSeq(v))
      /\ \A k \in 1 .. Len(v[i]) : FlattenSeq(v)[b + k] = v[i][k]
  <2>1. i \in 1 .. Len(v)
    BY <1>1
  <2> QED
    BY <1>1, <2>1, PieceInPlace, Zenon
<1>9. b = Triangles(p) /\ Len(FlattenSeq(v)) = Triangles(s)
  BY <1>1, <1>6, <1>7 DEF Triangles
<1>10. \A k \in 1 .. t : v[i][k] = s[i].shape
  BY <1>1, <1>2, RepeatIsSequence DEF t
<1> HIDE DEF b
<1>11. /\ b \in Nat /\ b + t <= Triangles(s)
       /\ \A k \in 1 .. t : Vertices(s)[b + k] = s[i].shape
  BY <1>1, <1>8, <1>9, <1>10
<1> QED
  BY <1>9, <1>11, Zenon DEF t, p

-----------------------------------------------------------------------------
(* Whole renders *)

\* What a render leaves behind, and what it tells its caller.
Rendered(c, d) ==
  /\ IsCall(d)
  /\ d.error \in {"Ok", "ReadbackFailed", "DeviceLost", "OutOfMemory"}
  /\ Clean(c) => /\ "memory" \in d.raised \/ d.raised = {}
                 /\ d.error = "Ok" => Clean(d)

\* A frame's plot lies within every target that is large enough for the frame.
LEMMA FrameFitsTarget ==
  ASSUME FramesAreConstructed, NEW f \in Frames, NEW w \in Nat, NEW h \in Nat,
         w >= f.canvas[1], h >= f.canvas[2]
  PROVE  /\ w # 0 /\ f.canvas # <<0, 0>>
         /\ Holds(f.plot, <<w, h>>)
<1>1. /\ f.canvas[1] \in Nat \ {0} /\ f.canvas[2] \in Nat \ {0} /\ Holds(f.plot, f.canvas)
      /\ f.plot.x0 \in Int /\ f.plot.x1 \in Int /\ f.plot.y0 \in Int /\ f.plot.y1 \in Int
  BY FrameIsWhole
<1>2. <<0, 0>>[1] = 0 /\ <<w, h>>[1] = w /\ <<w, h>>[2] = h
  OBVIOUS
<1>3. f.plot.x1 <= w /\ f.plot.y1 <= h
  BY <1>1 DEF Holds
<1> QED
  BY <1>1, <1>2, <1>3 DEF Holds

\* The last step of both renders: the copy is awaited and read.
LEMMA CopyIsAwaited ==
  ASSUME NEW c, NEW e, Proceeds(c, e), Clean(c) => Clean(e), e.gpu.readback.size # 0
  PROVE  LET d == ReadBack(e)
         IN /\ Rendered(c, d)
            /\ d.error = "Ok" => d = e
            /\ d.raised = {} => e.raised = {}
<1> DEFINE d == ReadBack(e)
<1>1. /\ IsCall(d)
      /\ d.error \in {"Ok", "ReadbackFailed", "DeviceLost", "OutOfMemory"}
      /\ e.raised \subseteq d.raised
      /\ d.error = "Ok" => d = e
      /\ Clean(e) /\ e.gpu.readback.size # 0 => "memory" \in d.raised \/ d.raised = {}
  BY PictureIsReadBack DEF Proceeds
<1> HIDE DEF d
<1>2. d.raised = {} => e.raised = {}
  BY <1>1
<1>3. Rendered(c, d)
  BY <1>1 DEF Rendered
<1> QED
  BY <1>1, <1>2, <1>3 DEF d

LEMMA ProceedsOn ==
  ASSUME NEW a, NEW b, NEW c, Proceeds(a, b), Proceeds(b, c)
  PROVE  Proceeds(a, c) /\ (c.raised = {} => b.raised = {})
BY DEF Proceeds

\* A sequence and one more.
LEMMA OneMore ==
  ASSUME NEW s, NEW x, IsSequence(s)
  PROVE  /\ IsSequence(s \o <<x>>) /\ Len(s \o <<x>>) = Len(s) + 1
         /\ \A i \in 1 .. Len(s) : (s \o <<x>>)[i] = s[i]
         /\ (s \o <<x>>)[Len(s) + 1] = x
<1> DEFINE one == <<x>>
<1>1. IsSequence(one) /\ Len(one) = 1 /\ one[1] = x
  BY ShortSequences
<1> HIDE DEF one
<1>0. IsSequence(one)
  BY <1>1
<1>2. IsSequence(s \o one)
  BY <1>0, ConcatIsSequence
<1>3. /\ Len(s \o one) = Len(s) + Len(one)
      /\ \A i \in 1 .. Len(s) : (s \o one)[i] = s[i]
      /\ \A i \in 1 .. Len(one) : (s \o one)[Len(s) + i] = one[i]
  BY <1>0, ConcatByPlace
<1>4. (s \o one)[Len(s) + 1] = x
  BY <1>1, <1>3
<1> QED
  BY <1>1, <1>2, <1>3, <1>4 DEF one

LEMMA LinesAreRendered ==
  ASSUME FramesAreConstructed, RendererAssumption, NEW f \in Frames, NEW n,
         NEW c, IsCall(c), c.error = "Ok",
         f.canvas[1] \in 1 .. MaxTexture, f.canvas[2] \in 1 .. MaxTexture,
         LineTriangles(f) <= MaxBuffer, ReadbackSize(f) <= MaxBuffer
  PROVE  LET d == RenderPrepared(c, f, n)
             shapes == [i \in 1 .. (IF LineTriangles(f) = 0 THEN 0 ELSE 1) |-> Lines(n)]
         IN /\ Rendered(c, d)
            /\ d.error = "Ok" /\ d.raised = {} =>
                 Pictures(d.gpu.readback.data, n, IF LineTriangles(f) = 0 THEN 0 ELSE 1, shapes, f)
<1> DEFINE count == LineTriangles(f)
           all == Repeat(count, Lines(n))
           uniform == Uniform(f, f.width, LineColour)
           p == Pass(f, n, TRUE, 1, count)
           passes == <<p>>
           c1 == WriteUniform(c, uniform)
           c2 == EnsureTarget(c1, f.canvas[1], f.canvas[2])
           cb == EnsureBuffer(c2, "vertex", count)
           c3 == IF count = 0 THEN c2 ELSE WriteVertices(cb, all)
           c4 == EnsureBuffer(c3, "readback", ReadbackSize(f))
           extent == f.canvas
           c5 == Submit(c4, passes, extent)
           d == ReadBack(c5)
<1>0. RenderPrepared(c, f, n) = d
  BY Zenon DEF RenderPrepared
<1>1. /\ count \in Nat /\ count <= MaxBuffer
      /\ ReadbackSize(f) \in 1 .. MaxBuffer /\ MaxBuffer \in Nat /\ MaxTexture \in Nat
  BY LinesAreCounted, ReadbackIsPositive, FrameIsWhole DEF RendererAssumption
<1>2. /\ p.clears /\ p.frame = n /\ p.from = 1 /\ p.count = count /\ p.scissor = f.plot
  BY DEF Pass
<1>3. passes = <<>> \/ passes = <<p>>
  OBVIOUS
<1>4. passes # <<>>
  OBVIOUS
<1> HIDE DEF count, uniform, p, passes, extent
<1>5. /\ Proceeds(c, c1) /\ c1.gpu.uniform = uniform
      /\ Clean(c) => Clean(c1)
  BY UniformIsWritten
<1> HIDE DEF c1
<1>6. /\ Proceeds(c1, c2) /\ c2.gpu.target.w >= f.canvas[1] /\ c2.gpu.target.h >= f.canvas[2]
      /\ c2.gpu.uniform = uniform
      /\ Clean(c1) => Clean(c2)
  <2>1. /\ Proceeds(c1, c2) /\ c2.gpu.target.w >= f.canvas[1] /\ c2.gpu.target.h >= f.canvas[2]
        /\ \A part \in Parts \ {"target"} : c2.gpu[part] = c1.gpu[part]
        /\ Clean(c1) => Clean(c2)
    <3>1. IsCall(c1) /\ c1.error = "Ok"
      BY <1>5 DEF Proceeds
    <3> QED
      BY <3>1, TargetIsEnsured, Zenon
  <2>2. c2.gpu.uniform = c1.gpu.uniform
    BY <2>1 DEF Parts
  <2> QED
    BY <1>5, <2>1, <2>2
<1> HIDE DEF c2
<1>7. /\ Proceeds(c2, c3) /\ c3.gpu.target = c2.gpu.target /\ c3.gpu.uniform = c2.gpu.uniform
      /\ Clean(c2) => Clean(c3)
      /\ count # 0 /\ c3.raised = {} =>
           \E rest : IsSequence(rest) /\ c3.gpu.vertex.data = all \o rest
  <2>1. CASE count = 0
    <3>1. c3 = c2
      BY <2>1
    <3> HIDE DEF c3
    <3> QED
      BY <1>6, <2>1, <3>1 DEF Proceeds
  <2>2. CASE count # 0
    <3>1. count \in 1 .. MaxBuffer
      BY <1>1, <2>2
    <3>2. /\ Proceeds(c2, cb) /\ cb.gpu["vertex"].size # 0
          /\ \A part \in Parts \ {"vertex"} : cb.gpu[part] = c2.gpu[part]
          /\ Clean(c2) => Clean(cb)
      BY <1>6, <3>1, BufferIsEnsured DEF Proceeds
    <3>3. IsSequence(all) /\ all # <<>>
      <4>1. IsSequence(all) /\ Len(all) = count
        BY <1>1, RepeatIsSequence
      <4> QED
        BY <2>2, <4>1
    <3> DEFINE w == WriteVertices(cb, all)
    <3> HIDE DEF cb, all
    <3>4. /\ Proceeds(cb, w)
          /\ \A part \in Parts \ {"vertex"} : w.gpu[part] = cb.gpu[part]
          /\ w.raised = {} =>
               \E rest : IsSequence(rest) /\ w.gpu.vertex.data = all \o rest
          /\ Clean(cb) /\ cb.gpu.vertex.size # 0 => Clean(w)
      BY <3>2, <3>3, VerticesAreWritten DEF Proceeds
    <3> HIDE DEF w
    <3>5. c3 = w
      BY <2>2 DEF w
    <3>6. "target" \in Parts \ {"vertex"} /\ "uniform" \in Parts \ {"vertex"}
      BY DEF Parts
    <3>7. Proceeds(c2, w)
      BY <3>2, <3>4, ProceedsOn
    <3> HIDE DEF c3
    <3> QED
      BY <3>2, <3>4, <3>5, <3>6, <3>7
  <2> QED
    BY <2>1, <2>2
<1> HIDE DEF c3
<1>8. /\ Proceeds(c3, c4) /\ c4.gpu["readback"].size # 0
      /\ c4.gpu.target = c3.gpu.target /\ c4.gpu.uniform = c3.gpu.uniform
      /\ c4.gpu.vertex = c3.gpu.vertex
      /\ Clean(c3) => Clean(c4)
  <2>1. /\ Proceeds(c3, c4) /\ c4.gpu["readback"].size # 0
        /\ \A part \in Parts \ {"readback"} : c4.gpu[part] = c3.gpu[part]
        /\ Clean(c3) => Clean(c4)
    BY <1>1, <1>7, BufferIsEnsured DEF Proceeds
  <2> QED
    BY <2>1 DEF Parts
<1> HIDE DEF c4
<1>9. /\ Proceeds(c4, c5) /\ Keeps(c4, c5) /\ c5.gpu.uniform = c4.gpu.uniform
      /\ c5.raised = {} =>
           /\ c5.gpu.target.paint = PaintOver(c4, p, passes)
           /\ extent # <<0, 0>> => c5.gpu.readback.data = PaintOver(c4, p, passes)
      /\ Clean(c4) /\ Fits(c4, p, passes, extent) => Clean(c5)
  <2>1. IsCall(c4) /\ c4.error = "Ok"
    BY <1>8 DEF Proceeds
  <2> QED
    BY <1>3, <2>1, WorkIsSubmitted, Zenon
<1> HIDE DEF c5
<1>10. /\ extent # <<0, 0>> /\ Fits(c4, p, passes, extent)
  <2>1. c4.gpu.target.w \in Nat /\ c4.gpu.target.h \in Nat
    BY <1>1, <1>8 DEF Proceeds, IsCall, ObjectsTyped
  <2>2. c4.gpu.target.w >= f.canvas[1] /\ c4.gpu.target.h >= f.canvas[2]
    BY <1>6, <1>7, <1>8
  <2>3. /\ c4.gpu.target.w # 0 /\ extent # <<0, 0>>
        /\ Holds(f.plot, <<c4.gpu.target.w, c4.gpu.target.h>>)
    BY <2>1, <2>2, FrameFitsTarget DEF extent
  <2>4. extent[1] <= c4.gpu.target.w /\ extent[2] <= c4.gpu.target.h
    BY <2>1, <2>2 DEF extent
  <2> QED
    BY <1>2, <1>8, <2>3, <2>4 DEF Fits
<1>11. Proceeds(c, c5) /\ (c5.raised = {} => c3.raised = {})
  <2>1. Proceeds(c, c2)
    BY <1>5, <1>6, ProceedsOn, Zenon
  <2>2. Proceeds(c, c3)
    BY <1>7, <2>1, ProceedsOn, Zenon
  <2>3. Proceeds(c, c4) /\ (c4.raised = {} => c3.raised = {})
    BY <1>8, <2>2, ProceedsOn, Zenon
  <2> QED
    BY <1>9, <2>3, ProceedsOn, Zenon
<1>12. /\ Rendered(c, d) /\ (d.error = "Ok" => d = c5) /\ (d.raised = {} => c5.raised = {})
  <2>1. Clean(c) => Clean(c5)
    BY <1>5, <1>6, <1>7, <1>8, <1>9, <1>10
  <2>2. c5.gpu.readback.size # 0
    BY <1>8, <1>9 DEF Keeps
  <2> QED
    BY <1>11, <2>1, <2>2, CopyIsAwaited
<1> HIDE DEF d
<1> DEFINE m == IF count = 0 THEN 0 ELSE 1
           shapes == [i \in 1 .. m |-> Lines(n)]
           start == <<[cleared |-> n]>>
           picture == d.gpu.readback.data
<1>13. ASSUME d.error = "Ok", d.raised = {} PROVE Pictures(picture, n, m, shapes, f)
  <2>1. picture = PaintOver(c4, p, passes) /\ c3.raised = {}
    BY <1>9, <1>10, <1>11, <1>12, <1>13
  <2>2. PaintOver(c4, p, passes) = start \o Painted(p, c4.gpu)
    <3>1. Cleared(p, c4.gpu.target) = start
      BY <1>2, Zenon DEF Cleared
    <3> QED
      BY <1>4, <3>1, Zenon DEF PaintOver
  <2>3. IsSequence(start) /\ Len(start) = 1 /\ start[1] = [cleared |-> n]
    BY ShortSequences
  <2> HIDE DEF start, picture
  <2>4. CASE count = 0
    <3>1. Painted(p, c4.gpu) = <<>>
      BY <1>2, <2>4 DEF Painted
    <3>2. picture = start
      BY <2>1, <2>2, <2>3, <3>1 DEF IsSequence
    <3>3. m = 0 /\ 1 .. 0 = {}
      BY <2>4
    <3> HIDE DEF m, shapes
    <3> QED
      BY <2>3, <3>2, <3>3 DEF Pictures
  <2>5. CASE count # 0
    <3> DEFINE x == [what |-> SubSeq(c4.gpu.vertex.data, p.from, p.from + p.count - 1),
                     uniform |-> c4.gpu.uniform, scissor |-> p.scissor,
                     over |-> <<c4.gpu.target.w, c4.gpu.target.h>>]
    <3>1. Painted(p, c4.gpu) = <<x>>
      BY <1>2, <2>5, Zenon DEF Painted
    <3>2. PICK rest : IsSequence(rest) /\ c3.gpu.vertex.data = all \o rest
      BY <1>7, <2>1, <2>5
    <3>3. x.what = Repeat(count, Lines(n))
      <4>1. IsSequence(all) /\ AllAre(all, 0, count, Lines(n))
        <5>1. /\ IsSequence(all) /\ Len(all) = count
              /\ \A i \in 1 .. count : all[i] = Lines(n)
          BY <1>1, RepeatIsSequence
        <5> HIDE DEF all
        <5> QED
          BY <1>1, <2>5, <5>1 DEF AllAre
      <4>2. x.what = SubSeq(c4.gpu.vertex.data, 1, 1 + count - 1)
        BY <1>2
      <4>3. c4.gpu.vertex.data = all \o rest
        BY <1>8, <3>2
      <4> DEFINE lines == Lines(n)
                 b == 0
      <4>4. b = 0 /\ b + 1 = 1 /\ lines = Lines(n)
        OBVIOUS
      <4> HIDE DEF x, all, lines, b
      <4>5. AllAre(all, b, count, lines)
        BY <4>1, <4>4
      <4>6. Found(all \o rest, b, count, lines)
        BY <3>2, <4>1, <4>5, PieceIsFound
      <4>7. x.what = SubSeq(all \o rest, b + 1, b + 1 + count - 1)
        BY <4>2, <4>3, <4>4, Zenon
      <4> QED
        BY <4>4, <4>6, <4>7 DEF Found
    <3>4. x.uniform = uniform
      BY <1>6, <1>7, <1>8
    <3> HIDE DEF x
    <3>5. picture = start \o <<x>>
      BY <2>1, <2>2, <3>1
    <3>6. IsSequence(picture) /\ Len(picture) = 2 /\ picture[1] = start[1] /\ picture[2] = x
      <4>1. /\ IsSequence(picture) /\ Len(picture) = Len(start) + 1
            /\ \A i \in 1 .. Len(start) : picture[i] = start[i]
            /\ picture[Len(start) + 1] = x
        <5>1. IsSequence(start)
          BY <2>3
        <5>2. /\ IsSequence(start \o <<x>>) /\ Len(start \o <<x>>) = Len(start) + 1
              /\ \A i \in 1 .. Len(start) : (start \o <<x>>)[i] = start[i]
              /\ (start \o <<x>>)[Len(start) + 1] = x
          BY <5>1, OneMore
        <5> QED
          BY <3>5, <5>2, Zenon
      <4> QED
        BY <2>3, <4>1
    <3>7. ExpectedWidth(f, Lines(n)) = f.width
      BY DEF ExpectedWidth, Lines, Shape
    <3>8. x.uniform = Uniform(f, ExpectedWidth(f, Lines(n)), LineColour)
      BY <3>4, <3>7 DEF uniform
    <3>9. m = 1 /\ shapes[1] = Lines(n) /\ 1 .. 1 = {1} /\ count \in Nat \ {0}
      BY <1>1, <2>5
    <3> HIDE DEF m, shapes
    <3> QED
      BY <2>3, <3>3, <3>6, <3>8, <3>9 DEF Pictures
  <2> QED
    BY <2>4, <2>5
<1> QED
  BY <1>0, <1>12, <1>13, Zenon DEF count

-----------------------------------------------------------------------------
(* Frames with filled shapes *)

\* The i-th thing a frame paints: its shape, its triangles and where these lie.
PaintCount(f, draws) == Len(draws) + (IF LineTriangles(f) = 0 THEN 0 ELSE 1)

PaintShape(n, draws, i) == IF i <= Len(draws) THEN draws[i].shape ELSE Lines(n)

PaintSize(f, draws, i) == IF i <= Len(draws) THEN draws[i].triangles ELSE LineTriangles(f)

PaintPlace(draws, i) ==
  IF i <= Len(draws) THEN Triangles(SubSeq(draws, 1, i - 1)) ELSE Triangles(draws)

PaintData(f, n, draws) == Vertices(draws) \o Repeat(LineTriangles(f), Lines(n))

\* Draws that take room.
Drawn(f, draws) ==
  /\ Ordered(draws, f) /\ Len(draws) # 0
  /\ \A i \in 1 .. Len(draws) : draws[i].triangles # 0

LEMMA DrawnIsCounted ==
  ASSUME NEW f, NEW draws, Ordered(draws, f)
  PROVE  Counted(draws)
BY DEF Ordered, Counted, IsDraw

\* The vertices of everything that is painted lie where the passes look for them.
LEMMA PaintsLieInData ==
  ASSUME FramesAreConstructed, NEW f \in Frames, NEW n, NEW draws, Drawn(f, draws)
  PROVE  /\ IsSequence(PaintData(f, n, draws))
         /\ Len(PaintData(f, n, draws)) = Triangles(draws) + LineTriangles(f)
         /\ PaintCount(f, draws) \in Nat \ {0}
         /\ \A i \in 1 .. PaintCount(f, draws) :
              AllAre(PaintData(f, n, draws), PaintPlace(draws, i), PaintSize(f, draws, i),
                     PaintShape(n, draws, i))
<1> DEFINE count == LineTriangles(f)
           v == Vertices(draws)
           run == Repeat(count, Lines(n))
           N == Len(draws)
           data == v \o run
           m == PaintCount(f, draws)
<1>1. /\ count \in Nat /\ N \in Nat \ {0}
      /\ \A i \in 1 .. N : draws[i].triangles \in Nat \ {0}
  BY LinesAreCounted, SequenceDomain DEF Drawn, Ordered, IsDraw
<1>2. Counted(draws) /\ IsSequence(v) /\ Len(v) = Triangles(draws) /\ Triangles(draws) \in Nat
  <2>1. Counted(draws)
    BY DrawnIsCounted DEF Drawn
  <2> QED
    BY <2>1, VerticesAreJoined DEF Triangles
<1>3. /\ IsSequence(run) /\ Len(run) = count /\ \A k \in 1 .. count : run[k] = Lines(n)
  BY <1>1, RepeatIsSequence
<1>4. m = N + (IF count = 0 THEN 0 ELSE 1) /\ m \in Nat \ {0}
  BY <1>1 DEF PaintCount
<1>5. PaintData(f, n, draws) = data
  BY DEF PaintData
<1> HIDE DEF run, v, m, N
<1>6. IsSequence(data)
  BY <1>2, <1>3, ConcatIsSequence
<1>7. /\ Len(data) = Len(v) + Len(run)
      /\ \A k \in 1 .. Len(v) : data[k] = v[k]
      /\ \A k \in 1 .. Len(run) : data[Len(v) + k] = run[k]
  <2>1. IsSequence(v) /\ IsSequence(run)
    BY <1>2, <1>3
  <2> QED
    BY <2>1, ConcatByPlace
<1> HIDE DEF data, count
<1>8. ASSUME NEW i \in 1 .. m
      PROVE  AllAre(data, PaintPlace(draws, i), PaintSize(f, draws, i), PaintShape(n, draws, i))
  <2> DEFINE b == PaintPlace(draws, i)
             t == PaintSize(f, draws, i)
             x == PaintShape(n, draws, i)
  <2>1. CASE i <= N
    <3>1. i \in 1 .. N
      BY <1>1, <1>4, <2>1
    <3>2. b = Triangles(SubSeq(draws, 1, i - 1)) /\ t = draws[i].triangles /\ x = draws[i].shape
      BY <2>1 DEF PaintPlace, PaintSize, PaintShape, N
    <3> HIDE DEF b, t, x
    <3>3. /\ b \in Nat /\ b + t <= Triangles(draws)
          /\ \A k \in 1 .. t : v[b + k] = x
      <4>1. i \in 1 .. Len(draws)
        BY <3>1 DEF N
      <4> QED
        BY <1>2, <3>2, <4>1, DrawInVertices DEF v
    <3>4. t \in Nat \ {0}
      BY <1>1, <3>1, <3>2
    <3>5. b + t <= Len(data)
      BY <1>1, <1>2, <1>3, <1>7, <3>3, <3>4
    <3>6. ASSUME NEW k \in 1 .. t PROVE data[b + k] = x
      <4>1. b + k \in 1 .. Len(v)
        BY <1>2, <3>3, <3>4
      <4> QED
        BY <1>7, <3>3, <4>1
    <3> QED
      BY <3>3, <3>4, <3>5, <3>6 DEF AllAre, b, t, x
  <2>2. CASE ~(i <= N)
    <3>1. count \in Nat \ {0}
      BY <1>1, <1>4, <2>2
    <3>2. b = Triangles(draws) /\ t = count /\ x = Lines(n)
      BY <2>2 DEF PaintPlace, PaintSize, PaintShape, N, count
    <3> HIDE DEF b, t, x
    <3>3. b \in Nat /\ b + t <= Len(data)
      BY <1>2, <1>3, <1>7, <3>1, <3>2
    <3>4. ASSUME NEW k \in 1 .. t PROVE data[b + k] = x
      <4>1. k \in 1 .. Len(run) /\ b = Len(v)
        BY <1>2, <1>3, <3>2
      <4> QED
        BY <1>3, <1>7, <3>2, <4>1
    <3> QED
      BY <3>1, <3>2, <3>3, <3>4 DEF AllAre, b, t, x
  <2> QED
    BY <2>1, <2>2
<1> QED
  BY <1>2, <1>3, <1>4, <1>5, <1>6, <1>7, <1>8 DEF m, count

\* What the pass of the i-th thing does.
PassOf(step, f, n, draws, i) ==
  /\ step.pass = Pass(f, n, i = 1, PaintPlace(draws, i) + 1, PaintSize(f, draws, i))
  /\ step.uniform =
       Uniform(f, ExpectedWidth(f, PaintShape(n, draws, i)),
               IF PaintShape(n, draws, i) = Lines(n) THEN LineColour
               ELSE PaintShape(n, draws, i))

LEMMA PassesAreInOrder ==
  ASSUME FramesAreConstructed, NEW f \in Frames, NEW n, NEW draws, Drawn(f, draws)
  PROVE  /\ IsSequence(Passes(f, n, draws)) /\ Len(Passes(f, n, draws)) = PaintCount(f, draws)
         /\ \A i \in 1 .. PaintCount(f, draws) : PassOf(Passes(f, n, draws)[i], f, n, draws, i)
<1> DEFINE Before(i) == Triangles(SubSeq(draws, 1, i - 1))
           count == LineTriangles(f)
           OfShape(i) == [pass |-> Pass(f, n, i = 1, Before(i) + 1, draws[i].triangles),
                          uniform |-> Uniform(f, draws[i].width, draws[i].shape)]
           OfLines == [pass |-> Pass(f, n, FALSE, Triangles(draws) + 1, count),
                       uniform |-> Uniform(f, f.width, LineColour)]
           N == Len(draws)
           m == PaintCount(f, draws)
           fills == [i \in 1 .. N |-> OfShape(i)]
           last == IF count = 0 THEN <<>> ELSE <<OfLines>>
           steps == fills \o last
<1>1. /\ count \in Nat /\ N \in Nat \ {0} /\ DOMAIN draws = 1 .. N
      /\ \A i \in 1 .. N : IsDraw(draws[i], f)
  BY LinesAreCounted, SequenceDomain DEF Drawn, Ordered
<1>2. Passes(f, n, draws) = steps
  BY <1>1, Zenon DEF Passes
<1>3. m = N + (IF count = 0 THEN 0 ELSE 1) /\ m \in Nat \ {0}
  BY <1>1 DEF PaintCount
<1>4. /\ \A i \in 1 .. N : fills[i] = OfShape(i)
      /\ fills = [i \in 1 .. N |-> fills[i]]
  OBVIOUS
<1>5. /\ count = 0 => last = <<>>
      /\ count # 0 => last = <<OfLines>>
  OBVIOUS
<1>6. ASSUME NEW i \in 1 .. N PROVE PassOf(OfShape(i), f, n, draws, i)
  <2>1. i <= Len(draws)
    BY <1>1
  <2>2. /\ PaintPlace(draws, i) = Before(i) /\ PaintSize(f, draws, i) = draws[i].triangles
        /\ PaintShape(n, draws, i) = draws[i].shape
    BY <2>1 DEF PaintPlace, PaintSize, PaintShape
  <2>3. /\ draws[i].width = ExpectedWidth(f, draws[i].shape)
        /\ draws[i].shape # Lines(n)
    BY <1>1 DEF IsDraw, Lines, Shape
  <2>4. /\ OfShape(i).pass = Pass(f, n, i = 1, Before(i) + 1, draws[i].triangles)
        /\ OfShape(i).uniform = Uniform(f, draws[i].width, draws[i].shape)
    OBVIOUS
  <2> HIDE DEF OfShape, Before
  <2> QED
    BY <2>2, <2>3, <2>4 DEF PassOf
<1>7. PassOf(OfLines, f, n, draws, N + 1)
  <2>1. ~(N + 1 <= Len(draws)) /\ N + 1 # 1
    BY <1>1
  <2>2. /\ PaintPlace(draws, N + 1) = Triangles(draws) /\ PaintSize(f, draws, N + 1) = count
        /\ PaintShape(n, draws, N + 1) = Lines(n)
    BY <2>1 DEF PaintPlace, PaintSize, PaintShape
  <2>3. ExpectedWidth(f, Lines(n)) = f.width
    BY DEF ExpectedWidth, Lines, Shape
  <2>4. /\ OfLines.pass = Pass(f, n, FALSE, Triangles(draws) + 1, count)
        /\ OfLines.uniform = Uniform(f, f.width, LineColour)
    OBVIOUS
  <2>5. (N + 1 = 1) = FALSE
    BY <2>1
  <2> HIDE DEF OfLines, N, count
  <2> QED
    BY <2>2, <2>3, <2>4, <2>5 DEF PassOf
<1> HIDE DEF OfShape, OfLines, fills, last, N, m, count
<1>8. IsSequence(fills) /\ Len(fills) = N
  BY <1>1, <1>4, ListIsSequence
<1>9. CASE count = 0
  <2>1. last = <<>> /\ m = N
    BY <1>1, <1>3, <1>5, <1>9
  <2>2. steps = fills
    BY <1>8, <2>1 DEF IsSequence
  <2> HIDE DEF steps
  <2>3. \A i \in 1 .. m : PassOf(steps[i], f, n, draws, i)
    BY <1>4, <1>6, <2>1, <2>2
  <2> QED
    BY <1>2, <1>8, <2>1, <2>2, <2>3 DEF m
<1>10. CASE count # 0
  <2>1. last = <<OfLines>> /\ m = N + 1
    BY <1>1, <1>3, <1>5, <1>10
  <2>2. IsSequence(fills)
    BY <1>8
  <2>3. /\ IsSequence(fills \o <<OfLines>>) /\ Len(fills \o <<OfLines>>) = Len(fills) + 1
        /\ \A i \in 1 .. Len(fills) : (fills \o <<OfLines>>)[i] = fills[i]
        /\ (fills \o <<OfLines>>)[Len(fills) + 1] = OfLines
    BY <2>2, OneMore
  <2>4. steps = fills \o <<OfLines>>
    BY <2>1
  <2> HIDE DEF steps
  <2>5. /\ IsSequence(steps) /\ Len(steps) = N + 1
        /\ \A i \in 1 .. N : steps[i] = fills[i]
        /\ steps[N + 1] = OfLines
    BY <1>8, <2>3, <2>4
  <2>6. ASSUME NEW i \in 1 .. m PROVE PassOf(steps[i], f, n, draws, i)
    <3>1. CASE i = N + 1
      BY <1>7, <2>5, <3>1
    <3>2. CASE i # N + 1
      <4>1. i \in 1 .. N
        BY <1>1, <2>1, <3>2
      <4> QED
        BY <1>4, <1>6, <2>5, <4>1
    <3> QED
      BY <3>1, <3>2
  <2> QED
    BY <1>2, <2>1, <2>5, <2>6 DEF m
<1> QED
  BY <1>9, <1>10

\* Each pass finds its own triangles, and clears what was there if it is the first.
PaintPieces(f, n, draws) ==
  [i \in 1 .. PaintCount(f, draws) |-> Repeat(PaintSize(f, draws, i), PaintShape(n, draws, i))]

LEMMA PassesArePaintable ==
  ASSUME FramesAreConstructed, NEW f \in Frames, NEW n, NEW draws, Drawn(f, draws),
         NEW rest, IsSequence(rest)
  PROVE  Paintable(Passes(f, n, draws), n, PaintData(f, n, draws) \o rest,
                   PaintPieces(f, n, draws))
<1> DEFINE steps == Passes(f, n, draws)
           data == PaintData(f, n, draws)
           m == PaintCount(f, draws)
           pieces == PaintPieces(f, n, draws)
<1>1. /\ IsSequence(data) /\ m \in Nat \ {0}
      /\ \A i \in 1 .. m : AllAre(data, PaintPlace(draws, i), PaintSize(f, draws, i),
                                  PaintShape(n, draws, i))
  BY PaintsLieInData
<1>2. /\ IsSequence(steps) /\ Len(steps) = m
      /\ \A i \in 1 .. m : PassOf(steps[i], f, n, draws, i)
  BY PassesAreInOrder
<1>3. \A i \in 1 .. m : pieces[i] = Repeat(PaintSize(f, draws, i), PaintShape(n, draws, i))
  BY DEF PaintPieces
<1> HIDE DEF steps, data, m, pieces
<1>4. ASSUME NEW i \in 1 .. m
      PROVE  LET p == steps[i].pass
             IN /\ IF i = 1 THEN p.clears /\ p.frame = n ELSE ~p.clears
                /\ p.count # 0
                /\ SubSeq(data \o rest, p.from, p.from + p.count - 1) = pieces[i]
  <2> DEFINE p == steps[i].pass
             b == PaintPlace(draws, i)
             t == PaintSize(f, draws, i)
             x == PaintShape(n, draws, i)
  <2>1. p = Pass(f, n, i = 1, b + 1, t)
    BY <1>2 DEF PassOf
  <2>2. AllAre(data, b, t, x) /\ pieces[i] = Repeat(t, x)
    BY <1>1, <1>3
  <2> HIDE DEF p, b, t, x
  <2>3. p.from = b + 1 /\ p.count = t /\ p.frame = n /\ p.clears = (i = 1)
    BY <2>1 DEF Pass
  <2>4. t # 0
    BY <2>2 DEF AllAre
  <2>5. Found(data \o rest, b, t, x)
    BY <1>1, <2>2, PieceIsFound
  <2>6. SubSeq(data \o rest, p.from, p.from + p.count - 1) = pieces[i]
    BY <2>2, <2>3, <2>5 DEF Found
  <2>7. IF i = 1 THEN p.clears /\ p.frame = n ELSE ~p.clears
    BY <2>3
  <2> QED
    BY <2>3, <2>4, <2>6, <2>7 DEF p
<1>5. Paintable(steps, n, data \o rest, pieces)
  BY <1>2, <1>4 DEF Paintable
<1> QED
  BY <1>5 DEF steps, data, pieces

PaintShapes(f, n, draws) == [i \in 1 .. PaintCount(f, draws) |-> PaintShape(n, draws, i)]

LEMMA PaintedIsPicture ==
  ASSUME FramesAreConstructed, NEW f \in Frames, NEW n, NEW draws, Drawn(f, draws), NEW picture,
         PaintedTo(picture, n, PaintCount(f, draws), Passes(f, n, draws), PaintPieces(f, n, draws))
  PROVE  Pictures(picture, n, PaintCount(f, draws), PaintShapes(f, n, draws), f)
<1> DEFINE steps == Passes(f, n, draws)
           m == PaintCount(f, draws)
           pieces == PaintPieces(f, n, draws)
           shapes == PaintShapes(f, n, draws)
<1>1. /\ IsSequence(picture) /\ Len(picture) = m + 1 /\ picture[1] = [cleared |-> n]
      /\ \A i \in 1 .. m : /\ picture[i + 1].what = pieces[i]
                           /\ picture[i + 1].uniform = steps[i].uniform
  BY DEF PaintedTo
<1>2. \A i \in 1 .. m : PassOf(steps[i], f, n, draws, i)
  BY PassesAreInOrder
<1>3. \A i \in 1 .. m : AllAre(PaintData(f, n, draws), PaintPlace(draws, i),
                               PaintSize(f, draws, i), PaintShape(n, draws, i))
  BY PaintsLieInData
<1>4. \A i \in 1 .. m : /\ pieces[i] = Repeat(PaintSize(f, draws, i), PaintShape(n, draws, i))
                        /\ shapes[i] = PaintShape(n, draws, i)
  BY DEF PaintPieces, PaintShapes
<1> HIDE DEF steps, m, pieces, shapes
<1>5. ASSUME NEW i \in 1 .. m
      PROVE  /\ \E k \in Nat \ {0} : picture[i + 1].what = Repeat(k, shapes[i])
             /\ picture[i + 1].uniform =
                  Uniform(f, ExpectedWidth(f, shapes[i]),
                          IF shapes[i] = Lines(n) THEN LineColour ELSE shapes[i])
  <2>1. PaintSize(f, draws, i) \in Nat \ {0}
    BY <1>3 DEF AllAre
  <2>2. picture[i + 1].what = Repeat(PaintSize(f, draws, i), shapes[i])
    BY <1>1, <1>4
  <2>3. picture[i + 1].uniform =
          Uniform(f, ExpectedWidth(f, shapes[i]),
                  IF shapes[i] = Lines(n) THEN LineColour ELSE shapes[i])
    BY <1>1, <1>2, <1>4 DEF PassOf
  <2> QED
    BY <2>1, <2>2, <2>3
<1>6. Pictures(picture, n, m, shapes, f)
  BY <1>1, <1>5 DEF Pictures
<1> QED
  BY <1>6 DEF m, shapes

LEMMA FillsAreRendered ==
  ASSUME FramesAreConstructed, RendererAssumption, NEW f \in Frames, NEW n,
         NEW c, IsCall(c), c.error = "Ok", NEW all, Drawn(f, Nonempty(all)),
         f.canvas[1] \in 1 .. MaxTexture, f.canvas[2] \in 1 .. MaxTexture,
         LineTriangles(f) + Triangles(Nonempty(all)) <= MaxBuffer, ReadbackSize(f) <= MaxBuffer
  PROVE  LET d == RenderPreparedWithFills(c, f, n, all)
             draws == Nonempty(all)
         IN /\ Rendered(c, d)
            /\ d.error = "Ok" /\ d.raised = {} =>
                 Pictures(d.gpu.readback.data, n, PaintCount(f, draws),
                          PaintShapes(f, n, draws), f)
<1> DEFINE draws == Nonempty(all)
           count == LineTriangles(f)
           data == PaintData(f, n, draws)
           steps == Passes(f, n, draws)
           m == PaintCount(f, draws)
           pieces == PaintPieces(f, n, draws)
           shapes == PaintShapes(f, n, draws)
           c1 == EnsureBuffer(c, "vertex", Len(data))
           c2 == EnsureBuffer(c1, "readback", ReadbackSize(f))
           c3 == EnsureTarget(c2, f.canvas[1], f.canvas[2])
           cw == WriteVertices(c3, data)
           c4 == PaintAll(cw, steps)
           extent == f.canvas
           none == <<>>
           c5 == Submit(c4, none, extent)
           d == ReadBack(c5)
<1>0. RenderPreparedWithFills(c, f, n, all) = d
  BY Zenon DEF RenderPreparedWithFills, PaintData
<1>1. /\ IsSequence(data) /\ Len(data) = Triangles(draws) + count
      /\ m \in Nat \ {0}
      /\ \A i \in 1 .. m : AllAre(data, PaintPlace(draws, i), PaintSize(f, draws, i),
                                  PaintShape(n, draws, i))
  BY PaintsLieInData
<1>2. /\ IsSequence(steps) /\ Len(steps) = m
      /\ \A i \in 1 .. m : PassOf(steps[i], f, n, draws, i)
  BY PassesAreInOrder
<1>3. /\ count \in Nat /\ Triangles(draws) \in Nat
      /\ ReadbackSize(f) \in 1 .. MaxBuffer /\ MaxBuffer \in Nat /\ MaxTexture \in Nat
  <2>1. count \in Nat /\ MaxBuffer \in Nat /\ MaxTexture \in Nat
    BY LinesAreCounted DEF RendererAssumption
  <2>2. ReadbackSize(f) \in 1 .. MaxBuffer
    BY <2>1, ReadbackIsPositive, FrameIsWhole
  <2>3. Counted(draws)
    BY DrawnIsCounted DEF Drawn
  <2> HIDE DEF draws
  <2>4. Triangles(draws) \in Nat
    BY <2>3, VerticesAreJoined
  <2> QED
    BY <2>1, <2>2, <2>4
<1>4. none = <<>>
  OBVIOUS
<1> HIDE DEF data, steps, m, pieces, shapes, extent, none
<1>5. Len(data) \in 1 .. MaxBuffer /\ data # <<>>
  <2>1. Len(data) \in Nat /\ Len(data) <= MaxBuffer
    BY <1>1, <1>3 DEF draws, count
  <2>2. 1 \in 1 .. m
    BY <1>1
  <2>3. AllAre(data, PaintPlace(draws, 1), PaintSize(f, draws, 1), PaintShape(n, draws, 1))
    BY <1>1, <2>2
  <2>4. Len(data) # 0
    BY <2>1, <2>3 DEF AllAre
  <2> QED
    BY <1>3, <2>1, <2>4
<1> HIDE DEF draws, count
<1>6. /\ Proceeds(c, c1) /\ c1.gpu["vertex"].size # 0
      /\ Clean(c) => Clean(c1)
  BY <1>5, BufferIsEnsured
<1> HIDE DEF c1
<1>7. /\ Proceeds(c1, c2) /\ c2.gpu["readback"].size # 0
      /\ c2.gpu.vertex = c1.gpu.vertex
      /\ Clean(c1) => Clean(c2)
  <2>1. /\ Proceeds(c1, c2) /\ c2.gpu["readback"].size # 0
        /\ \A part \in Parts \ {"readback"} : c2.gpu[part] = c1.gpu[part]
        /\ Clean(c1) => Clean(c2)
    BY <1>3, <1>6, BufferIsEnsured DEF Proceeds
  <2> QED
    BY <2>1 DEF Parts
<1> HIDE DEF c2
<1>8. /\ Proceeds(c2, c3) /\ c3.gpu.target.w >= f.canvas[1] /\ c3.gpu.target.h >= f.canvas[2]
      /\ c3.gpu.vertex = c2.gpu.vertex /\ c3.gpu.readback = c2.gpu.readback
      /\ Clean(c2) => Clean(c3)
  <2>1. IsCall(c2) /\ c2.error = "Ok"
    BY <1>7 DEF Proceeds
  <2>2. /\ Proceeds(c2, c3) /\ c3.gpu.target.w >= f.canvas[1] /\ c3.gpu.target.h >= f.canvas[2]
        /\ \A part \in Parts \ {"target"} : c3.gpu[part] = c2.gpu[part]
        /\ Clean(c2) => Clean(c3)
    BY <2>1, TargetIsEnsured, Zenon
  <2> QED
    BY <2>2 DEF Parts
<1> HIDE DEF c3
<1>9. /\ Proceeds(c3, cw) /\ cw.gpu.target = c3.gpu.target /\ cw.gpu.readback = c3.gpu.readback
      /\ cw.raised = {} => \E rest : IsSequence(rest) /\ cw.gpu.vertex.data = data \o rest
      /\ Clean(c3) /\ c3.gpu.vertex.size # 0 => Clean(cw)
  <2>1. IsCall(c3) /\ c3.error = "Ok"
    BY <1>8 DEF Proceeds
  <2>2. /\ Proceeds(c3, cw)
        /\ cw.gpu.vertex.size = c3.gpu.vertex.size
        /\ \A part \in Parts \ {"vertex"} : cw.gpu[part] = c3.gpu[part]
        /\ cw.raised = {} => \E rest : IsSequence(rest) /\ cw.gpu.vertex.data = data \o rest
        /\ Clean(c3) /\ c3.gpu.vertex.size # 0 => Clean(cw)
    <3>1. IsSequence(data) /\ data # <<>>
      BY <1>1, <1>5
    <3> QED
      BY <2>1, <3>1, VerticesAreWritten, Zenon
  <2> QED
    BY <2>2 DEF Parts
<1> HIDE DEF cw
<1>10. /\ Proceeds(cw, c4) /\ Keeps(cw, c4)
       /\ (/\ c4.raised = {} /\ Len(steps) # 0
           /\ Paintable(steps, n, cw.gpu.vertex.data, pieces)) =>
            PaintedTo(c4.gpu.target.paint, n, Len(steps), steps, pieces)
       /\ Clean(cw) /\ PassesFit(steps, cw.gpu.target) => Clean(c4)
  <2>1. IsCall(cw) /\ cw.error = "Ok"
    BY <1>9 DEF Proceeds
  <2> QED
    BY <1>2, <2>1, PassesArePainted, Zenon
<1> HIDE DEF c4
<1> DEFINE p == "none"
<1>11. none = <<>> \/ none = <<p>>
  BY <1>4
<1> HIDE DEF p
<1>12. /\ Proceeds(c4, c5) /\ Keeps(c4, c5)
       /\ c5.raised = {} =>
            /\ c5.gpu.target.paint = PaintOver(c4, p, none)
            /\ extent # <<0, 0>> => c5.gpu.readback.data = PaintOver(c4, p, none)
       /\ Clean(c4) /\ Fits(c4, p, none, extent) => Clean(c5)
  <2>1. IsCall(c4) /\ c4.error = "Ok"
    BY <1>10 DEF Proceeds
  <2>2. /\ Proceeds(c4, c5) /\ Keeps(c4, c5) /\ c5.gpu.uniform = c4.gpu.uniform
        /\ c5.raised = {} =>
             /\ c5.gpu.target.paint = PaintOver(c4, p, none)
             /\ extent # <<0, 0>> => c5.gpu.readback.data = PaintOver(c4, p, none)
        /\ Clean(c4) /\ Fits(c4, p, none, extent) => Clean(c5)
    BY <1>11, <2>1, WorkIsSubmitted, Zenon
  <2> QED
    BY <2>2
<1> HIDE DEF c5
<1>13. /\ PassesFit(steps, cw.gpu.target) /\ Fits(c4, p, none, extent) /\ extent # <<0, 0>>
  <2> DEFINE w == cw.gpu.target.w
             h == cw.gpu.target.h
  <2>1. w \in Nat /\ h \in Nat
    BY <1>3, <1>9 DEF Proceeds, IsCall, ObjectsTyped
  <2>2. w >= f.canvas[1] /\ h >= f.canvas[2]
    BY <1>8, <1>9
  <2>3. c4.gpu.target.w = w /\ c4.gpu.target.h = h /\ c4.gpu.readback.size # 0
    BY <1>7, <1>8, <1>9, <1>10 DEF Keeps
  <2> HIDE DEF w, h
  <2>4. w # 0 /\ f.canvas # <<0, 0>> /\ Holds(f.plot, <<w, h>>)
    BY <2>1, <2>2, FrameFitsTarget, Zenon
  <2>5. ASSUME NEW i \in 1 .. m PROVE steps[i].pass.scissor = f.plot
    <3>1. \A clears, from, size : Pass(f, n, clears, from, size).scissor = f.plot
      BY DEF Pass
    <3> DEFINE clears == i = 1
               from == PaintPlace(draws, i) + 1
               size == PaintSize(f, draws, i)
    <3>2. steps[i].pass = Pass(f, n, clears, from, size)
      BY <1>2, Zenon DEF PassOf
    <3> HIDE DEF clears, from, size
    <3> QED
      BY <3>1, <3>2, Zenon
  <2>6. PassesFit(steps, cw.gpu.target)
    BY <1>2, <2>4, <2>5 DEF PassesFit, w, h
  <2>7. Fits(c4, p, none, extent)
    BY <1>4, <2>2, <2>3, <2>4 DEF Fits, extent
  <2> QED
    BY <2>4, <2>6, <2>7 DEF extent
<1>14. Proceeds(c, c5) /\ (c5.raised = {} => c4.raised = {} /\ cw.raised = {})
  <2>1. Proceeds(c, c2)
    BY <1>6, <1>7, ProceedsOn, Zenon
  <2>2. Proceeds(c, c3)
    BY <1>8, <2>1, ProceedsOn, Zenon
  <2>3. Proceeds(c, cw)
    BY <1>9, <2>2, ProceedsOn, Zenon
  <2>4. Proceeds(c, c4) /\ (c4.raised = {} => cw.raised = {})
    BY <1>10, <2>3, ProceedsOn, Zenon
  <2> QED
    BY <1>12, <2>4, ProceedsOn, Zenon
<1>15. /\ Rendered(c, d) /\ (d.error = "Ok" => d = c5) /\ (d.raised = {} => c5.raised = {})
  <2>1. c3.gpu.vertex.size # 0
    BY <1>6, <1>7, <1>8
  <2>2. Clean(c) => Clean(c5)
    BY <1>6, <1>7, <1>8, <1>9, <1>10, <1>12, <1>13, <2>1
  <2>3. c5.gpu.readback.size # 0
    BY <1>7, <1>8, <1>9, <1>10, <1>12 DEF Keeps
  <2> QED
    BY <1>14, <2>2, <2>3, CopyIsAwaited
<1> HIDE DEF d
<1>16. ASSUME d.error = "Ok", d.raised = {}
       PROVE  Pictures(d.gpu.readback.data, n, m, shapes, f)
  <2>1. d = c5 /\ c5.raised = {} /\ c4.raised = {} /\ cw.raised = {}
    BY <1>14, <1>15, <1>16
  <2>2. d.gpu.readback.data = c4.gpu.target.paint
    <3>1. PaintOver(c4, p, none) = c4.gpu.target.paint
      BY <1>4 DEF PaintOver
    <3> QED
      BY <1>12, <1>13, <2>1, <3>1
  <2>3. PICK rest : IsSequence(rest) /\ cw.gpu.vertex.data = data \o rest
    BY <1>9, <2>1
  <2>4. Paintable(steps, n, data \o rest, pieces)
    <3>1. IsSequence(rest)
      BY <2>3
    <3> QED
      BY <3>1, PassesArePaintable DEF steps, data, pieces, draws
  <2>5. PaintedTo(d.gpu.readback.data, n, m, steps, pieces)
    BY <1>1, <1>2, <1>10, <2>1, <2>2, <2>3, <2>4
  <2> DEFINE picture == d.gpu.readback.data
  <2> HIDE DEF picture
  <2>6. PaintedTo(picture, n, m, steps, pieces)
    BY <2>5 DEF picture
  <2>7. Pictures(picture, n, m, shapes, f)
    BY <2>6, PaintedIsPicture DEF m, steps, pieces, shapes, draws
  <2> QED
    BY <2>7 DEF picture
<1> QED
  BY <1>0, <1>15, <1>16, Zenon DEF m, shapes, draws

\* What is painted are the frame's shapes with an extent, in their order.
LEMMA PaintsAreExpected ==
  ASSUME FramesAreConstructed, NEW f \in Frames, NEW n, NEW draws, Drawn(f, draws),
         ToSet(draws) = {d \in ToSet(FillDraws(f, n)) : d.triangles # 0}
  PROVE  LET m == PaintCount(f, draws)
             shapes == PaintShapes(f, n, draws)
         IN /\ {shapes[i] : i \in 1 .. m} = ExpectedShapes(f, n)
            /\ \A i, j \in 1 .. m : i < j => Rank(f, shapes[i]) < Rank(f, shapes[j])
<1> DEFINE N == Len(draws)
           count == LineTriangles(f)
           m == PaintCount(f, draws)
           shapes == PaintShapes(f, n, draws)
           top == 2 * Len(f.fillBar.order)
<1>1. /\ N \in Nat \ {0} /\ DOMAIN draws = 1 .. N
      /\ Len(f.fillBar.order) \in Nat
      /\ \A i \in 1 .. N : Rank(f, draws[i].shape) \in 0 .. (top - 1)
      /\ \A i, j \in 1 .. N : i < j => Rank(f, draws[i].shape) < Rank(f, draws[j].shape)
  BY SequenceDomain, OrderIsInjective DEF Drawn, Ordered
<1>2. Rank(f, Lines(n)) = top
  BY DEF Rank, Lines, Shape
<1>3. m = N + (IF count = 0 THEN 0 ELSE 1)
  BY DEF PaintCount
<1>4. /\ \A i \in 1 .. m : i \in 1 .. N => shapes[i] = draws[i].shape
      /\ \A i \in 1 .. m : ~(i \in 1 .. N) => shapes[i] = Lines(n)
  BY <1>1, <1>3 DEF PaintShapes, PaintShape
<1>5. \A d : d \in ToSet(draws) <=> \E i \in 1 .. N : d = draws[i]
  BY <1>1 DEF ToSet
<1>6. ExpectedShapes(f, n) = {d.shape : d \in ToSet(draws)} \cup
                             (IF count = 0 THEN {} ELSE {Lines(n)})
  BY DEF ExpectedShapes
<1> HIDE DEF N, m, shapes, count, top
<1>7. CASE count = 0
  <2>1. m = N /\ ExpectedShapes(f, n) = {d.shape : d \in ToSet(draws)}
    BY <1>1, <1>3, <1>6, <1>7
  <2>2. \A i \in 1 .. m : shapes[i] = draws[i].shape
    BY <1>4, <2>1
  <2>3. {shapes[i] : i \in 1 .. m} = ExpectedShapes(f, n)
    BY <1>5, <2>1, <2>2
  <2>4. \A i, j \in 1 .. m : i < j => Rank(f, shapes[i]) < Rank(f, shapes[j])
    BY <1>1, <2>1, <2>2
  <2> QED
    BY <2>3, <2>4 DEF m, shapes
<1>8. CASE count # 0
  <2>1. m = N + 1 /\ ExpectedShapes(f, n) = {d.shape : d \in ToSet(draws)} \cup {Lines(n)}
    BY <1>3, <1>6, <1>8
  <2>2. /\ \A i \in 1 .. N : i \in 1 .. m /\ shapes[i] = draws[i].shape
        /\ N + 1 \in 1 .. m /\ shapes[N + 1] = Lines(n)
        /\ \A i \in 1 .. m : i \in 1 .. N \/ i = N + 1
    BY <1>1, <1>4, <2>1
  <2>3. {shapes[i] : i \in 1 .. m} = ExpectedShapes(f, n)
    <3>1. \A x : x \in {shapes[i] : i \in 1 .. m}
                 <=> (\E i \in 1 .. N : x = draws[i].shape) \/ x = Lines(n)
      BY <2>2
    <3>2. \A x : x \in {d.shape : d \in ToSet(draws)} <=> \E i \in 1 .. N : x = draws[i].shape
      BY <1>5
    <3> QED
      BY <2>1, <3>1, <3>2
  <2>4. ASSUME NEW i \in 1 .. m, NEW j \in 1 .. m, i < j
        PROVE  Rank(f, shapes[i]) < Rank(f, shapes[j])
    <3>1. i \in 1 .. N
      BY <1>1, <2>1, <2>4
    <3>2. CASE j \in 1 .. N
      BY <1>1, <2>2, <2>4, <3>1, <3>2
    <3>3. CASE j = N + 1
      <4>1. Rank(f, shapes[i]) \in 0 .. (top - 1) /\ Rank(f, shapes[j]) = top
        BY <1>1, <1>2, <2>2, <3>1, <3>3
      <4>2. top \in Nat
        BY <1>1 DEF top
      <4> QED
        BY <4>1, <4>2
    <3> QED
      BY <2>2, <3>2, <3>3
  <2> QED
    BY <2>3, <2>4 DEF m, shapes
<1> QED
  BY <1>7, <1>8

LEMMA LinesAreExpected ==
  ASSUME FramesAreConstructed, NEW f \in Frames, NEW n, Triangles(FillDraws(f, n)) = 0
  PROVE  LET m == IF LineTriangles(f) = 0 THEN 0 ELSE 1
             shapes == [i \in 1 .. m |-> Lines(n)]
         IN /\ {shapes[i] : i \in 1 .. m} = ExpectedShapes(f, n)
            /\ \A i, j \in 1 .. m : i < j => Rank(f, shapes[i]) < Rank(f, shapes[j])
<1> DEFINE all == FillDraws(f, n)
           count == LineTriangles(f)
           m == IF count = 0 THEN 0 ELSE 1
           shapes == [i \in 1 .. m |-> Lines(n)]
<1>1. Counted(all) /\ IsSequence(all) /\ Triangles(all) = 0
  BY FillDrawsAreOrdered, DrawnIsCounted DEF Ordered
<1>2. ExpectedShapes(f, n) = {d.shape : d \in {e \in ToSet(all) : e.triangles # 0}} \cup
                             (IF count = 0 THEN {} ELSE {Lines(n)})
  BY DEF ExpectedShapes
<1> HIDE DEF all, count
<1>3. \A d \in ToSet(all) : d.triangles = 0
  <2>1. \A i \in 1 .. Len(all) : all[i].triangles = 0
    <3> SUFFICES ASSUME NEW i \in 1 .. Len(all) PROVE all[i].triangles = 0
      OBVIOUS
    <3> DEFINE b == Triangles(SubSeq(all, 1, i - 1))
    <3>1. b \in Nat /\ b + all[i].triangles <= Triangles(all)
      BY <1>1, DrawInVertices
    <3>2. all[i].triangles \in Nat
      BY <1>1 DEF Counted
    <3> HIDE DEF b
    <3> QED
      BY <1>1, <3>1, <3>2
  <2>2. DOMAIN all = 1 .. Len(all)
    BY <1>1, SequenceDomain
  <2> QED
    BY <2>1, <2>2 DEF ToSet
<1>4. ExpectedShapes(f, n) = IF count = 0 THEN {} ELSE {Lines(n)}
  BY <1>2, <1>3
<1>5. CASE count = 0
  <2>1. m = 0 /\ 1 .. 0 = {}
    BY <1>5
  <2> HIDE DEF shapes
  <2> QED
    BY <1>4, <1>5, <2>1 DEF count, shapes
<1>6. CASE count # 0
  <2>1. m = 1 /\ 1 .. 1 = {1} /\ shapes[1] = Lines(n)
    BY <1>6
  <2> HIDE DEF shapes, m
  <2>2. /\ {shapes[i] : i \in 1 .. m} = ExpectedShapes(f, n)
        /\ \A i, j \in 1 .. m : i < j => Rank(f, shapes[i]) < Rank(f, shapes[j])
    BY <1>4, <1>6, <2>1
  <2> QED
    BY <2>2 DEF m, shapes, count
<1> QED
  BY <1>5, <1>6

\* A render of a frame that passed the checks, from its first write to its last read.
LEMMA AttemptIsSound ==
  ASSUME FramesAreConstructed, RendererAssumption, NEW f \in Frames, NEW n, NEW fault,
         ObjectsTyped(gpu), RenderError(f, n) = "Ok"
  PROVE  LET d == Attempt(f, n, fault)
         IN /\ Rendered(Call(fault), d)
            /\ d.error = "Ok" /\ d.raised = {} => Shows(d.gpu.readback.data, f, n)
<1> DEFINE all == FillDraws(f, n)
           c == Call(fault)
           d == Attempt(f, n, fault)
           count == LineTriangles(f)
<1>1. IsCall(c) /\ c.error = "Ok"
  BY DEF Call, IsCall
<1>2. /\ f.canvas[1] \in 1 .. MaxTexture /\ f.canvas[2] \in 1 .. MaxTexture
      /\ ~(count + Triangles(all) > MaxBuffer) /\ ~(ReadbackSize(f) > MaxBuffer)
  BY RenderIsChecked
<1>3. Ordered(all, f) /\ Counted(all)
  BY FillDrawsAreOrdered, DrawnIsCounted
<1>4. count \in Nat /\ MaxBuffer \in Nat /\ ReadbackSize(f) \in Nat
  BY LinesAreCounted, ReadbackIsPositive, FrameIsWhole DEF RendererAssumption
<1> HIDE DEF c
<1>5. CASE Triangles(all) = 0
  <2> DEFINE r == RenderPrepared(c, f, n)
             m == IF count = 0 THEN 0 ELSE 1
             shapes == [i \in 1 .. m |-> Lines(n)]
             picture == r.gpu.readback.data
  <2>1. d = r
    BY <1>5 DEF Attempt, c
  <2>2. count <= MaxBuffer /\ ReadbackSize(f) <= MaxBuffer
    BY <1>2, <1>4, <1>5
  <2>3. /\ Rendered(c, r)
        /\ r.error = "Ok" /\ r.raised = {} => Pictures(picture, n, m, shapes, f)
    BY <1>1, <1>2, <2>2, LinesAreRendered, Zenon
  <2>4. /\ {shapes[i] : i \in 1 .. m} = ExpectedShapes(f, n)
        /\ \A i, j \in 1 .. m : i < j => Rank(f, shapes[i]) < Rank(f, shapes[j])
    BY <1>5, LinesAreExpected, Zenon
  <2>5. m \in Nat
    OBVIOUS
  <2> HIDE DEF d, r, m, shapes, picture
  <2>6. Pictures(picture, n, m, shapes, f) => Shows(picture, f, n)
    BY <2>4, <2>5, PictureShows
  <2> QED
    BY <2>1, <2>3, <2>6 DEF d, picture, c
<1>6. CASE Triangles(all) # 0
  <2> DEFINE draws == Nonempty(all)
             r == RenderPreparedWithFills(c, f, n, all)
             m == PaintCount(f, draws)
             shapes == PaintShapes(f, n, draws)
             picture == r.gpu.readback.data
  <2>1. d = r
    BY <1>6 DEF Attempt, c
  <2>2. /\ Ordered(draws, f) /\ ToSet(draws) = {e \in ToSet(all) : e.triangles # 0}
        /\ Triangles(draws) = Triangles(all) /\ Counted(draws)
    BY <1>3, NonemptyIsOrdered, NonemptyKeepsVertices, DrawnIsCounted DEF Triangles
  <2> HIDE DEF d, draws
  <2>3. Drawn(f, draws)
    <3>1. \A i \in 1 .. Len(draws) : draws[i].triangles # 0
      BY <2>2, SequenceDomain DEF Ordered
    <3>2. Len(draws) # 0
      <4> DEFINE runs == Runs(draws)
      <4>1. IsNested(runs) /\ Len(runs) = Len(draws) /\ Vertices(draws) = FlattenSeq(runs)
        BY <2>2, VerticesAreJoined
      <4> HIDE DEF runs
      <4>2. /\ FlattenSeq(SubSeq(runs, 1, 0)) = <<>>
            /\ FlattenSeq(SubSeq(runs, 1, Len(runs))) = FlattenSeq(runs)
        BY <4>1, FlattenPrefix
      <4>3. Len(draws) = 0 => Vertices(draws) = <<>>
        BY <4>1, <4>2
      <4>4. Len(<<>>) = 0
        OBVIOUS
      <4> QED
        BY <1>6, <2>2, <4>3, <4>4 DEF Triangles
    <3> QED
      BY <2>2, <3>1, <3>2 DEF Drawn
  <2>4. count + Triangles(draws) <= MaxBuffer /\ ReadbackSize(f) <= MaxBuffer
    <3>1. Triangles(all) \in Nat
      BY <1>3, VerticesAreJoined
    <3> HIDE DEF count, all
    <3> QED
      BY <1>2, <1>4, <2>2, <3>1
  <2>5. /\ Rendered(c, r)
        /\ r.error = "Ok" /\ r.raised = {} => Pictures(picture, n, m, shapes, f)
    BY <1>1, <1>2, <2>3, <2>4, FillsAreRendered, Zenon DEF draws
  <2>6. /\ {shapes[i] : i \in 1 .. m} = ExpectedShapes(f, n)
        /\ \A i, j \in 1 .. m : i < j => Rank(f, shapes[i]) < Rank(f, shapes[j])
    BY <2>2, <2>3, PaintsAreExpected, Zenon
  <2>7. m \in Nat
    BY <2>3, PaintsLieInData
  <2> HIDE DEF r, m, shapes, picture
  <2>8. Pictures(picture, n, m, shapes, f) => Shows(picture, f, n)
    BY <2>6, <2>7, PictureShows
  <2> QED
    BY <2>1, <2>5, <2>8 DEF d, picture, c
<1> QED
  BY <1>5, <1>6

-----------------------------------------------------------------------------
(* The calls *)

\* What the error scopes make of a render.
LEMMA ResultIsTold ==
  ASSUME NEW c, NEW d, Rendered(c, d)
  PROVE  /\ ResultOf(d) # "CapacityExceeded"
         /\ ResultOf(d) = "Ok" => d.error = "Ok" /\ d.raised = {}
         /\ Clean(c) => ResultOf(d) # "Internal"
<1> DEFINE outcomes == <<Check("memory" \in d.raised, "OutOfMemory"),
                         Check("validation" \in d.raised, "Internal"), d.error>>
<1>1. ResultOf(d) = FirstError(outcomes) /\ DOMAIN outcomes = 1 .. 3 /\ 3 \in Nat
  BY DEF ResultOf
<1>2. /\ outcomes[1] = IF "memory" \in d.raised THEN "OutOfMemory" ELSE "Ok"
      /\ outcomes[2] = IF "validation" \in d.raised THEN "Internal" ELSE "Ok"
      /\ outcomes[3] = d.error
  BY DEF Check
<1> HIDE DEF outcomes
<1>3. /\ ResultOf(d) = "Ok" <=> \A i \in 1 .. 3 : outcomes[i] = "Ok"
      /\ ResultOf(d) # "Ok" =>
           \E i \in 1 .. 3 : outcomes[i] # "Ok" /\ ResultOf(d) = outcomes[i]
  BY <1>1, FirstOfErrors
<1>4. \A i \in 1 .. 3 : i \in {1, 2, 3}
  OBVIOUS
<1>5. /\ d.raised \subseteq {"memory", "validation"}
      /\ d.error \in {"Ok", "ReadbackFailed", "DeviceLost", "OutOfMemory"}
      /\ Clean(c) => "memory" \in d.raised \/ d.raised = {}
  BY DEF Rendered, IsCall
<1>6. ASSUME ResultOf(d) = "Ok" PROVE d.error = "Ok" /\ d.raised = {}
  <2>1. 1 \in 1 .. 3 /\ 2 \in 1 .. 3 /\ 3 \in 1 .. 3
    OBVIOUS
  <2>2. outcomes[1] = "Ok" /\ outcomes[2] = "Ok" /\ outcomes[3] = "Ok"
    BY <1>3, <1>6, <2>1, Zenon
  <2> QED
    BY <1>2, <1>5, <2>2
<1>7. ResultOf(d) # "CapacityExceeded"
  BY <1>2, <1>3, <1>4, <1>5
<1>8. ASSUME Clean(c) PROVE ResultOf(d) # "Internal"
  <2>1. CASE d.raised = {}
    BY <1>2, <1>3, <1>4, <1>5, <2>1
  <2>2. CASE "memory" \in d.raised
    <3> DEFINE failed == {i \in DOMAIN outcomes : outcomes[i] # "Ok"}
    <3>1. 1 \in failed /\ failed \in SUBSET Nat
      BY <1>1, <1>2, <2>2
    <3>2. \A i \in failed : i >= 1
      BY <1>1
    <3>3. FirstError(outcomes) = IF failed = {} THEN "Ok" ELSE outcomes[Min(failed)]
      BY DEF FirstError
    <3> HIDE DEF failed
    <3>4. Min(failed) \in failed /\ Min(failed) <= 1
      BY <3>1, LeastIsIn
    <3> DEFINE least == Min(failed)
    <3>5. least \in failed /\ least \in Nat /\ least <= 1 /\ least >= 1
      BY <3>1, <3>2, <3>4
    <3> HIDE DEF least
    <3>6. least = 1
      BY <3>5
    <3> QED
      BY <1>1, <1>2, <2>2, <3>1, <3>3, <3>6 DEF least
  <2> QED
    BY <1>5, <1>8, <2>1, <2>2
<1> QED
  BY <1>6, <1>7, <1>8

\* What every call keeps: the invariant's parts about the objects and the answer.
RendererSound ==
  /\ ObjectsTyped(gpu) /\ lost \in BOOLEAN /\ spoiled \in BOOLEAN
  /\ spoiled \/ ObjectsUsable(gpu)
  /\ PictureShowsItsFrame
  /\ RoomIsFound

LEMMA RefusedIsSound ==
  ASSUME RendererSound, NEW result, NEW f, NEW n, NEW accepted, Refuse(result, f, n, accepted),
         accepted /\ result = "CapacityExceeded" => TooLarge(f, n)
  PROVE  RendererSound' /\ answer'.result = result
<1>1. /\ answer' = [result |-> result, frame |-> f, number |-> n, accepted |-> accepted]
      /\ gpu' = gpu /\ lost' = lost /\ spoiled' = spoiled
  BY DEF Refuse
<1>2. /\ answer'.result = result /\ answer'.frame = f /\ answer'.number = n
      /\ answer'.accepted = accepted /\ "picture" \notin DOMAIN answer'
  BY <1>1
<1>3. /\ ObjectsTyped(gpu)' /\ (lost \in BOOLEAN)' /\ (spoiled \in BOOLEAN)'
      /\ (spoiled \/ ObjectsUsable(gpu))'
  BY <1>1 DEF RendererSound, ObjectsTyped, ObjectsUsable
<1>4. PictureShowsItsFrame'
  BY <1>2 DEF PictureShowsItsFrame, Delivered
<1>5. RoomIsFound'
  <2> SUFFICES ASSUME answer'.accepted, answer'.result = "CapacityExceeded"
               PROVE  TooLarge(answer'.frame, answer'.number)
    BY DEF RoomIsFound, TooLarge
  <2> QED
    BY <1>2
<1> QED
  BY <1>2, <1>3, <1>4, <1>5 DEF RendererSound

LEMMA PaintIsSound ==
  ASSUME FramesAreConstructed, RendererAssumption, RendererSound, NEW f \in Frames, NEW n, NEW fault,
         FrameError(f) = "Ok", Paint(f, n, fault)
  PROVE  RendererSound' /\ (answer'.result = "Internal" => spoiled)
<1>0. /\ RenderError(f, n) \in {"Ok", "DeviceLost", "CapacityExceeded", "InvalidInput"}
      /\ RenderError(f, n) = "CapacityExceeded" => TooLarge(f, n)
  BY RenderIsChecked
<1>1. CASE RenderError(f, n) # "Ok"
  <2>1. Refuse(RenderError(f, n), f, n, TRUE)
    BY <1>1 DEF Paint
  <2> QED
    BY <1>0, <2>1, RefusedIsSound
<1>2. CASE RenderError(f, n) = "Ok" /\ fault = "host vertices"
  <2> DEFINE result == "OutOfMemory"
  <2>1. Refuse(result, f, n, TRUE) /\ result # "CapacityExceeded" /\ result # "Internal"
    BY <1>2 DEF Paint
  <2> HIDE DEF result
  <2> QED
    BY <2>1, RefusedIsSound
<1>3. CASE RenderError(f, n) = "Ok" /\ fault # "host vertices"
  <2> DEFINE d == Attempt(f, n, fault)
             c == Call(fault)
             result == ResultOf(d)
             picture == IF result = "Ok" THEN d.gpu.readback.data ELSE <<>>
  <2>1. /\ gpu' = d.gpu /\ lost' = (d.error = "DeviceLost")
        /\ spoiled' = (spoiled \/ ~(result = "Ok"))
        /\ answer' = [result |-> result, frame |-> f, number |-> n, accepted |-> TRUE,
                      picture |-> picture]
    BY <1>3 DEF Paint
  <2>2. /\ Rendered(c, d)
        /\ d.error = "Ok" /\ d.raised = {} => Shows(d.gpu.readback.data, f, n)
    BY <1>3, AttemptIsSound DEF RendererSound
  <2>3. ObjectsUsable(gpu) => Clean(c)
    BY DEF Call, Clean
  <2> HIDE DEF c, d
  <2>4. /\ result # "CapacityExceeded"
        /\ result = "Ok" => d.error = "Ok" /\ d.raised = {}
        /\ Clean(c) => result # "Internal"
    BY <2>2, ResultIsTold
  <2> HIDE DEF result
  <2>5. /\ answer'.result = result /\ answer'.frame = f /\ answer'.number = n
        /\ answer'.picture = picture
    BY <2>1
  <2>6. ObjectsTyped(gpu)'
    BY <2>1, <2>2 DEF Rendered, IsCall, ObjectsTyped
  <2>7. (lost \in BOOLEAN)' /\ (spoiled \in BOOLEAN)'
    BY <2>1
  <2>8. (spoiled \/ ObjectsUsable(gpu))'
    <3>1. CASE spoiled \/ result # "Ok"
      BY <2>1, <3>1
    <3>2. CASE ~spoiled /\ result = "Ok"
      <4>1. Clean(c) /\ d.error = "Ok" /\ d.raised = {}
        BY <2>3, <2>4, <3>2 DEF RendererSound
      <4>2. Clean(d)
        BY <2>2, <4>1 DEF Rendered
      <4>3. ObjectsUsable(d.gpu)
        BY <4>1, <4>2 DEF Clean
      <4> QED
        BY <2>1, <4>3 DEF ObjectsUsable
    <3> QED
      BY <3>1, <3>2
  <2>9. PictureShowsItsFrame'
    <3>1. result = "Ok" => Shows(picture, f, n)
      BY <2>2, <2>4
    <3> HIDE DEF picture
    <3>2. Delivered' => Shows(answer'.picture, answer'.frame, answer'.number)
      BY <2>5, <3>1 DEF Delivered
    <3> QED
      BY <3>2 DEF PictureShowsItsFrame, Shows
  <2>10. RoomIsFound'
    BY <2>4, <2>5 DEF RoomIsFound
  <2>11. answer'.result = "Internal" => spoiled
    BY <2>3, <2>4, <2>5 DEF RendererSound
  <2> QED
    BY <2>6, <2>7, <2>8, <2>9, <2>10, <2>11 DEF RendererSound
<1> QED
  BY <1>1, <1>2, <1>3

\* A packet that passes its owner's checks holds a frame that passes the frame's.
LEMMA GoodPacketIsChecked ==
  ASSUME NEW p, NEW o, PacketError(p, o) = "Ok"
  PROVE  FrameError(p.frame) = "Ok"
<1> DEFINE outcomes == <<
    Check(p.scene # o.scene, "StaleSceneRevision"),
    Check(p.work # o.work, "StaleWorkGeneration"),
    Check(p.device # o.device, "StaleDeviceGeneration"),
    FrameError(p.frame),
    Check(p.revision # p.frame.revision, "IncompletePacket"),
    ResourceError(p.resources, p.frame),
    DrawsError(p.frame, p.resources, p.draws)>>
<1>1. FirstError(outcomes) = "Ok" /\ DOMAIN outcomes = 1 .. 7 /\ 7 \in Nat
  BY DEF PacketError
<1>2. outcomes[4] = FrameError(p.frame) /\ 4 \in 1 .. 7
  OBVIOUS
<1> HIDE DEF outcomes
<1>3. \A i \in 1 .. 7 : outcomes[i] = "Ok"
  BY <1>1, FirstOfErrors
<1> QED
  BY <1>2, <1>3

LEMMA AnswerIsSound ==
  ASSUME RendererSound, UNCHANGED <<gpu, lost, spoiled, answer>>
  PROVE  RendererSound'
<1>1. ObjectsTyped(gpu)' /\ (lost \in BOOLEAN)' /\ (spoiled \in BOOLEAN)'
      /\ (spoiled \/ ObjectsUsable(gpu))'
  BY DEF RendererSound, ObjectsTyped, ObjectsUsable
<1>2. PictureShowsItsFrame'
  BY DEF RendererSound, PictureShowsItsFrame, Delivered
<1>3. RoomIsFound'
  BY DEF RendererSound, RoomIsFound
<1> QED
  BY <1>1, <1>2, <1>3 DEF RendererSound

-----------------------------------------------------------------------------
(* The theorems *)

LEMMA FreshIsTyped ==
  ASSUME RendererAssumption
  PROVE  ObjectsTyped(NoObjects)
<1>1. IsSequence(<<>>)
  BY ShortSequences
<1>2. 0 \in 0 .. MaxTexture /\ 0 \in 0 .. MaxBuffer
  BY DEF RendererAssumption
<1> QED
  BY <1>1, <1>2 DEF ObjectsTyped, NoObjects, NoTarget, NoBuffer, NoUniform

LEMMA InitIsSound ==
  ASSUME RendererAssumption, Init
  PROVE  IInv
<1>1. ObjectsTyped(NoObjects)
  BY FreshIsTyped
<1>2. ObjectsUsable(NoObjects)
  BY DEF ObjectsUsable, NoObjects, NoTarget, NoBuffer
<1>3. TypeOK
  <2>1. 0 \in 0 .. MaxFrames
    BY DEF RendererAssumption
  <2> QED
    BY <1>1, <2>1 DEF Init, TypeOK, Unbound, NoPacket
<1>4. PictureShowsItsFrame /\ RoomIsFound
  BY DEF Init, Nothing, PictureShowsItsFrame, Delivered, RoomIsFound
<1> QED
  BY <1>2, <1>3, <1>4 DEF IInv, Init

\* Every call keeps the invariant, and fails validation only where one failed before.
LEMMA CallIsSound ==
  ASSUME FramesAreConstructed, RendererAssumption, IInv, Next
  PROVE  IInv' /\ (answer'.result = "Internal" /\ answer' # answer => spoiled)
<1>1. RendererSound
  BY DEF RendererSound, IInv, TypeOK
<1>2. /\ owner \in [scene : Nat, work : Nat, device : Nat] /\ bound \in Nat \cup {Unbound}
      /\ packet # NoPacket => "frame" \in DOMAIN packet /\ packet.frame \in Frames
      /\ made \in 0 .. MaxFrames /\ MaxFrames \in Nat
  BY DEF IInv, TypeOK, RendererAssumption
<1> DEFINE Others == /\ owner' \in [scene : Nat, work : Nat, device : Nat]
                     /\ bound' \in Nat \cup {Unbound}
                     /\ packet' # NoPacket =>
                          "frame" \in DOMAIN packet' /\ packet'.frame \in Frames
                     /\ made' \in 0 .. MaxFrames
           Blamed == answer'.result = "Internal" /\ answer' # answer => spoiled
<1>3. RendererSound' /\ Others => IInv'
  BY DEF RendererSound, IInv, TypeOK
<1>4. ASSUME NEW frame \in Frames, NEW asked \in Asked, Build(frame, asked)
      PROVE  RendererSound' /\ Others /\ Blamed
  <2> DEFINE error == BuildError(frame, owner, asked)
  <2>1. /\ made < MaxFrames /\ made' = made + 1
        /\ packet' = IF error = "Ok" THEN PacketFor(frame, owner) ELSE NoPacket
        /\ answer' = [result |-> FrameErrorSeen(error)]
        /\ UNCHANGED <<owner, bound, lost, gpu, spoiled>>
    BY <1>4 DEF Build
  <2>2. FrameErrorSeen(error) \in {"Ok", "CapacityExceeded", "InvalidInput", "EngineRejected"}
    BY DEF FrameErrorSeen
  <2> HIDE DEF error
  <2>3. /\ "picture" \notin DOMAIN answer' /\ "accepted" \notin DOMAIN answer'
        /\ answer'.result # "Internal"
    BY <2>1, <2>2
  <2>4. RendererSound'
    <3>1. ObjectsTyped(gpu)' /\ (lost \in BOOLEAN)' /\ (spoiled \in BOOLEAN)'
          /\ (spoiled \/ ObjectsUsable(gpu))'
      BY <1>1, <2>1 DEF RendererSound, ObjectsTyped, ObjectsUsable
    <3>2. PictureShowsItsFrame'
      BY <2>3 DEF PictureShowsItsFrame, Delivered
    <3>3. RoomIsFound'
      BY <2>3 DEF RoomIsFound
    <3> QED
      BY <3>1, <3>2, <3>3 DEF RendererSound
  <2>5. Others
    <3>1. packet' # NoPacket => "frame" \in DOMAIN packet' /\ packet'.frame \in Frames
      BY <2>1 DEF PacketFor
    <3>2. made' \in 0 .. MaxFrames
      BY <1>2, <2>1
    <3> QED
      BY <1>2, <2>1, <3>1, <3>2
  <2> QED
    BY <2>3, <2>4, <2>5
<1>5. ASSUME NEW fault \in Faults, RenderValidated(fault)
      PROVE  RendererSound' /\ Others /\ Blamed
  <2> DEFINE mine == IF bound = Unbound THEN owner.device = 0 ELSE bound = owner.device
             good == PacketError(packet, owner) = "Ok"
  <2>1. /\ packet # NoPacket /\ UNCHANGED <<owner, packet, made>>
        /\ bound' = IF bound = Unbound /\ owner.device = 0 THEN 0 ELSE bound
        /\ mine /\ good => Paint(packet.frame, made, fault)
        /\ ~(mine /\ good) => Refuse("InvalidInput", packet.frame, made, FALSE)
    BY <1>5 DEF RenderValidated
  <2>2. Others
    BY <1>2, <2>1
  <2> DEFINE f == packet.frame
  <2>3. f \in Frames
    BY <1>2, <2>1
  <2>4. CASE mine /\ good
    <3>1. FrameError(f) = "Ok"
      BY <2>4, GoodPacketIsChecked
    <3>2. Paint(f, made, fault)
      BY <2>1, <2>4
    <3> HIDE DEF f
    <3>3. RendererSound' /\ (answer'.result = "Internal" => spoiled)
      BY <1>1, <2>3, <3>1, <3>2, PaintIsSound
    <3> QED
      BY <2>2, <3>3
  <2>5. CASE ~(mine /\ good)
    <3> DEFINE result == "InvalidInput"
    <3>1. Refuse(result, f, made, FALSE) /\ result # "CapacityExceeded" /\ result # "Internal"
      BY <2>1, <2>5
    <3> HIDE DEF result, f
    <3>2. RendererSound' /\ answer'.result = result
      BY <1>1, <3>1, RefusedIsSound
    <3> QED
      BY <2>2, <3>1, <3>2
  <2> QED
    BY <2>4, <2>5
<1>6. ASSUME NEW frame \in Frames, NEW fault \in Faults, Render(frame, fault)
      PROVE  RendererSound' /\ Others /\ Blamed
  <2> DEFINE n == made + 1
  <2>1. /\ made < MaxFrames /\ made' = n /\ packet' = NoPacket
        /\ FrameError(frame) = "Ok" /\ Paint(frame, n, fault)
        /\ UNCHANGED <<owner, bound>>
    BY <1>6 DEF Render
  <2>2. Others
    BY <1>2, <2>1
  <2> HIDE DEF n
  <2>3. RendererSound' /\ (answer'.result = "Internal" => spoiled)
    BY <1>1, <2>1, PaintIsSound
  <2> QED
    BY <2>2, <2>3
<1>7. ASSUME BindDeviceGeneration PROVE RendererSound' /\ Others /\ Blamed
  <2>1. /\ UNCHANGED <<owner, gpu, lost, spoiled, answer, packet, made>>
        /\ bound' = IF bound = Unbound THEN owner.device ELSE bound
    BY <1>7 DEF BindDeviceGeneration
  <2>2. RendererSound'
    BY <1>1, <2>1, AnswerIsSound
  <2> QED
    BY <1>2, <2>1, <2>2
<1>8. ASSUME LoseDevice PROVE RendererSound' /\ Others /\ Blamed
  <2>1. UNCHANGED <<owner, bound, gpu, spoiled, answer, packet, made>> /\ lost' = TRUE
    BY <1>8 DEF LoseDevice
  <2>2. RendererSound'
    <3>1. ObjectsTyped(gpu)' /\ (lost \in BOOLEAN)' /\ (spoiled \in BOOLEAN)'
          /\ (spoiled \/ ObjectsUsable(gpu))'
      BY <1>1, <2>1 DEF RendererSound, ObjectsTyped, ObjectsUsable
    <3>2. PictureShowsItsFrame'
      BY <1>1, <2>1 DEF RendererSound, PictureShowsItsFrame, Delivered
    <3>3. RoomIsFound'
      BY <1>1, <2>1 DEF RendererSound, RoomIsFound
    <3> QED
      BY <3>1, <3>2, <3>3 DEF RendererSound
  <2> QED
    BY <1>2, <2>1, <2>2
<1>9. ASSUME NEW part \in {"scene", "work"}, Publish(part)
      PROVE  RendererSound' /\ Others /\ Blamed
  <2>1. /\ UNCHANGED <<bound, lost, gpu, spoiled, answer, packet, made>>
        /\ owner' = [owner EXCEPT ![part] = @ + 1]
    BY <1>9 DEF Publish
  <2>2. RendererSound'
    BY <1>1, <2>1, AnswerIsSound
  <2>3. owner' \in [scene : Nat, work : Nat, device : Nat]
    BY <1>2, <2>1
  <2> QED
    BY <1>2, <2>1, <2>2, <2>3
<1>10. ASSUME ReplaceRenderer PROVE RendererSound' /\ Others /\ Blamed
  <2>1. /\ UNCHANGED <<packet, made>> /\ bound' = Unbound /\ lost' = FALSE
        /\ gpu' = NoObjects /\ spoiled' = FALSE /\ answer' = Nothing
        /\ owner' = [owner EXCEPT !.device = @ + 1]
    BY <1>10 DEF ReplaceRenderer
  <2>2. owner' \in [scene : Nat, work : Nat, device : Nat]
    BY <1>2, <2>1
  <2>3. ObjectsTyped(NoObjects) /\ ObjectsUsable(NoObjects)
    BY FreshIsTyped DEF ObjectsUsable, NoObjects, NoTarget, NoBuffer
  <2>4. /\ answer'.result = "none" /\ "picture" \notin DOMAIN answer'
        /\ "accepted" \notin DOMAIN answer'
    BY <2>1 DEF Nothing
  <2>5. RendererSound'
    <3>1. ObjectsTyped(gpu)' /\ (lost \in BOOLEAN)' /\ (spoiled \in BOOLEAN)'
          /\ (spoiled \/ ObjectsUsable(gpu))'
      BY <2>1, <2>3
    <3>2. PictureShowsItsFrame' /\ RoomIsFound'
      BY <2>4 DEF PictureShowsItsFrame, Delivered, RoomIsFound
    <3> QED
      BY <3>1, <3>2 DEF RendererSound
  <2> QED
    BY <1>2, <2>1, <2>2, <2>4, <2>5
<1> HIDE DEF Others, Blamed
<1>11. RendererSound' /\ Others /\ Blamed
  BY <1>4, <1>5, <1>6, <1>7, <1>8, <1>9, <1>10 DEF Next
<1> QED
  BY <1>3, <1>11 DEF Blamed

\* The invariant: retained objects keep to the device's limits, each of them can be
\* used unless a call failed half-way, and the answers keep what is promised of them.
THEOREM RendererIsSound == Spec => []IInv
<1>1. Init => IInv
  BY RendererAssumption, InitIsSound
<1>2. IInv /\ [Next]_vars => IInv'
  <2> SUFFICES ASSUME IInv, [Next]_vars PROVE IInv'
    OBVIOUS
  <2>1. CASE Next
    BY <2>1, FramesAreConstructed, RendererAssumption, CallIsSound
  <2>2. CASE UNCHANGED vars
    <3>1. RendererSound
      BY DEF RendererSound, IInv, TypeOK
    <3>2. UNCHANGED <<owner, bound, lost, gpu, packet, made, answer, spoiled>>
      BY <2>2 DEF vars
    <3>3. RendererSound'
      BY <3>1, <3>2, AnswerIsSound
    <3> QED
      BY <3>2, <3>3 DEF IInv, TypeOK, RendererSound
  <2> QED
    BY <2>1, <2>2
<1> QED
  BY <1>1, <1>2, PTL DEF Spec

\* Whatever frames a renderer painted before and however they failed, a picture it
\* delivers begins with its own frame's clearing and shows that frame's shapes, each
\* once, in its colour and width and in paint order.
THEOREM PicturesShowTheirFrames == Spec => []PictureShowsItsFrame
<1>1. IInv => PictureShowsItsFrame
  BY DEF IInv
<1> QED
  BY <1>1, RendererIsSound, PTL

\* A frame that passed the caller's checks is refused for want of room only if it is
\* itself larger than the device or a fixed limit allows.
THEOREM RoomIsAlwaysFound == Spec => []RoomIsFound
<1>1. IInv => RoomIsFound
  BY DEF IInv
<1> QED
  BY <1>1, RendererIsSound, PTL

\* Only a renderer that failed half-way before fails validation.
THEOREM ValidationFailsOnlyWhenSpoiled == Spec => OnlySpoiledRenderersFail
<1>1. IInv /\ [Next]_vars =>
        [answer'.result = "Internal" /\ answer' # answer => spoiled]_vars
  BY FramesAreConstructed, RendererAssumption, CallIsSound
<1> QED
  BY <1>1, RendererIsSound, PTL DEF Spec, OnlySpoiledRenderersFail
=============================================================================
