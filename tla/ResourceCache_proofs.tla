------------------------- MODULE ResourceCache_proofs -------------------------
(***************************************************************************)
(* Theorems about ResourceCache for every set of resources, any finite set *)
(* of lease handles and every limit.                                       *)
(***************************************************************************)
EXTENDS ResourceCache, FiniteSetTheorems, TLAPS

(* The owners of a key can be counted. *)
LEMMA OwnersAreFinite ==
  ASSUME ResourceCacheAssumption, IInv, NEW k
  PROVE  /\ IsFiniteSet(LeasesOn(k)) /\ Cardinality(LeasesOn(k)) \in Nat
         /\ IsFiniteSet(InFlight(k)) /\ Cardinality(InFlight(k)) \in Nat
<1>1. IsFiniteSet(Leases) /\ IsFiniteSet(cache.pending)
  BY DEF ResourceCacheAssumption, IInv, InFlightIsSubmitted
<1>2. LeasesOn(k) \subseteq Leases /\ InFlight(k) \subseteq cache.pending
  BY DEF LeasesOn, CurrentLeases, InFlight
<1>3. IsFiniteSet(LeasesOn(k)) /\ IsFiniteSet(InFlight(k))
  BY <1>1, <1>2, FS_Subset
<1>4. QED
  BY <1>3, FS_CardinalityType

(* What TypeOK says of the cache and of a lease. *)
LEMMA CacheShape ==
  ASSUME TypeOK
  PROVE  /\ cache \in Caches
         /\ cache.device \in Generations /\ cache.token \in Nat
         /\ cache.owners \in [Keys -> Nat]
         /\ \A p \in cache.pending : p.sequence \in Nat /\ p.keys \subseteq Keys
         /\ cache.lastSubmitted \in Int /\ cache.lastCompleted \in Int
         /\ \A l \in Leases : held[l] # NoLease =>
              /\ held[l] \in LeaseRecords
              /\ held[l].token \in Nat /\ held[l].device \in Generations
              /\ held[l].keys \subseteq Keys
BY DEF TypeOK, Caches, LeaseRecords, Submissions, NoFence

-----------------------------------------------------------------------------
(* Initially nothing is held, owned or in flight. *)
LEMMA InitSound ==
  ASSUME CacheAssumption, ResourceCacheAssumption, Init
  PROVE  IInv
<1>1. /\ cache.pending = {} /\ cache.device = 0 /\ cache.token = 0
      /\ cache.lastSubmitted = NoFence /\ cache.lastCompleted = NoFence
      /\ \A k \in Keys : cache.owners[k] = 0
  BY DEF Init, EmptyCache
<1>2. IsFiniteSet(cache.pending) /\ Cardinality(cache.pending) = 0
  BY <1>1, FS_EmptySet
<1>3. cache \in Caches
  BY DEF Init, EmptyCache, Caches, CacheAssumption, Generations
<1>4. TypeOK
  BY <1>1, <1>2, <1>3 DEF Init, TypeOK, CacheAssumption, Results
<1>5. \A k : LeasesOn(k) = {} /\ InFlight(k) = {}
  BY <1>1 DEF Init, LeasesOn, CurrentLeases, InFlight
<1>6. OwnersCounted
  BY <1>1, <1>5, FS_EmptySet DEF OwnersCounted
<1>7. QED
  BY <1>1, <1>2, <1>4, <1>6 DEF Init, IInv, OnlyCurrentDevice, LeasesAreOfTheirDevice,
                              InFlightIsSubmitted

-----------------------------------------------------------------------------
(* An acquired lease is one more owner of each of its keys. *)
LEMMA AcquireSound ==
  ASSUME CacheAssumption, ResourceCacheAssumption, IInv,
         NEW l \in Leases, NEW d \in Generations, NEW valid \in BOOLEAN,
         NEW allocated \in BOOLEAN, NEW rs \in SUBSET Resources,
         Acquire(l, d, valid, allocated, rs)
  PROVE  IInv'
<1> DEFINE keys == KeysOf(rs, cache.device)
<1>0. /\ TypeOK /\ OwnersCounted /\ OnlyCurrentDevice /\ LeasesAreOfTheirDevice
      /\ InFlightIsSubmitted
  BY DEF IInv
<1>1. /\ AcquireRefusal(cache, d, valid, allocated, rs) \in Results
      /\ result' = AcquireRefusal(cache, d, valid, allocated, rs)
      /\ held[l] = NoLease
  BY DEF Acquire, AcquireRefusal, Results
<1>2. CASE UNCHANGED <<cache, held>>
  BY <1>0, <1>1, <1>2 DEF IInv, TypeOK, OwnersCounted, OnlyCurrentDevice,
       LeasesAreOfTheirDevice, InFlightIsSubmitted, LeasesOn, CurrentLeases, InFlight
<1>3. CASE /\ AcquireRefusal(cache, d, valid, allocated, rs) = "Ok"
           /\ cache' = AcquireInto(cache, rs)
           /\ held' = [held EXCEPT ![l] = LeaseOf(cache, rs)]
  <2>1. /\ keys \subseteq Keys
        /\ \A k \in keys : k[2] = cache.device
        /\ \A k \in keys : cache.owners[k] < MaxOwners
    <3>1. cache.device \in Generations
      BY <1>0, CacheShape
    <3>2. keys \subseteq Keys /\ \A k \in keys : k[2] = cache.device
      BY <3>1 DEF KeysOf, Keys
    <3>3. QED
      BY <1>0, <1>3, <3>2, CacheShape DEF AcquireRefusal, CacheAssumption
  <2>2. /\ cache' \in Caches
        /\ cache'.device = cache.device /\ cache'.token = cache.token
        /\ cache'.pending = cache.pending
        /\ cache'.lastSubmitted = cache.lastSubmitted
        /\ cache'.lastCompleted = cache.lastCompleted
        /\ \A k \in Keys :
             cache'.owners[k] = IF k \in keys THEN cache.owners[k] + 1 ELSE cache.owners[k]
    BY <1>0, <1>3, CacheShape DEF AcquireInto, Caches
  <2>3. /\ LeaseOf(cache, rs) \in LeaseRecords /\ LeaseOf(cache, rs) # NoLease
        /\ LeaseOf(cache, rs).token = cache.token /\ LeaseOf(cache, rs).device = cache.device
        /\ LeaseOf(cache, rs).keys = keys
    BY <1>0, <2>1, CacheShape DEF LeaseOf, LeaseRecords, ResourceCacheAssumption
  <2>4. /\ held'[l] = LeaseOf(cache, rs)
        /\ \A x \in Leases : x # l => held'[x] = held[x]
    BY <1>0, <1>3 DEF TypeOK
  <2>5. held' \in [Leases -> LeaseRecords \cup {NoLease}]
    BY <1>0, <1>3, <2>3 DEF TypeOK
  <2>6. TypeOK'
    BY <1>0, <1>1, <2>1, <2>2, <2>5, CacheShape DEF TypeOK, CacheAssumption
  <2>7. \A k \in Keys : InFlight(k)' = InFlight(k)
    BY <2>2 DEF InFlight
  <2>8. \A k \in Keys :
          Cardinality(LeasesOn(k)')
            = IF k \in keys THEN Cardinality(LeasesOn(k)) + 1 ELSE Cardinality(LeasesOn(k))
    <3> SUFFICES ASSUME NEW k \in Keys
                 PROVE  Cardinality(LeasesOn(k)')
                          = IF k \in keys THEN Cardinality(LeasesOn(k)) + 1
                            ELSE Cardinality(LeasesOn(k))
      OBVIOUS
    <3>1. l \notin LeasesOn(k)
      BY <1>1 DEF LeasesOn, CurrentLeases
    <3>2. LeasesOn(k)' = IF k \in keys THEN LeasesOn(k) \cup {l} ELSE LeasesOn(k)
      BY <2>2, <2>3, <2>4, <3>1 DEF LeasesOn, CurrentLeases, IsCurrent
    <3>3. QED
      BY <3>1, <3>2, OwnersAreFinite, FS_AddElement
  <2>9. OwnersCounted'
    BY <1>0, <2>2, <2>7, <2>8, OwnersAreFinite, CacheShape DEF OwnersCounted
  <2>10. OnlyCurrentDevice'
    BY <1>0, <2>1, <2>2 DEF OnlyCurrentDevice
  <2>11. LeasesAreOfTheirDevice'
    BY <1>0, <2>1, <2>2, <2>3, <2>4, CacheShape DEF LeasesAreOfTheirDevice
  <2>12. InFlightIsSubmitted'
    BY <1>0, <2>2 DEF InFlightIsSubmitted
  <2>13. QED
    BY <2>6, <2>9, <2>10, <2>11, <2>12 DEF IInv
<1>4. QED
  BY <1>2, <1>3 DEF Acquire

-----------------------------------------------------------------------------
(* A handle that is let go is one owner less of its keys, if its lease was *)
(* granted in this lifetime, and nothing changes otherwise.                *)
LEMMA LeaseGone ==
  ASSUME ResourceCacheAssumption, IInv, NEW l \in Leases, held[l] # NoLease,
         held' = [held EXCEPT ![l] = NoLease],
         cache'.token = cache.token, cache'.device = cache.device, NEW k \in Keys
  PROVE  /\ LeasesOn(k)' = LeasesOn(k) \ {l}
         /\ Cardinality(LeasesOn(k)')
              = IF IsCurrent(cache, held[l]) /\ k \in held[l].keys
                THEN Cardinality(LeasesOn(k)) - 1 ELSE Cardinality(LeasesOn(k))
         /\ l \in LeasesOn(k) => Cardinality(LeasesOn(k)) > 0
<1>1. held'[l] = NoLease /\ \A x \in Leases : x # l => held'[x] = held[x]
  BY DEF IInv, TypeOK
<1>2. LeasesOn(k)' = LeasesOn(k) \ {l}
  BY <1>1 DEF LeasesOn, CurrentLeases, IsCurrent
<1>3. l \in LeasesOn(k) <=> IsCurrent(cache, held[l]) /\ k \in held[l].keys
  BY DEF LeasesOn, CurrentLeases
<1>4. l \in LeasesOn(k) => Cardinality(LeasesOn(k)) > 0
  BY OwnersAreFinite, FS_EmptySet
<1>5. QED
  BY <1>2, <1>3, <1>4, OwnersAreFinite, FS_RemoveElement

(* Dropping a lease keeps the cache sound (Drop for ResourceLease, and every *)
(* refusal of submit).                                                       *)
LEMMA DropSound ==
  ASSUME CacheAssumption, ResourceCacheAssumption, IInv, NEW l \in Leases, held[l] # NoLease,
         held' = [held EXCEPT ![l] = NoLease],
         cache' = DropLease(cache, held[l]), result' \in Results
  PROVE  IInv'
<1> DEFINE lease == held[l]
<1>0. /\ TypeOK /\ OwnersCounted /\ OnlyCurrentDevice /\ LeasesAreOfTheirDevice
      /\ InFlightIsSubmitted
  BY DEF IInv
<1>1. /\ cache' \in Caches
      /\ cache'.device = cache.device /\ cache'.token = cache.token
      /\ cache'.pending = cache.pending
      /\ cache'.lastSubmitted = cache.lastSubmitted
      /\ cache'.lastCompleted = cache.lastCompleted
      /\ \A k \in Keys :
           cache'.owners[k] = IF IsCurrent(cache, lease) /\ k \in lease.keys
                              THEN Minus(cache.owners[k], 1) ELSE cache.owners[k]
  BY <1>0, CacheShape DEF DropLease, ReleaseKeys, Minus, Caches
<1>2. held'[l] = NoLease /\ \A x \in Leases : x # l => held'[x] = held[x]
  BY <1>0 DEF TypeOK
<1>3. \A k \in Keys : cache'.owners[k] \in Nat /\ cache'.owners[k] <= cache.owners[k]
  BY <1>0, <1>1, CacheShape DEF Minus
<1>4. TypeOK'
  <2>1. \A k \in Keys : cache'.owners[k] <= MaxOwners
    BY <1>0, <1>3, CacheShape DEF TypeOK, CacheAssumption
  <2>2. QED
    BY <1>0, <1>1, <2>1 DEF TypeOK
<1>5. OwnersCounted'
  <2> SUFFICES ASSUME NEW k \in Keys
               PROVE  cache'.owners[k] = Cardinality(LeasesOn(k)') + Cardinality(InFlight(k)')
    BY DEF OwnersCounted
  <2>1. InFlight(k)' = InFlight(k)
    BY <1>1 DEF InFlight
  <2>2. cache.owners[k] = Cardinality(LeasesOn(k)) + Cardinality(InFlight(k))
    BY <1>0 DEF OwnersCounted
  <2>3. CASE IsCurrent(cache, lease) /\ k \in lease.keys
    <3>1. l \in LeasesOn(k)
      BY <2>3 DEF LeasesOn, CurrentLeases
    <3>2. /\ Cardinality(LeasesOn(k)') = Cardinality(LeasesOn(k)) - 1
          /\ Cardinality(LeasesOn(k)) > 0
      BY <1>1, <2>3, <3>1, LeaseGone
    <3>3. cache'.owners[k] = cache.owners[k] - 1
      BY <1>0, <1>1, <2>2, <2>3, <3>2, OwnersAreFinite DEF Minus
    <3>4. QED
      BY <2>1, <2>2, <3>2, <3>3, OwnersAreFinite
  <2>4. CASE ~(IsCurrent(cache, lease) /\ k \in lease.keys)
    BY <1>1, <2>1, <2>2, <2>4, LeaseGone
  <2>5. QED
    BY <2>3, <2>4
<1>6. OnlyCurrentDevice'
  BY <1>0, <1>1, <1>3, CacheShape DEF OnlyCurrentDevice
<1>7. LeasesAreOfTheirDevice'
  BY <1>0, <1>1, <1>2 DEF LeasesAreOfTheirDevice
<1>8. InFlightIsSubmitted'
  BY <1>0, <1>1 DEF InFlightIsSubmitted
<1>9. QED
  BY <1>4, <1>5, <1>6, <1>7, <1>8 DEF IInv

\* A released handle is dropped.
LEMMA ReleaseSound ==
  ASSUME CacheAssumption, ResourceCacheAssumption, IInv, NEW l \in Leases, Release(l)
  PROVE  IInv'
BY DropSound DEF Release, Results

(* An accepted submission takes over its lease's owners: the count stays. *)
LEMMA SubmitSound ==
  ASSUME CacheAssumption, ResourceCacheAssumption, IInv,
         NEW l \in Leases, NEW d \in Generations, NEW s \in Nat,
         NEW allocated \in BOOLEAN, Submit(l, d, s, allocated)
  PROVE  IInv'
<1> DEFINE lease == held[l]
           refusal == SubmitRefusal(cache, lease, d, s, allocated)
           new == [sequence |-> s, keys |-> lease.keys]
<1>0. /\ TypeOK /\ OwnersCounted /\ OnlyCurrentDevice /\ LeasesAreOfTheirDevice
      /\ InFlightIsSubmitted
  BY DEF IInv
<1>1. /\ refusal \in Results /\ result' = refusal
      /\ held[l] # NoLease /\ held' = [held EXCEPT ![l] = NoLease]
  BY DEF Submit, SubmitRefusal, Results
<1>2. CASE refusal # "Ok" /\ cache' = DropLease(cache, lease)
  BY <1>1, <1>2, DropSound
<1>3. CASE refusal = "Ok" /\ cache' = SubmitInto(cache, lease, s)
  <2>1. /\ IsCurrent(cache, lease) /\ Cardinality(cache.pending) < MaxPendingSubmissions
        /\ s > cache.lastSubmitted /\ s > cache.lastCompleted
    <3>1. Cardinality(cache.pending) \in Nat
      BY <1>0, FS_CardinalityType DEF InFlightIsSubmitted
    <3>2. QED
      BY <1>0, <1>3, <3>1, CacheShape DEF SubmitRefusal, CacheAssumption
  <2>2. new \in Submissions /\ \A k \in lease.keys : k[2] = cache.device
    BY <1>0, <1>1, <2>1, CacheShape DEF Submissions, LeasesAreOfTheirDevice, IsCurrent
  <2>3. /\ cache' \in Caches
        /\ cache'.device = cache.device /\ cache'.token = cache.token
        /\ cache'.pending = cache.pending \cup {new}
        /\ cache'.owners = cache.owners
        /\ cache'.lastSubmitted = s /\ cache'.lastCompleted = cache.lastCompleted
    BY <1>0, <1>3, <2>2, CacheShape DEF SubmitInto, Caches
  <2>4. new \notin cache.pending
    BY <1>0, <2>1, CacheShape DEF InFlightIsSubmitted
  <2>5. /\ IsFiniteSet(cache'.pending)
        /\ Cardinality(cache'.pending) = Cardinality(cache.pending) + 1
    BY <1>0, <2>3, <2>4, FS_AddElement DEF InFlightIsSubmitted
  <2>6. TypeOK'
    <3>1. Cardinality(cache.pending) \in Nat
      BY <1>0, FS_CardinalityType DEF InFlightIsSubmitted
    <3>2. Cardinality(cache'.pending) <= MaxPendingSubmissions
      BY <2>1, <2>5, <3>1 DEF CacheAssumption
    <3>3. QED
      BY <1>0, <1>1, <2>3, <3>2 DEF TypeOK
  <2>7. OwnersCounted'
    <3> SUFFICES ASSUME NEW k \in Keys
                 PROVE  cache'.owners[k] = Cardinality(LeasesOn(k)') + Cardinality(InFlight(k)')
      BY DEF OwnersCounted
    <3>1. cache'.owners[k] = Cardinality(LeasesOn(k)) + Cardinality(InFlight(k))
      BY <1>0, <2>3 DEF OwnersCounted
    <3>2. InFlight(k)' = IF k \in lease.keys THEN InFlight(k) \cup {new} ELSE InFlight(k)
      BY <2>3 DEF InFlight
    <3>3. new \notin InFlight(k)
      BY <2>4 DEF InFlight
    <3>4. Cardinality(InFlight(k)')
            = IF k \in lease.keys THEN Cardinality(InFlight(k)) + 1
              ELSE Cardinality(InFlight(k))
      BY <3>2, <3>3, OwnersAreFinite, FS_AddElement
    <3>5. Cardinality(LeasesOn(k)')
            = IF k \in lease.keys THEN Cardinality(LeasesOn(k)) - 1
              ELSE Cardinality(LeasesOn(k))
      BY <1>1, <2>1, <2>3, LeaseGone
    <3>6. QED
      BY <3>1, <3>4, <3>5, OwnersAreFinite
  <2>8. OnlyCurrentDevice'
    BY <1>0, <2>2, <2>3 DEF OnlyCurrentDevice
  <2>9. LeasesAreOfTheirDevice'
    BY <1>0, <1>1, <2>3 DEF LeasesAreOfTheirDevice, TypeOK
  <2>10. InFlightIsSubmitted'
    BY <1>0, <2>1, <2>3, <2>5, CacheShape DEF InFlightIsSubmitted
  <2>11. QED
    BY <2>6, <2>7, <2>8, <2>9, <2>10 DEF IInv
<1>4. QED
  BY <1>2, <1>3 DEF Submit

-----------------------------------------------------------------------------
(* A saturating subtraction stays within its count, and is exact as long as *)
(* it does not saturate (release_resource).                                 *)
LEMMA MinusBounds ==
  ASSUME NEW a \in Nat, NEW b \in Nat
  PROVE  /\ Minus(a, b) \in Nat /\ Minus(a, b) <= a
         /\ b <= a => Minus(a, b) = a - b
BY DEF Minus

(* A completion retires what it covers, and each retired submission gives up *)
(* one owner of each of its keys.                                            *)
LEMMA CompleteSound ==
  ASSUME CacheAssumption, ResourceCacheAssumption, IInv,
         NEW d \in Generations, NEW s \in Nat, Complete(d, s)
  PROVE  IInv'
<1> DEFINE retired == Retired(cache, s)
           RetiredOn(k) == {p \in retired : k \in p.keys}
<1>0. /\ TypeOK /\ OwnersCounted /\ OnlyCurrentDevice /\ LeasesAreOfTheirDevice
      /\ InFlightIsSubmitted
  BY DEF IInv
<1>1. result' \in Results /\ UNCHANGED held
  BY DEF Complete, CompleteRefusal, Results
<1>2. CASE UNCHANGED cache
  BY <1>0, <1>1, <1>2 DEF IInv, TypeOK, OwnersCounted, OnlyCurrentDevice,
       LeasesAreOfTheirDevice, InFlightIsSubmitted, LeasesOn, CurrentLeases, InFlight
<1>3. CASE /\ CompleteRefusal(cache, d, s) = "Ok"
           /\ ~(cache.lastCompleted # NoFence /\ s <= cache.lastCompleted)
           /\ cache' = CompleteInto(cache, s)
  <2>1. retired = {p \in cache.pending : p.sequence <= s} /\ retired \subseteq cache.pending
    BY DEF Retired
  <2>2. \A k : /\ IsFiniteSet(RetiredOn(k)) /\ Cardinality(RetiredOn(k)) \in Nat
               /\ RetiredOn(k) \subseteq InFlight(k)
               /\ Cardinality(RetiredOn(k)) <= Cardinality(InFlight(k))
    <3> SUFFICES ASSUME NEW k
                 PROVE  /\ IsFiniteSet(RetiredOn(k)) /\ Cardinality(RetiredOn(k)) \in Nat
                        /\ RetiredOn(k) \subseteq InFlight(k)
                        /\ Cardinality(RetiredOn(k)) <= Cardinality(InFlight(k))
      OBVIOUS
    <3>1. RetiredOn(k) \subseteq InFlight(k)
      BY <2>1 DEF InFlight
    <3>2. QED
      BY <3>1, OwnersAreFinite, FS_Subset, FS_CardinalityType
  <2>3. \A k \in Keys :
          LET left == Minus(cache.owners[k], Cardinality(RetiredOn(k)))
          IN left \in Nat /\ left <= cache.owners[k]
    <3> SUFFICES ASSUME NEW k \in Keys
                 PROVE  LET left == Minus(cache.owners[k], Cardinality(RetiredOn(k)))
                        IN left \in Nat /\ left <= cache.owners[k]
      OBVIOUS
    <3>1. cache.owners[k] \in Nat /\ Cardinality(RetiredOn(k)) \in Nat
      BY <1>0, <2>2, CacheShape
    <3> HIDE DEF RetiredOn
    <3>2. QED
      BY <3>1, MinusBounds
  <2>4. /\ cache'.device = cache.device /\ cache'.token = cache.token
        /\ cache'.pending = cache.pending \ retired
        /\ cache'.owners = [k \in Keys |-> Minus(cache.owners[k], Cardinality(RetiredOn(k)))]
        /\ cache'.lastSubmitted = cache.lastSubmitted /\ cache'.lastCompleted = s
    BY <1>0, <1>3, CacheShape DEF CompleteInto, Caches
  <2>5. cache' \in Caches
    <3>1. cache' = [cache EXCEPT
                      !.owners = [k \in Keys |->
                                    Minus(cache.owners[k], Cardinality(RetiredOn(k)))],
                      !.pending = cache.pending \ retired,
                      !.lastCompleted = s]
      BY <1>3 DEF CompleteInto
    <3>2. [k \in Keys |-> Minus(cache.owners[k], Cardinality(RetiredOn(k)))] \in [Keys -> Nat]
      BY <2>3
    <3>3. QED
      BY <1>0, <3>1, <3>2, CacheShape DEF Caches
  <2>6. TypeOK'
    <3>1. /\ IsFiniteSet(cache'.pending)
          /\ Cardinality(cache'.pending) <= Cardinality(cache.pending)
          /\ Cardinality(cache.pending) \in Nat /\ Cardinality(cache'.pending) \in Nat
      BY <1>0, <2>4, FS_Subset, FS_CardinalityType DEF InFlightIsSubmitted
    <3>2. Cardinality(cache'.pending) <= MaxPendingSubmissions
      BY <1>0, <3>1 DEF TypeOK, CacheAssumption
    <3>3. \A k \in Keys : cache'.owners[k] <= MaxOwners
      BY <1>0, <2>3, <2>4, CacheShape DEF TypeOK, CacheAssumption
    <3>4. QED
      BY <1>0, <1>1, <2>5, <3>2, <3>3 DEF TypeOK
  <2>7. OwnersCounted'
    <3> SUFFICES ASSUME NEW k \in Keys
                 PROVE  cache'.owners[k] = Cardinality(LeasesOn(k)') + Cardinality(InFlight(k)')
      BY DEF OwnersCounted
    <3>1. LeasesOn(k)' = LeasesOn(k)
      BY <1>1, <2>4 DEF LeasesOn, CurrentLeases, IsCurrent
    <3>2. InFlight(k)' = InFlight(k) \ RetiredOn(k)
      BY <2>4 DEF InFlight
    <3>3. InFlight(k) \cap RetiredOn(k) = RetiredOn(k)
      BY <2>2
    <3>4. Cardinality(InFlight(k)') = Cardinality(InFlight(k)) - Cardinality(RetiredOn(k))
      BY <3>2, <3>3, OwnersAreFinite, FS_Difference
    <3>5. cache'.owners[k]
            = Minus(Cardinality(LeasesOn(k)) + Cardinality(InFlight(k)),
                    Cardinality(RetiredOn(k)))
      BY <1>0, <2>4 DEF OwnersCounted
    <3>6. /\ Cardinality(RetiredOn(k)) \in Nat
          /\ Cardinality(RetiredOn(k)) <= Cardinality(InFlight(k))
      BY <2>2
    <3> HIDE DEF RetiredOn
    <3>7. QED
      BY <3>1, <3>4, <3>5, <3>6, MinusBounds, OwnersAreFinite
  <2>8. OnlyCurrentDevice'
    <3>1. \A k \in Keys : cache'.owners[k] > 0 => cache.owners[k] > 0
      BY <1>0, <2>3, <2>4, CacheShape
    <3>2. QED
      BY <1>0, <2>4, <3>1 DEF OnlyCurrentDevice
  <2>9. LeasesAreOfTheirDevice'
    BY <1>0, <1>1, <2>4 DEF LeasesAreOfTheirDevice
  <2>10. InFlightIsSubmitted'
    <3>1. IsFiniteSet(cache'.pending)
      BY <1>0, <2>4, FS_Subset DEF InFlightIsSubmitted
    <3>2. QED
      BY <1>0, <2>1, <2>4, <3>1, CacheShape DEF InFlightIsSubmitted
  <2>11. QED
    BY <2>6, <2>7, <2>8, <2>9, <2>10 DEF IInv
<1>4. QED
  BY <1>2, <1>3 DEF Complete, CompleteInto

(* A new lifetime begins empty, and no lease of an earlier one counts. *)
LEMMA InvalidateSound ==
  ASSUME CacheAssumption, ResourceCacheAssumption, IInv,
         NEW d \in Generations, Invalidate(d)
  PROVE  IInv'
<1>0. TypeOK /\ LeasesAreOfTheirDevice
  BY DEF IInv
<1>1. /\ cache'.device = d /\ cache'.token = cache.token + 1 /\ cache'.pending = {}
      /\ cache'.owners = [k \in Keys |-> 0]
      /\ cache'.lastSubmitted = NoFence /\ cache'.lastCompleted = NoFence
      /\ held' = held /\ result' = "Ok"
  BY DEF Invalidate, InvalidateTo, EmptyCache
<1>2. cache' \in Caches
  BY <1>0, CacheShape DEF Invalidate, InvalidateTo, EmptyCache, Caches
<1>3. IsFiniteSet(cache'.pending) /\ Cardinality(cache'.pending) = 0
  BY <1>1, FS_EmptySet
<1>4. TypeOK'
  BY <1>0, <1>1, <1>2, <1>3 DEF TypeOK, CacheAssumption, Results
<1>5. LeasesAreOfTheirDevice'
  BY <1>0, <1>1, CacheShape DEF LeasesAreOfTheirDevice
<1>6. \A k : LeasesOn(k)' = {} /\ InFlight(k)' = {}
  BY <1>0, <1>1, CacheShape
     DEF LeasesOn, CurrentLeases, IsCurrent, InFlight, LeasesAreOfTheirDevice
<1>7. OwnersCounted'
  BY <1>1, <1>6, FS_EmptySet DEF OwnersCounted
<1>8. QED
  BY <1>1, <1>3, <1>4, <1>5, <1>7 DEF IInv, OnlyCurrentDevice, InFlightIsSubmitted

-----------------------------------------------------------------------------
(* Every call keeps the cache sound. *)
LEMMA StepSound ==
  ASSUME CacheAssumption, ResourceCacheAssumption, IInv, [Next]_vars
  PROVE  IInv'
<1>1. ASSUME NEW l \in Leases, NEW d \in Generations, NEW valid \in BOOLEAN,
             NEW allocated \in BOOLEAN, NEW rs \in SUBSET Resources,
             Acquire(l, d, valid, allocated, rs)
      PROVE  IInv'
  BY <1>1, AcquireSound
<1>2. ASSUME NEW l \in Leases, Release(l)
      PROVE  IInv'
  BY <1>2, ReleaseSound
<1>3. ASSUME NEW l \in Leases, NEW d \in Generations, NEW s \in 0 .. MaxSequence,
             NEW allocated \in BOOLEAN, Submit(l, d, s, allocated)
      PROVE  IInv'
  <2>1. s \in Nat
    BY DEF ResourceCacheAssumption
  <2>2. QED
    BY <1>3, <2>1, SubmitSound
<1>4. ASSUME NEW d \in Generations, NEW s \in 0 .. MaxSequence, Complete(d, s)
      PROVE  IInv'
  <2>1. s \in Nat
    BY DEF ResourceCacheAssumption
  <2>2. QED
    BY <1>4, <2>1, CompleteSound
<1>5. ASSUME NEW d \in Generations, Invalidate(d)
      PROVE  IInv'
  BY <1>5, InvalidateSound
<1>6. CASE UNCHANGED vars
  BY <1>6 DEF vars, IInv, TypeOK, OwnersCounted, OnlyCurrentDevice,
       LeasesAreOfTheirDevice, InFlightIsSubmitted, LeasesOn, CurrentLeases, InFlight
<1>7. QED
  BY <1>1, <1>2, <1>3, <1>4, <1>5, <1>6 DEF Next

(* The inductive invariant holds of every behaviour of the cache and its *)
(* callers.                                                              *)
THEOREM CacheIsSound == Spec => []IInv
<1>1. Init => IInv
  BY InitSound, CacheAssumption, ResourceCacheAssumption
<1>2. IInv /\ [Next]_vars => IInv'
  BY StepSound, CacheAssumption, ResourceCacheAssumption
<1>3. QED
  BY <1>1, <1>2, PTL DEF Spec

(* The cache and the leases are typed, and no counter exceeds the limits that *)
(* acquire and submit enforce.                                                *)
THEOREM CacheTypeCorrect == Spec => []TypeOK
<1>1. IInv => TypeOK
  BY DEF IInv
<1>2. QED
  BY <1>1, CacheIsSound, PTL

(* Owners are counted exactly: each key has as many as there are live leases *)
(* and submissions in flight that name it (acquire_checked, submit, complete *)
(* and Drop for ResourceLease).                                              *)
THEOREM OwnersAreCounted == Spec => []OwnersCounted
<1>1. IInv => OwnersCounted
  BY DEF IInv
<1>2. QED
  BY <1>1, CacheIsSound, PTL

(* Nothing of an earlier device survives an invalidation *)
(* (invalidate_device_generation).                       *)
THEOREM OldDevicesAreGone == Spec => []OnlyCurrentDevice
<1>1. IInv => OnlyCurrentDevice
  BY DEF IInv
<1>2. QED
  BY <1>1, CacheIsSound, PTL

(* Nothing is retired before its fence: a submission leaves the cache by a   *)
(* completion that covers it, or with the whole lifetime (complete).         *)
THEOREM NothingIsRetiredEarly == Spec => RetiredOnlyWhenCompleted
<1> DEFINE Retiring ==
      \A p \in cache.pending \ cache'.pending :
        \/ cache'.token # cache.token
        \/ cache'.token = cache.token /\ p.sequence <= cache'.lastCompleted
<1>1. ASSUME IInv, [Next]_vars
      PROVE  Retiring
  <2>0. TypeOK
    BY <1>1 DEF IInv
  <2>1. ASSUME NEW l \in Leases, NEW d \in Generations, NEW valid \in BOOLEAN,
               NEW allocated \in BOOLEAN, NEW rs \in SUBSET Resources,
               Acquire(l, d, valid, allocated, rs)
        PROVE  cache'.pending = cache.pending
    BY <2>0, <2>1, CacheShape DEF Acquire, AcquireInto, Caches
  <2>2. ASSUME NEW l \in Leases, Release(l)
        PROVE  cache'.pending = cache.pending
    BY <2>0, <2>2, CacheShape DEF Release, DropLease, ReleaseKeys, Caches
  <2>3. ASSUME NEW l \in Leases, NEW d \in Generations, NEW s \in 0 .. MaxSequence,
               NEW allocated \in BOOLEAN, Submit(l, d, s, allocated)
        PROVE  cache.pending \subseteq cache'.pending
    BY <2>0, <2>3, CacheShape DEF Submit, SubmitInto, DropLease, ReleaseKeys, Caches
  <2>4. ASSUME NEW d \in Generations, NEW s \in 0 .. MaxSequence, Complete(d, s)
        PROVE  Retiring
    BY <2>0, <2>4, CacheShape DEF Complete, CompleteInto, Retired, Caches
  <2>5. ASSUME NEW d \in Generations, Invalidate(d)
        PROVE  cache'.token # cache.token
    BY <2>0, <2>5, CacheShape DEF Invalidate, InvalidateTo, EmptyCache
  <2>6. CASE UNCHANGED vars
    BY <2>6 DEF vars
  <2>7. QED
    BY <1>1, <2>1, <2>2, <2>3, <2>4, <2>5, <2>6 DEF Next
<1>2. QED
  BY <1>1, CacheIsSound, PTL DEF Spec, RetiredOnlyWhenCompleted
=============================================================================
