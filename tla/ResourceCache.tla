---------------------------- MODULE ResourceCache ----------------------------
(***************************************************************************)
(* One ResourceCache and the leases its callers hold                       *)
(* (crates/lumenplot-render-api/src/resources.rs).                         *)
(*                                                                         *)
(* A packet owner acquires a lease on the resources of a packet, then      *)
(* either drops it or hands it to the cache together with a completion     *)
(* fence; the backend reports completions, possibly late, repeated or out  *)
(* of order; the runtime invalidates the cache when the device is lost.    *)
(* The calls of the callers interleave freely.                             *)
(***************************************************************************)
EXTENDS CacheState

CONSTANTS
  Leases,            \* lease handles the callers can hold at once
  NoLease,           \* a handle that holds no lease
  MaxSequence,       \* largest fence sequence the callers use
  MaxInvalidations   \* bound on invalidations, for model checking

ASSUME ResourceCacheAssumption ==
  /\ NoLease \notin LeaseRecords
  /\ MaxSequence \in Nat
  /\ MaxInvalidations \in Nat
  /\ IsFiniteSet(Leases)

VARIABLES
  cache,   \* the CacheState behind the Rc<RefCell<..>>
  held,    \* held[l] is the lease in handle l, or NoLease
  result   \* what the last call returned

vars == <<cache, held, result>>

Results == {"Ok", "Dropped", "DeviceGenerationMismatch", "InvalidPacket",
            "CapacityExceeded", "InvalidFence", "AllocationFailed"}

\* The counters stay within the limits acquire and submit enforce.
TypeOK ==
  /\ cache \in Caches
  /\ \A k \in Keys : cache.owners[k] <= MaxOwners
  /\ Cardinality(cache.pending) <= MaxPendingSubmissions
  /\ held \in [Leases -> LeaseRecords \cup {NoLease}]
  /\ result \in Results

Init ==
  /\ cache = EmptyCache(0, 0)
  /\ held = [l \in Leases |-> NoLease]
  /\ result = "Ok"

-----------------------------------------------------------------------------
(* acquire / acquire_for_owner on a packet of the given device.  A refused
   acquisition changes nothing: every counter is checked before any moves. *)
Acquire(l, device, valid, allocated, resources) ==
  LET refusal == AcquireRefusal(cache, device, valid, allocated, resources) IN
  /\ held[l] = NoLease
  /\ result' = refusal
  /\ \/ /\ refusal = "Ok"
        /\ cache' = AcquireInto(cache, resources)
        /\ held' = [held EXCEPT ![l] = LeaseOf(cache, resources)]
     \/ /\ refusal # "Ok"
        /\ UNCHANGED <<cache, held>>

(* The caller lets an unsubmitted lease go out of scope. *)
Release(l) ==
  /\ held[l] # NoLease
  /\ cache' = DropLease(cache, held[l])
  /\ held' = [held EXCEPT ![l] = NoLease]
  /\ result' = "Dropped"

(* submit takes the lease by value: accepted or refused, it is gone. *)
Submit(l, device, sequence, allocated) ==
  LET refusal == SubmitRefusal(cache, held[l], device, sequence, allocated) IN
  /\ held[l] # NoLease
  /\ result' = refusal
  /\ held' = [held EXCEPT ![l] = NoLease]
  /\ \/ /\ refusal = "Ok"
        /\ cache' = SubmitInto(cache, held[l], sequence)
     \/ /\ refusal # "Ok"
        /\ cache' = DropLease(cache, held[l])

(* complete / signal_completed: the backend reports any fence, any time. *)
Complete(device, sequence) ==
  LET refusal == CompleteRefusal(cache, device, sequence) IN
  /\ result' = refusal
  /\ cache' = IF refusal = "Ok" THEN CompleteInto(cache, sequence) ELSE cache
  /\ UNCHANGED held

(* invalidate_device_generation / replace_device_generation. *)
Invalidate(device) ==
  /\ cache.token < MaxInvalidations
  /\ cache' = InvalidateTo(cache, device)
  /\ result' = "Ok"
  /\ UNCHANGED held

Next ==
  \/ \E l \in Leases, d \in Generations, valid, allocated \in BOOLEAN,
        rs \in SUBSET Resources : Acquire(l, d, valid, allocated, rs)
  \/ \E l \in Leases : Release(l)
  \/ \E l \in Leases, d \in Generations, s \in 0 .. MaxSequence,
        allocated \in BOOLEAN : Submit(l, d, s, allocated)
  \/ \E d \in Generations, s \in 0 .. MaxSequence : Complete(d, s)
  \/ \E d \in Generations : cache.device <= d /\ Invalidate(d)

Spec == Init /\ [][Next]_vars

-----------------------------------------------------------------------------
CurrentLeases == {l \in Leases : held[l] # NoLease /\ IsCurrent(cache, held[l])}

\* The leases and the submissions that own a key.
LeasesOn(k) == {l \in CurrentLeases : k \in held[l].keys}
InFlight(k) == {p \in cache.pending : k \in p.keys}

(* Every owner count is exactly the number of live leases of this cache     *)
(* lifetime plus the submissions in flight that name the key: no owner is  *)
(* leaked by a refused submit and none is released twice or by a lease of  *)
(* an invalidated lifetime (acquire_checked, submit, complete, Drop).      *)
OwnersCounted ==
  \A k \in Keys : cache.owners[k] = Cardinality(LeasesOn(k)) + Cardinality(InFlight(k))

(* Nothing of an earlier device survives an invalidation: every retained   *)
(* entry and every submission in flight is keyed by the current device     *)
(* (invalidate_device_generation, the device checks of acquire and submit).*)
OnlyCurrentDevice ==
  /\ \A k \in Keys : cache.owners[k] > 0 => k[2] = cache.device
  /\ \A p \in cache.pending : \A k \in p.keys : k[2] = cache.device

(* A submission leaves the cache only by a completion at or above its      *)
(* fence, or with the whole cache lifetime: no call of another owner, and  *)
(* no late or repeated completion, retires resources the backend may still *)
(* be reading (complete, invalidate_device_generation).                    *)
RetiredOnlyWhenCompleted ==
  [][\A p \in cache.pending \ cache'.pending :
       \/ cache'.token # cache.token
       \/ cache'.token = cache.token /\ p.sequence <= cache'.lastCompleted]_vars

-----------------------------------------------------------------------------
(* The inductive invariant behind these properties. *)

\* A lease names keys of the device it was granted on, and no lease comes from a
\* cache lifetime that is still to begin (acquire_checked).
LeasesAreOfTheirDevice ==
  \A l \in Leases : held[l] # NoLease =>
    /\ held[l].token <= cache.token
    /\ \A k \in held[l].keys : k[2] = held[l].device

\* What is in flight was submitted in this lifetime, so that a new fence is
\* above it, and is not completed yet (submit, complete).
InFlightIsSubmitted ==
  /\ IsFiniteSet(cache.pending)
  /\ \A p \in cache.pending :
       p.sequence <= cache.lastSubmitted /\ p.sequence > cache.lastCompleted

IInv ==
  /\ TypeOK
  /\ OwnersCounted
  /\ OnlyCurrentDevice
  /\ LeasesAreOfTheirDevice
  /\ InFlightIsSubmitted
=============================================================================
