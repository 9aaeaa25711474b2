------------------------------ MODULE CacheState ------------------------------
(***************************************************************************)
(* The value of one logical-resource cache and the effect of each of its    *)
(* operations (crates/lumenplot-render-api/src/resources.rs).               *)
(*                                                                         *)
(* The module holds no variables: ResourceCache drives these operators     *)
(* with many leases and submissions, EngineSession drives them through     *)
(* the packet owner of the runtime.                                        *)
(***************************************************************************)
EXTENDS Integers, FiniteSets

CONSTANTS
  Resources,              \* logical resource identities a packet may name
  MaxGeneration,          \* largest generation value (u64::MAX in the code)
  MaxOwners,              \* largest owner count of one entry (usize::MAX)
  MaxPendingSubmissions   \* MAX_PENDING_SUBMISSIONS

ASSUME CacheAssumption ==
  /\ MaxGeneration \in Nat
  /\ MaxOwners \in Nat \ {0}
  /\ MaxPendingSubmissions \in Nat \ {0}

Generations == 0 .. MaxGeneration

\* An absent Option<CompletionFence>: it orders below every sequence.
NoFence == -1

\* ResourceKey: the same logical id on two devices is two keys.
Keys == Resources \X Generations

KeysOf(resources, device) == {<<r, device>> : r \in resources}

\* PendingSubmission: a fence and the keys it keeps alive.
Submissions == [sequence : Nat, keys : SUBSET Keys]

\* ResourceLease: the identity of the cache lifetime that granted it (the
\* Rc generation token), its device and the keys it owns.
LeaseRecords == [token : Nat, device : Generations, keys : SUBSET Keys]

\* CacheState.  An entry that is absent from the map has owner count 0.
Caches ==
  [device : Generations, token : Nat, owners : [Keys -> Nat],
   pending : SUBSET Submissions,
   lastSubmitted : Nat \cup {NoFence}, lastCompleted : Nat \cup {NoFence}]

EmptyCache(device, token) ==
  [device |-> device, token |-> token, owners |-> [k \in Keys |-> 0],
   pending |-> {}, lastSubmitted |-> NoFence, lastCompleted |-> NoFence]

-----------------------------------------------------------------------------
(* release_resource: a saturating decrement per released owner. *)
Minus(count, released) == IF count > released THEN count - released ELSE 0

ReleaseKeys(c, keys) ==
  [c EXCEPT !.owners =
     [k \in Keys |-> IF k \in keys THEN Minus(c.owners[k], 1) ELSE c.owners[k]]]

-----------------------------------------------------------------------------
(* acquire_checked *)
AcquireRefusal(c, device, valid, allocated, resources) ==
  IF device # c.device THEN "DeviceGenerationMismatch"
  ELSE IF ~valid THEN "InvalidPacket"
  ELSE IF ~allocated THEN "AllocationFailed"
  ELSE IF \E k \in KeysOf(resources, c.device) : c.owners[k] >= MaxOwners
  THEN "CapacityExceeded"
  ELSE "Ok"

AcquireInto(c, resources) ==
  [c EXCEPT !.owners =
     [k \in Keys |-> IF k \in KeysOf(resources, c.device)
                     THEN c.owners[k] + 1
                     ELSE c.owners[k]]]

LeaseOf(c, resources) ==
  [token |-> c.token, device |-> c.device, keys |-> KeysOf(resources, c.device)]

-----------------------------------------------------------------------------
\* Mutant of IsCurrent: only the device generation identifies the cache.
IsCurrentDevice(c, lease) == lease.device = c.device

(* Drop for ResourceLease: a lease of an earlier cache lifetime releases
   nothing, even when its device generation is current again. *)
IsCurrent(c, lease) == lease.token = c.token /\ lease.device = c.device

DropLease(c, lease) ==
  IF IsCurrent(c, lease) THEN ReleaseKeys(c, lease.keys) ELSE c

-----------------------------------------------------------------------------
(* submit: every refusal drops the lease it was given. *)
SubmitRefusal(c, lease, device, sequence, allocated) ==
  IF ~IsCurrent(c, lease) \/ device # c.device
  THEN "DeviceGenerationMismatch"
  ELSE IF Cardinality(c.pending) >= MaxPendingSubmissions
  THEN "CapacityExceeded"
  ELSE IF sequence <= c.lastSubmitted \/ sequence <= c.lastCompleted
  THEN "InvalidFence"
  ELSE IF ~allocated THEN "AllocationFailed"
  ELSE "Ok"

SubmitInto(c, lease, sequence) ==
  [c EXCEPT !.pending = @ \cup {[sequence |-> sequence, keys |-> lease.keys]},
            !.lastSubmitted = sequence]

-----------------------------------------------------------------------------
(* complete: an old observation is harmless, a fence beyond the submitted
   work is refused -- but only once something has been submitted. *)
CompleteRefusal(c, device, sequence) ==
  IF device # c.device
  THEN "DeviceGenerationMismatch"
  ELSE IF c.lastSubmitted # NoFence /\ sequence > c.lastSubmitted
  THEN "InvalidFence"
  ELSE "Ok"

\* Mutant of Retired: a completion retires everything in flight.
RetiredAtOnce(c, sequence) == {p \in c.pending : sequence >= 0}

Retired(c, sequence) == {p \in c.pending : p.sequence <= sequence}

CompleteInto(c, sequence) ==
  IF c.lastCompleted # NoFence /\ sequence <= c.lastCompleted
  THEN c
  ELSE [c EXCEPT
          !.owners = [k \in Keys |->
             Minus(c.owners[k],
                   Cardinality({p \in Retired(c, sequence) : k \in p.keys}))],
          !.pending = @ \ Retired(c, sequence),
          !.lastCompleted = sequence]

-----------------------------------------------------------------------------
\* Mutant of InvalidateTo: the entries of the old device stay.
InvalidateFences(c, device) == [EmptyCache(device, c.token + 1) EXCEPT !.owners = c.owners]

(* invalidate_device_generation: also called with the current generation. *)
InvalidateTo(c, device) == EmptyCache(device, c.token + 1)
=============================================================================
