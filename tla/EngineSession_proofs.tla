------------------------- MODULE EngineSession_proofs -------------------------
(***************************************************************************)
(* Theorems about EngineSession for every number of surfaces, revisions,   *)
(* frames and generations, and about the window that drives a session: its *)
(* loop and its stub drive it only as it allows, so what is proved of the   *)
(* session holds in a window, whatever the window system does between two  *)
(* steps.                                                                  *)
(***************************************************************************)
EXTENDS WindowHost, FiniteSetTheorems, TLAPS

(* A fresh cache is at rest, and so is one that has been invalidated. *)
LEMMA EmptyCacheIsQuiet ==
  ASSUME NEW device \in Generations, NEW token \in Nat, NEW fence \in Nat
  PROVE  Quiet(EmptyCache(device, token), device, fence)
BY DEF Quiet, EmptyCache, Caches, NoFence

\* An invalidated cache has no owners, no leases and nothing pending.
LEMMA InvalidatedCacheIsQuiet ==
  ASSUME NEW c \in Caches, NEW device \in Generations, NEW fence \in Nat
  PROVE  Quiet(InvalidateTo(c, device), device, fence)
BY EmptyCacheIsQuiet DEF InvalidateTo, Caches

(* Taking the packet's lease on a quiet cache counts one owner per key. *)
LEMMA LeasedShape ==
  ASSUME Quiet(cache, devGen, nextFence), devGen \in Generations
  PROVE  /\ Leased \in Caches
         /\ Leased.device = devGen /\ Leased.token = cache.token
         /\ Leased.pending = {}
         /\ Leased.lastSubmitted = cache.lastSubmitted
         /\ Leased.lastCompleted = cache.lastCompleted
         /\ Lease = [token |-> cache.token, device |-> devGen,
                     keys |-> KeysOf(Resources, devGen)]
         /\ KeysOf(Resources, devGen) \subseteq Keys
         /\ \A k \in Keys :
              Leased.owners[k] = IF k \in KeysOf(Resources, devGen) THEN 1 ELSE 0
<1>1. KeysOf(Resources, devGen) \subseteq Keys
  BY DEF KeysOf, Keys
<1>2. QED
  BY <1>1 DEF Leased, Lease, LeaseOf, AcquireInto, Quiet, Caches

\* A packet prepared for the cache's own device is never refused as stale.
LEMMA PrepareNeverStale ==
  ASSUME CacheAssumption, Quiet(cache, devGen, nextFence), devGen \in Generations
  PROVE  AcquireRefusal(cache, devGen, TRUE, TRUE, Resources) = "Ok"
<1>1. KeysOf(Resources, devGen) \subseteq Keys
  BY DEF KeysOf, Keys
<1>2. QED
  BY <1>1 DEF AcquireRefusal, Quiet, CacheAssumption

(* A dropped lease leaves the cache as quiet as it was. *)
LEMMA LeaseDroppedIsQuiet ==
  ASSUME Quiet(cache, devGen, nextFence), devGen \in Generations
  PROVE  Quiet(LeaseDropped, devGen, nextFence)
<1>1. LeaseDropped = ReleaseKeys(Leased, Lease.keys)
  BY LeasedShape DEF LeaseDropped, DropLease, IsCurrent
<1>2. \A k \in Keys : LeaseDropped.owners[k] = 0
  BY <1>1, LeasedShape DEF ReleaseKeys, Minus, Caches
<1>3. LeaseDropped \in Caches
  BY <1>1, <1>2, LeasedShape DEF ReleaseKeys, Minus, Caches
<1>4. QED
  BY <1>1, <1>2, <1>3, LeasedShape DEF Quiet, ReleaseKeys, Caches

(* Recording a submission replaces two fields of the cache. *)
LEMMA SubmitIntoShape ==
  ASSUME NEW c \in Caches, NEW lease, lease.keys \subseteq Keys, NEW sequence \in Nat
  PROVE  LET s == SubmitInto(c, lease, sequence) IN
         /\ s \in Caches
         /\ s.device = c.device /\ s.token = c.token /\ s.owners = c.owners
         /\ s.pending = c.pending \cup {[sequence |-> sequence, keys |-> lease.keys]}
         /\ s.lastSubmitted = sequence /\ s.lastCompleted = c.lastCompleted
<1> DEFINE more == c.pending \cup {[sequence |-> sequence, keys |-> lease.keys]}
<1>1. more \in SUBSET Submissions
  BY DEF Caches, Submissions
<1>2. SubmitInto(c, lease, sequence) =
        [c EXCEPT !.pending = more, !.lastSubmitted = sequence]
  BY DEF SubmitInto
<1> HIDE DEF more
<1>3. [c EXCEPT !.pending = more, !.lastSubmitted = sequence] \in Caches
  BY <1>1 DEF Caches
<1>4. QED
  BY <1>2, <1>3 DEF Caches, more

(* A completion above the last one releases the owners of what it retires. *)
LEMMA CompleteIntoShape ==
  ASSUME NEW c \in Caches, NEW sequence \in Nat, c.lastCompleted < sequence,
         NEW owners \in [Keys -> Nat],
         \A k \in Keys :
           owners[k] = Minus(c.owners[k],
                             Cardinality({p \in Retired(c, sequence) : k \in p.keys}))
  PROVE  LET d == CompleteInto(c, sequence) IN
         /\ d \in Caches
         /\ d.device = c.device /\ d.token = c.token /\ d.owners = owners
         /\ d.pending = c.pending \ Retired(c, sequence)
         /\ d.lastSubmitted = c.lastSubmitted /\ d.lastCompleted = sequence
<1>1. ~(c.lastCompleted # NoFence /\ sequence <= c.lastCompleted)
  BY DEF Caches, NoFence
<1> DEFINE rest == c.pending \ Retired(c, sequence)
<1>2. CompleteInto(c, sequence) =
        [c EXCEPT !.owners = owners, !.pending = rest, !.lastCompleted = sequence]
  BY <1>1 DEF CompleteInto
<1>3. rest \in SUBSET Submissions
  BY DEF Caches
<1> HIDE DEF rest
<1>4. [c EXCEPT !.owners = owners, !.pending = rest, !.lastCompleted = sequence] \in Caches
  BY <1>3 DEF Caches
<1>5. QED
  BY <1>2, <1>4 DEF Caches, rest

(* Committing the lease retires it at once: the cache is quiet again, now   *)
(* with respect to the fence after the one just completed.                 *)
LEMMA CommittedIsQuiet ==
  ASSUME Quiet(cache, devGen, nextFence), devGen \in Generations,
         nextFence \in Nat \ {0}
  PROVE  Quiet(Committed, devGen, nextFence + 1)
<1> DEFINE submission == [sequence |-> nextFence, keys |-> KeysOf(Resources, devGen)]
           submitted == SubmitInto(Leased, Lease, nextFence)
           none == [k \in Keys |-> 0]
<1>1. Lease.keys = KeysOf(Resources, devGen) /\ Lease.keys \subseteq Keys
  BY LeasedShape
<1>2. /\ submitted \in Caches
      /\ submitted.pending = {submission} /\ submitted.owners = Leased.owners
      /\ submitted.device = devGen /\ submitted.token = cache.token
      /\ submitted.lastSubmitted = nextFence
      /\ submitted.lastCompleted = cache.lastCompleted
  BY <1>1, LeasedShape, SubmitIntoShape
<1>3. Committed = CompleteInto(submitted, nextFence)
  BY DEF Committed
<1> HIDE DEF submitted
<1>4. submitted.lastCompleted < nextFence
  BY <1>2 DEF Quiet
<1>5. Retired(submitted, nextFence) = {submission}
  BY <1>2 DEF Retired
<1>6. ASSUME NEW k \in Keys
      PROVE  Minus(submitted.owners[k],
                   Cardinality({p \in Retired(submitted, nextFence) : k \in p.keys})) = 0
  <2>1. CASE k \in KeysOf(Resources, devGen)
    <3>1. {p \in {submission} : k \in p.keys} = {submission}
      BY <2>1
    <3>2. Cardinality({submission}) = 1
      BY FS_Singleton
    <3>3. submitted.owners[k] = 1
      BY <1>2, <2>1, LeasedShape
    <3>4. QED
      BY <1>5, <3>1, <3>2, <3>3 DEF Minus
  <2>2. CASE k \notin KeysOf(Resources, devGen)
    <3>1. {p \in {submission} : k \in p.keys} = {}
      <4>1. submission.keys = KeysOf(Resources, devGen)
        OBVIOUS
      <4> HIDE DEF submission
      <4>2. QED
        BY <2>2, <4>1
    <3>2. Cardinality({}) = 0
      BY FS_EmptySet
    <3>3. submitted.owners[k] = 0
      BY <1>2, <2>2, LeasedShape
    <3>4. {p \in Retired(submitted, nextFence) : k \in p.keys} = {}
      BY <1>5, <3>1
    <3>5. Minus(0, 0) = 0
      BY DEF Minus
    <3>6. QED
      BY <3>2, <3>3, <3>4, <3>5
  <2>3. QED
    BY <2>1, <2>2
<1>7. \A k \in Keys :
        none[k] = Minus(submitted.owners[k],
                        Cardinality({p \in Retired(submitted, nextFence) : k \in p.keys}))
  BY <1>6
<1>8. /\ Committed \in Caches
      /\ Committed.device = devGen /\ Committed.owners = none
      /\ Committed.pending = {}
      /\ Committed.lastSubmitted = nextFence /\ Committed.lastCompleted = nextFence
  <2>1. none \in [Keys -> Nat]
    OBVIOUS
  <2>2. submitted.pending \ Retired(submitted, nextFence) = {}
    BY <1>2, <1>5
  <2> HIDE DEF none, submission
  <2> DEFINE d == CompleteInto(submitted, nextFence)
  <2>3. /\ d \in Caches
        /\ d.device = submitted.device /\ d.owners = none
        /\ d.pending = submitted.pending \ Retired(submitted, nextFence)
        /\ d.lastSubmitted = submitted.lastSubmitted /\ d.lastCompleted = nextFence
    BY <1>2, <1>4, <1>7, <2>1, CompleteIntoShape
  <2> HIDE DEF d
  <2>4. Committed = d
    BY <1>3 DEF d
  <2>5. QED
    BY <1>2, <2>2, <2>3, <2>4
<1>9. QED
  BY <1>8 DEF Quiet

(* The commit of a rendered packet is never refused by the fence rules.    *)
LEMMA CommitErrors ==
  ASSUME CacheAssumption, Quiet(cache, devGen, nextFence), devGen \in Generations,
         nextFence \in Nat \ {0}
  PROVE  CommitError(TRUE) = "Ok" /\ CommitError(FALSE) = "OutOfMemory"
<1>1. Cardinality(Leased.pending) = 0
  BY LeasedShape, FS_EmptySet
<1>2. ~(Cardinality(Leased.pending) >= MaxPendingSubmissions)
  BY <1>1 DEF CacheAssumption
<1>3. IsCurrent(Leased, Lease)
  BY LeasedShape DEF IsCurrent
<1>4. ~(nextFence <= Leased.lastSubmitted \/ nextFence <= Leased.lastCompleted)
  BY LeasedShape DEF Quiet, Caches, NoFence
<1>5. /\ SubmitRefusal(Leased, Lease, devGen, nextFence, TRUE) = "Ok"
      /\ SubmitRefusal(Leased, Lease, devGen, nextFence, FALSE) = "AllocationFailed"
  BY <1>2, <1>3, <1>4, LeasedShape DEF SubmitRefusal
<1>6. CompleteRefusal(SubmitInto(Leased, Lease, nextFence), devGen, nextFence) = "Ok"
  BY LeasedShape DEF CompleteRefusal, SubmitInto, Caches
<1>7. QED
  BY <1>5, <1>6 DEF CommitError, ErrorOf

-----------------------------------------------------------------------------
(***************************************************************************)
(* IInv in two halves.  Core relates the session to its device, queue,     *)
(* cache and surfaces; Rest is the types of what Core does not constrain   *)
(* and the order of the watermarks.  Each operation is shown to preserve   *)
(* the one and the other.                                                  *)
(***************************************************************************)
Core ==
  /\ state \in SessionStates
  /\ renderer \in Generations \cup {NoRenderer}
  /\ surf \in [SurfaceIds -> SurfaceStates \cup {"Absent"}]
  /\ workGen \in Generations
  /\ devGen \in Generations
  /\ pending \subseteq Tickets
  /\ QueueHoldsOnlyNewest
  /\ TokensBehind
  /\ TicketsKept
  /\ Quiet(cache, devGen, nextFence)
  /\ RendererFollowsDevice
  /\ SurfacesFallWithDevice
  /\ ActiveIsConfigured

Rest ==
  /\ attached \in BOOLEAN
  /\ size \in [SurfaceIds -> Sizes]
  /\ configured \in [SurfaceIds -> Sizes]
  /\ latest \in OptionalRevisions
  /\ highest \in OptionalRevisions
  /\ retained \in [frame : Frames \cup {NoFrame}, rev : OptionalRevisions]
  /\ nextFence \in 1 .. MaxFence
  /\ tokens \subseteq SubmissionTokens
  /\ presented \in [frame : Frames \cup {NoFrame}, rev : OptionalRevisions,
                    work : Generations, dev : Generations]
  /\ result \in Results
  /\ WatermarksOrdered

(* The two halves are the invariant, in a state and in its successor. *)
LEMMA Halves ==
  /\ IInv <=> Core /\ Rest
  /\ IInv' <=> Core' /\ Rest'
BY DEF IInv, Core, Rest, TypeOK, Quiet

-----------------------------------------------------------------------------
(* A new work generation empties the queue and makes every token stale, so  *)
(* the queue and the tokens agree whatever else happens.                   *)
LEMMA WorkRestarts ==
  ASSUME CacheAssumption, Core, Rest, workGen < MaxGeneration, CommitWorkGeneration,
         UNCHANGED <<tokens, highest>>
  PROVE  /\ workGen' \in Generations /\ pending' = {}
         /\ QueueHoldsOnlyNewest' /\ TokensBehind' /\ TicketsKept'
<1>1. pending' = {}
  BY DEF CommitWorkGeneration, Core, QueueHoldsOnlyNewest, Generations, CacheAssumption
<1>2. workGen' \in Generations /\ workGen' = workGen + 1
  BY DEF CommitWorkGeneration, Core, Generations, CacheAssumption
<1>3. \A t \in tokens : t.work \in Int /\ t.work <= workGen /\ t.rev <= highest
  BY DEF Core, Rest, TokensBehind, SubmissionTokens, Generations
<1>4. \A t \in tokens' : t.work < workGen' /\ t.rev <= highest'
  BY <1>2, <1>3 DEF Core, Generations
<1>5. \A t \in tokens' : t.work <= workGen' /\ t.work # workGen'
  <2>1. TAKE t \in tokens'
  <2>2. t.work \in Int /\ t.work < workGen' /\ workGen' \in Int
    BY <1>2, <1>3, <1>4 DEF Generations
  <2>3. QED
    BY <2>2
<1>6. QED
  BY <1>1, <1>2, <1>4, <1>5 DEF QueueHoldsOnlyNewest, TokensBehind, TicketsKept

(* Once the session is over an empty queue is all there is to say. *)
LEMMA QueueCleared ==
  ASSUME Core, Rest, pending' = {}, state' \in {"OutOfMemory", "Closed"},
         workGen' \in {workGen, workGen + 1},
         UNCHANGED <<tokens, highest, devGen>>
  PROVE  QueueHoldsOnlyNewest' /\ TokensBehind' /\ TicketsKept'
<1>1. workGen \in Int /\ (workGen' = workGen \/ workGen' = workGen + 1)
  BY DEF Core, Generations
<1>2. \A t \in tokens : /\ t.work \in Int /\ t.work <= workGen /\ t.rev <= highest
                        /\ t.work = workGen => t.dev = devGen
  BY DEF Core, Rest, TokensBehind, SubmissionTokens, Generations
<1>3. \A t \in tokens : /\ t.work <= workGen'
                        /\ t.work = workGen' => t.dev = devGen
  BY <1>1, <1>2
<1>4. QED
  BY <1>2, <1>3 DEF QueueHoldsOnlyNewest, TokensBehind, TicketsKept

(* An operation that leaves queue, tokens and generations alone, and does   *)
(* not bring a finished session back.                                      *)
LEMMA QueueKept ==
  ASSUME Core, UNCHANGED <<workGen, devGen, pending, tokens, highest>>,
         state \in {"OutOfMemory", "Closed"} => state' \in {"OutOfMemory", "Closed"}
  PROVE  QueueHoldsOnlyNewest' /\ TokensBehind' /\ TicketsKept'
BY DEF Core, QueueHoldsOnlyNewest, TokensBehind, TicketsKept, TicketOf

\* A call that only answers keeps the invariant.
LEMMA AnswerKeeps ==
  ASSUME Core, Rest, NEW r \in Results, Answer(r)
  PROVE  Core' /\ Rest'
<1>1. Core'
  BY QueueKept DEF Answer, Core, Quiet, RendererFollowsDevice, Live,
     SurfacesFallWithDevice, ActiveIsConfigured
<1>2. Rest'
  BY DEF Answer, Rest, WatermarksOrdered
<1>3. QED
  BY <1>1, <1>2

-----------------------------------------------------------------------------
(* The lifecycle. *)
LEMMA StateErrorIsResult ==
  ASSUME Core PROVE ~Live => StateError \in Results
BY DEF Core, SessionStates, Live, StateError, Results, Errors

\* Entering or resuming the native loop keeps the invariant.
LEMMA EnterLoopKeeps ==
  ASSUME Core, Rest, EnterLoop
  PROVE  Core' /\ Rest'
<1>1. CASE ~Live /\ Answer(StateError)
  BY <1>1, AnswerKeeps, StateErrorIsResult
<1>2. CASE /\ Live /\ state' = "Running" /\ result' = "LoopEntered"
           /\ UNCHANGED <<attached, renderer, surf, size, configured, workGen,
                          devGen, latest, highest, pending, retained, nextFence,
                          cache, tokens, presented>>
  <2>1. Core'
    BY <1>2, QueueKept DEF Core, Quiet, RendererFollowsDevice, Live, SessionStates,
       SurfacesFallWithDevice, ActiveIsConfigured
  <2>2. Rest'
    BY <1>2 DEF Rest, WatermarksOrdered, Results
  <2>3. QED
    BY <2>1, <2>2
<1>3. CASE Answer("HostLoopMisuse")
  BY <1>3, AnswerKeeps DEF Results, Errors
<1>4. QED
  BY <1>1, <1>2, <1>3 DEF EnterLoop

(* Losing the device: what the session is left with, for any cache value    *)
(* the losing operation hands over.                                        *)
LEMMA LoseDeviceKeepsCore ==
  ASSUME CacheAssumption, Core, Rest, CanLoseDevice, NEW c \in Caches, LoseDevice(c),
         UNCHANGED <<tokens, highest>>, nextFence' = nextFence
  PROVE  Core'
<1>1. devGen' = devGen + 1 /\ devGen' \in Generations
  BY DEF LoseDevice, CanLoseDevice, Core, Generations, CacheAssumption
<1>2. Quiet(cache', devGen', nextFence')
  BY <1>1, InvalidatedCacheIsQuiet DEF LoseDevice, Rest
<1>3. /\ workGen' \in Generations /\ pending' = {}
      /\ QueueHoldsOnlyNewest' /\ TokensBehind' /\ TicketsKept'
  BY WorkRestarts DEF LoseDevice, CanLoseDevice
<1>4. surf' \in [SurfaceIds -> {"Absent", "Lost"}]
  BY DEF LoseDevice, AllSurfaces
<1>5. /\ surf' \in [SurfaceIds -> SurfaceStates \cup {"Absent"}]
      /\ SurfacesFallWithDevice' /\ ActiveIsConfigured'
  BY <1>4 DEF LoseDevice, SurfaceStates, SurfacesFallWithDevice, ActiveIsConfigured
<1>6. RendererFollowsDevice' /\ state' \in SessionStates
      /\ renderer' \in Generations \cup {NoRenderer}
  BY DEF LoseDevice, RendererFollowsDevice, Live, SessionStates
<1>7. QED
  BY <1>1, <1>2, <1>3, <1>5, <1>6 DEF Core, Quiet

\* Ending for want of memory re-establishes the core of the invariant.
LEMMA ExhaustMemoryKeepsCore ==
  ASSUME Core, Rest, NEW c \in Caches, ExhaustMemory(c),
         workGen' \in {workGen, workGen + 1}, workGen' \in Generations,
         UNCHANGED <<tokens, highest, devGen>>, nextFence' = nextFence
  PROVE  Core'
<1>1. Quiet(cache', devGen', nextFence')
  BY InvalidatedCacheIsQuiet DEF ExhaustMemory, Rest, Core
<1>2. QueueHoldsOnlyNewest' /\ TokensBehind' /\ TicketsKept'
  BY QueueCleared DEF ExhaustMemory
<1>3. surf' \in [SurfaceIds -> {"Absent", "Lost"}]
  BY DEF ExhaustMemory, AllSurfaces
<1>4. /\ surf' \in [SurfaceIds -> SurfaceStates \cup {"Absent"}]
      /\ SurfacesFallWithDevice' /\ ActiveIsConfigured'
  BY <1>3 DEF ExhaustMemory, SurfaceStates, SurfacesFallWithDevice, ActiveIsConfigured
<1>5. /\ RendererFollowsDevice' /\ state' \in SessionStates
      /\ renderer' \in Generations \cup {NoRenderer} /\ pending' \subseteq Tickets
      /\ devGen' \in Generations
  BY DEF ExhaustMemory, RendererFollowsDevice, Live, SessionStates, Core
<1>6. QED
  BY <1>1, <1>2, <1>4, <1>5 DEF Core, Quiet

\* A reported device loss keeps the invariant, exhausted counters included.
LEMMA HandleDeviceLossKeeps ==
  ASSUME CacheAssumption, Core, Rest, HandleDeviceLoss
  PROVE  Core' /\ Rest'
<1>1. ASSUME NEW r \in Results, Answer(r) PROVE Core' /\ Rest'
  BY <1>1, AnswerKeeps
<1>2. CASE state \in {"Closed", "OutOfMemory"} /\ Answer(StateError)
  BY <1>1, <1>2, StateErrorIsResult DEF Live
<1>3. CASE Answer("AlreadyDeviceLost") \/ Answer("Internal")
  BY <1>1, <1>3 DEF Results, Errors
<1>4. CASE /\ Live /\ CanLoseDevice /\ LoseDevice(cache)
           /\ result' = "DeviceLossRecorded"
           /\ UNCHANGED <<attached, size, configured, latest, highest, retained,
                          nextFence, tokens, presented>>
  <2>1. Core'
    BY <1>4, LoseDeviceKeepsCore DEF Core, Quiet
  <2>2. Rest'
    BY <1>4 DEF Rest, WatermarksOrdered, Results
  <2>3. QED
    BY <2>1, <2>2
<1>5. QED
  BY <1>2, <1>3, <1>4 DEF HandleDeviceLoss

\* A reported memory exhaustion keeps the invariant.
LEMMA HandleOutOfMemoryKeeps ==
  ASSUME Core, Rest, HandleOutOfMemory
  PROVE  Core' /\ Rest'
<1>1. CASE state = "Closed" /\ Answer(StateError)
  BY <1>1, AnswerKeeps, StateErrorIsResult DEF Live
<1>2. CASE Answer("AlreadyOutOfMemory")
  BY <1>2, AnswerKeeps DEF Results
<1>3. CASE /\ ExhaustMemory(cache) /\ result' = "TerminalOutOfMemory"
           /\ UNCHANGED <<attached, size, configured, workGen, devGen, latest,
                          highest, retained, nextFence, tokens, presented>>
  <2>1. Core'
    BY <1>3, ExhaustMemoryKeepsCore DEF Core, Quiet
  <2>2. Rest'
    BY <1>3 DEF Rest, WatermarksOrdered, Results
  <2>3. QED
    BY <2>1, <2>2
<1>4. QED
  BY <1>1, <1>2, <1>3 DEF HandleOutOfMemory

\* Closing the session keeps the invariant.
LEMMA CloseKeeps ==
  ASSUME Core, Rest, Close
  PROVE  Core' /\ Rest'
<1>1. CASE Answer("AlreadyClosed")
  BY <1>1, AnswerKeeps DEF Results
<1>2. CASE /\ state' = "Closed" /\ pending' = {} /\ renderer' = NoRenderer
           /\ surf' = AllSurfaces("Absent") /\ result' = "CloseRequested"
           /\ UNCHANGED <<attached, size, configured, workGen, devGen, latest,
                          highest, retained, nextFence, cache, tokens, presented>>
  <2>1. QueueHoldsOnlyNewest' /\ TokensBehind' /\ TicketsKept'
    BY <1>2, QueueCleared
  <2>2. \A id \in SurfaceIds : surf'[id] = "Absent"
    BY <1>2 DEF AllSurfaces
  <2>3. surf' \in [SurfaceIds -> SurfaceStates \cup {"Absent"}]
    BY <1>2 DEF AllSurfaces
  <2>4. Core'
    BY <1>2, <2>1, <2>2, <2>3 DEF Core, Quiet, RendererFollowsDevice, Live,
       SessionStates, SurfacesFallWithDevice, ActiveIsConfigured
  <2>5. Rest'
    BY <1>2 DEF Rest, WatermarksOrdered, Results
  <2>6. QED
    BY <2>4, <2>5
<1>3. QED
  BY <1>1, <1>2 DEF Close

-----------------------------------------------------------------------------
(* The surfaces. *)
LEMMA CreateSurfaceKeeps ==
  ASSUME Core, Rest, NEW id \in SurfaceIds, NEW s \in Sizes \cup {BadSize},
         CreateSurface(id, s)
  PROVE  Core' /\ Rest'
<1>1. CASE ~Live /\ Answer(StateError)
  BY <1>1, AnswerKeeps, StateErrorIsResult
<1>2. CASE Answer("InvalidInput") \/ Answer("ResourceInvalid")
  BY <1>2, AnswerKeeps DEF Results, Errors
<1>3. CASE /\ Live /\ s # BadSize
           /\ surf' = [surf EXCEPT ![id] = "Active"]
           /\ size' = [size EXCEPT ![id] = s]
           /\ configured' = [configured EXCEPT ![id] = s]
           /\ result' = "Created"
           /\ UNCHANGED <<state, attached, renderer, workGen, devGen, latest,
                          highest, pending, retained, nextFence, cache, tokens,
                          presented>>
  <2>1. QueueHoldsOnlyNewest' /\ TokensBehind' /\ TicketsKept'
    BY <1>3, QueueKept
  <2>2. /\ surf' \in [SurfaceIds -> SurfaceStates \cup {"Absent"}]
        /\ size' \in [SurfaceIds -> Sizes] /\ configured' \in [SurfaceIds -> Sizes]
    BY <1>3 DEF Core, Rest, SurfaceStates
  <2>3. ActiveIsConfigured'
    BY <1>3 DEF ActiveIsConfigured, Core, Rest
  <2>4. Core'
    BY <1>3, <2>1, <2>2, <2>3 DEF Core, Quiet, RendererFollowsDevice, Live,
       SurfacesFallWithDevice
  <2>5. Rest'
    BY <1>3, <2>2 DEF Rest, WatermarksOrdered, Results
  <2>6. QED
    BY <2>4, <2>5
<1>4. QED
  BY <1>1, <1>2, <1>3 DEF CreateSurface

\* A resize keeps the invariant: the tickets it cancels take their tokens along.
LEMMA ResizeKeeps ==
  ASSUME CacheAssumption, Core, Rest, NEW id \in SurfaceIds,
         NEW s \in Sizes \cup {BadSize}, Resize(id, s)
  PROVE  Core' /\ Rest'
<1>1. Refusal(id) \in Results
  BY StateErrorIsResult DEF Refusal, Results, Errors
<1>2. CASE Answer("InvalidInput") \/ Answer("Internal") \/ Answer(Refusal(id))
  BY <1>1, <1>2, AnswerKeeps DEF Results, Errors
<1>3. CASE /\ Live /\ s # BadSize /\ Exists(id)
           /\ workGen < MaxGeneration
           /\ CommitWorkGeneration
           /\ size' = [size EXCEPT ![id] = s]
           /\ surf' = IF surf[id] \in {"Suspended", "Lost"}
                      THEN surf
                      ELSE [surf EXCEPT ![id] = "ReconfigurePending"]
           /\ result' = "Resized"
           /\ UNCHANGED <<state, attached, renderer, configured, devGen, latest,
                          highest, retained, nextFence, cache, tokens, presented>>
  <2>1. /\ workGen' \in Generations /\ pending' = {}
        /\ QueueHoldsOnlyNewest' /\ TokensBehind' /\ TicketsKept'
    BY <1>3, WorkRestarts
  <2>2. /\ surf' \in [SurfaceIds -> SurfaceStates \cup {"Absent"}]
        /\ size' \in [SurfaceIds -> Sizes]
    BY <1>3 DEF Core, Rest, SurfaceStates
  <2>3. ActiveIsConfigured'
    BY <1>3 DEF ActiveIsConfigured, Core, Rest
  <2>4. Core'
    BY <1>3, <2>1, <2>2, <2>3 DEF Core, Quiet, RendererFollowsDevice, Live,
       SurfacesFallWithDevice
  <2>5. Rest'
    BY <1>3, <2>2 DEF Rest, WatermarksOrdered, Results
  <2>6. QED
    BY <2>4, <2>5
<1>4. QED
  BY <1>2, <1>3 DEF Resize

\* A change of one surface's state keeps the invariant.
LEMMA MoveSurfaceKeeps ==
  ASSUME CacheAssumption, Core, Rest, Live, NEW id \in SurfaceIds,
         NEW to \in SurfaceStates \ {"Active"}, NEW outcome \in Results,
         MoveSurface(id, to, outcome)
  PROVE  Core' /\ Rest'
<1>1. CASE Answer("Internal")
  BY <1>1, AnswerKeeps DEF Results, Errors
<1>2. CASE /\ workGen < MaxGeneration
           /\ CommitWorkGeneration
           /\ surf' = [surf EXCEPT ![id] = to]
           /\ result' = outcome
           /\ UNCHANGED <<state, attached, renderer, size, configured, devGen,
                          latest, highest, retained, nextFence, cache, tokens,
                          presented>>
  <2>1. /\ workGen' \in Generations /\ pending' = {}
        /\ QueueHoldsOnlyNewest' /\ TokensBehind' /\ TicketsKept'
    BY <1>2, WorkRestarts
  <2>2. /\ surf' \in [SurfaceIds -> SurfaceStates \cup {"Absent"}]
        /\ ActiveIsConfigured'
    BY <1>2 DEF Core, Rest, ActiveIsConfigured
  <2>3. Core'
    BY <1>2, <2>1, <2>2 DEF Core, Quiet, RendererFollowsDevice, Live,
       SurfacesFallWithDevice
  <2>4. Rest'
    BY <1>2 DEF Rest, WatermarksOrdered
  <2>5. QED
    BY <2>3, <2>4
<1>3. QED
  BY <1>1, <1>2 DEF MoveSurface

\* Suspending, resuming, losing and recreating surfaces keep the invariant.
LEMMA SurfaceMovesKeep ==
  ASSUME CacheAssumption, Core, Rest, NEW id \in SurfaceIds,
         Suspend(id) \/ Resume(id) \/ HandleSurfaceLoss(id) \/ RecreateSurface(id)
  PROVE  Core' /\ Rest'
<1>1. Refusal(id) \in Results
  BY StateErrorIsResult DEF Refusal, Results, Errors
<1>2. CASE \E r \in Results : Answer(r)
  BY <1>2, AnswerKeeps
<1>3. CASE \E to \in SurfaceStates \ {"Active"}, outcome \in Results :
             Live /\ MoveSurface(id, to, outcome)
  BY <1>3, MoveSurfaceKeeps
<1>4. {"AlreadySuspended", "ResourceInvalid", "AlreadyActive", "AlreadyLost",
       "InvalidState", "Suspended", "Resumed", "SurfaceLost", "SurfaceRecreated"}
        \subseteq Results
  BY DEF Results, Errors
<1>5. {"Suspended", "ReconfigurePending", "Lost"} \subseteq SurfaceStates \ {"Active"}
  BY DEF SurfaceStates
<1>6. CASE Suspend(id)
  BY <1>1, <1>2, <1>3, <1>4, <1>5, <1>6 DEF Suspend, RefuseSurface
<1>7. CASE Resume(id)
  BY <1>1, <1>2, <1>3, <1>4, <1>5, <1>7 DEF Resume, RefuseSurface
<1>8. CASE HandleSurfaceLoss(id)
  BY <1>1, <1>2, <1>3, <1>4, <1>5, <1>8 DEF HandleSurfaceLoss, RefuseSurface
<1>9. CASE RecreateSurface(id)
  BY <1>1, <1>2, <1>3, <1>4, <1>5, <1>9 DEF RecreateSurface, RefuseSurface
<1>10. QED
  BY <1>6, <1>7, <1>8, <1>9

-----------------------------------------------------------------------------
(* Submissions. *)

(* The queue has room for every ticket begin_submission wants to add, and   *)
(* afterwards it holds the newest ticket alone.                            *)
LEMMA NewestTicket ==
  ASSUME SessionAssumption, Core, Rest, NEW rev \in Revisions,
         NEW kept, kept = IF rev > highest THEN {t \in pending : t.rev >= rev} ELSE pending
  PROVE  LET ticket == [rev |-> rev, work |-> workGen] IN
         /\ rev \in Nat /\ highest \in Int
         /\ rev > highest => kept = {}
         /\ rev <= highest => kept = pending
         /\ rev = highest => kept \subseteq {ticket}
         /\ ~(rev >= highest /\ ticket \notin kept /\ Cardinality(kept) >= MaxPendingWork)
<1> DEFINE ticket == [rev |-> rev, work |-> workGen]
<1>1. rev \in Nat /\ highest \in Int
  BY DEF SessionAssumption, Rest, OptionalRevisions, NoRevision
<1>2. \A t \in pending : t.rev = highest /\ t = [rev |-> highest, work |-> workGen]
  BY DEF Core, QueueHoldsOnlyNewest
<1>3. rev > highest => kept = {}
  BY <1>1, <1>2
<1>4. rev <= highest => kept = pending
  BY <1>1
<1>5. rev = highest => kept \subseteq {ticket}
  BY <1>1, <1>2, <1>4
<1>6. Cardinality({}) = 0 /\ ~(0 >= MaxPendingWork)
  BY FS_EmptySet DEF SessionAssumption
<1>7. ASSUME rev >= highest, ticket \notin kept PROVE kept = {}
  BY <1>1, <1>3, <1>5, <1>7
<1>8. QED
  BY <1>1, <1>3, <1>4, <1>5, <1>6, <1>7

\* A request for a frame keeps the invariant: its ticket replaces older ones.
LEMMA BeginSubmissionKeeps ==
  ASSUME SessionAssumption, CacheAssumption, Core, Rest, NEW rev \in Revisions,
         BeginSubmission(rev)
  PROVE  Core' /\ Rest'
<1> DEFINE ticket == [rev |-> rev, work |-> workGen]
           token == [rev |-> rev, work |-> workGen, dev |-> devGen]
           kept == IF rev > highest THEN {t \in pending : t.rev >= rev} ELSE pending
<1>1. CASE state # "Running" /\ Answer(StateError)
  <2>1. StateError \in Results
    BY <1>1 DEF StateError, Core, SessionStates, Results, Errors
  <2>2. QED
    BY <1>1, <2>1, AnswerKeeps
<1>2. CASE /\ state = "Running"
           /\ pending' = IF rev < highest THEN kept ELSE kept \cup {ticket}
           /\ highest' = IF rev > highest THEN rev ELSE highest
           /\ tokens' = tokens \cup {token}
           /\ result' = "TokenIssued"
           /\ UNCHANGED <<state, attached, renderer, surf, size, configured,
                          workGen, devGen, latest, retained, nextFence, cache,
                          presented>>
  <2>1. /\ rev \in Nat /\ highest \in Int
        /\ rev > highest => kept = {}
        /\ rev <= highest => kept = pending
        /\ rev = highest => kept \subseteq {ticket}
    BY NewestTicket
  <2> HIDE DEF kept
  <2>2. /\ highest' \in Int /\ highest <= highest' /\ rev <= highest'
        /\ highest' \in OptionalRevisions
    BY <1>2, <2>1 DEF Rest, OptionalRevisions
  <2> DEFINE QueueAgrees == /\ pending' \subseteq Tickets /\ QueueHoldsOnlyNewest'
                            /\ TokensBehind' /\ TicketsKept'
  <2>3. ASSUME rev < highest PROVE QueueAgrees
    <3>1. pending' = pending /\ highest' = highest
      BY <1>2, <2>1, <2>3
    <3>2. QueueHoldsOnlyNewest'
      BY <1>2, <3>1 DEF Core, QueueHoldsOnlyNewest
    <3>3. TokensBehind'
      BY <1>2, <2>1, <2>3, <3>1 DEF Core, TokensBehind, Generations
    <3>4. TicketsKept'
      BY <1>2, <2>1, <2>3, <3>1 DEF Core, TicketsKept, TicketOf
    <3>5. QED
      BY <3>1, <3>2, <3>3, <3>4 DEF Core
  <2>4. ASSUME rev >= highest PROVE QueueAgrees
    <3>1. pending' = {ticket} /\ highest' = rev
      BY <1>2, <2>1, <2>4
    <3>2. QueueHoldsOnlyNewest' /\ pending' \subseteq Tickets
      BY <1>2, <3>1 DEF QueueHoldsOnlyNewest, Tickets, Core
    <3>3. \A t \in tokens : t.rev \in Int /\ t.rev <= highest
      <4>1. \A t \in tokens : t.rev \in Revisions
        BY DEF Rest, SubmissionTokens
      <4>2. Revisions \subseteq Int
        BY DEF SessionAssumption
      <4>3. \A t \in tokens : t.rev <= highest
        BY DEF Core, TokensBehind
      <4>4. QED
        BY <4>1, <4>2, <4>3
    <3>4. TokensBehind'
      BY <1>2, <2>1, <2>4, <3>1, <3>3 DEF Core, TokensBehind, Generations
    <3>5. TicketsKept'
      <4>1. \A t \in tokens' : t.work = workGen /\ t.rev = rev => TicketOf(t) = ticket
        BY DEF TicketOf
      <4>2. QED
        BY <1>2, <3>1, <4>1 DEF TicketsKept, TicketOf
    <3>6. QED
      BY <3>2, <3>4, <3>5
  <2>5. QueueAgrees
    BY <2>1, <2>3, <2>4
  <2>6. Core'
    BY <1>2, <2>5 DEF Core, Quiet, RendererFollowsDevice, Live,
       SurfacesFallWithDevice, ActiveIsConfigured
  <2>7. token \in SubmissionTokens
    BY DEF SubmissionTokens, Core
  <2>8. WatermarksOrdered'
    BY SessionAssumption, <1>2, <2>1, <2>2
       DEF Rest, WatermarksOrdered, SessionAssumption, OptionalRevisions, NoRevision
  <2>9. Rest'
    BY <1>2, <2>2, <2>7, <2>8 DEF Rest, Results
  <2>10. QED
    BY <2>6, <2>9
<1>3. ~(rev >= highest /\ ticket \notin kept /\ Cardinality(kept) >= MaxPendingWork)
  BY NewestTicket
<1>4. QED
  BY <1>1, <1>2, <1>3 DEF BeginSubmission

\* The watermarks can be compared as integers.
LEMMA RevisionsAreIntegers ==
  ASSUME SessionAssumption PROVE OptionalRevisions \subseteq Int
BY DEF SessionAssumption, OptionalRevisions, NoRevision

(* A token that is not stale names the newest requested revision. *)
LEMMA FreshTokenIsNewest ==
  ASSUME SessionAssumption, Core, Rest, NEW t \in tokens, ~Stale(t)
  PROVE  /\ t.rev \in Revisions /\ t.rev \in Int
         /\ t.rev = highest /\ latest <= t.rev
         /\ ObserveRevision(t) => latest' = t.rev
<1>1. t.rev \in Revisions
  BY DEF Rest, SubmissionTokens
<1>2. t.rev \in Int /\ highest \in Int /\ latest \in Int
  <2>1. t.rev \in OptionalRevisions /\ highest \in OptionalRevisions
        /\ latest \in OptionalRevisions
    BY <1>1 DEF Rest, OptionalRevisions
  <2>2. QED
    BY <2>1, RevisionsAreIntegers
<1>3. t.rev <= highest
  BY DEF Core, TokensBehind
<1>4. ~(t.rev < highest) /\ ~(t.rev < latest)
  BY DEF Stale
<1>5. QED
  BY <1>1, <1>2, <1>3, <1>4 DEF ObserveRevision

(* Observing the revision of a fresh token keeps the watermarks in order.   *)
LEMMA ObservedOrder ==
  ASSUME SessionAssumption, Core, Rest, NEW t \in tokens, ~Stale(t),
         ObserveRevision(t), highest' = highest
  PROVE  /\ latest' \in OptionalRevisions /\ latest' = t.rev
         /\ latest' <= highest'
         /\ retained.rev <= latest' /\ presented.rev <= latest'
<1>1. /\ t.rev \in Revisions /\ t.rev \in Int /\ t.rev = highest
      /\ latest <= t.rev /\ latest' = t.rev
  BY FreshTokenIsNewest
<1>2. latest \in Int /\ retained.rev \in Int /\ presented.rev \in Int
  <2>1. latest \in OptionalRevisions /\ retained.rev \in OptionalRevisions
        /\ presented.rev \in OptionalRevisions
    BY DEF Rest
  <2>2. QED
    BY <2>1, RevisionsAreIntegers
<1>3. retained.rev <= latest /\ presented.rev <= retained.rev
  BY DEF Rest, WatermarksOrdered
<1>4. QED
  BY <1>1, <1>2, <1>3 DEF OptionalRevisions

\* A submission that is dropped or refused keeps the invariant.
LEMMA EndWithoutAcceptanceKeeps ==
  ASSUME SessionAssumption, Core, Rest, NEW id \in SurfaceIds, NEW t \in tokens,
         NEW given, EndWithoutAcceptance(id, t, given)
  PROVE  Core' /\ Rest'
<1>1. CASE state # "Running" /\ Answer(StateError)
  <2>1. StateError \in Results
    BY <1>1 DEF StateError, Core, SessionStates, Results, Errors
  <2>2. QED
    BY <1>1, <2>1, AnswerKeeps
<1>2. CASE Answer("StaleDropped") \/ Answer("ResourceInvalid")
  BY <1>2, AnswerKeeps DEF Results, Errors
<1>3. CASE /\ ~Stale(t)
           /\ ObserveRevision(t)
           /\ result' = "Skipped"
           /\ UNCHANGED <<state, attached, renderer, surf, size, configured,
                          workGen, devGen, highest, pending, retained, nextFence,
                          cache, tokens, presented>>
  <2>1. Core'
    BY <1>3, QueueKept DEF Core, Quiet, RendererFollowsDevice, Live,
       SurfacesFallWithDevice, ActiveIsConfigured
  <2>2. latest' \in OptionalRevisions /\ latest' <= highest' /\ retained.rev <= latest'
    BY <1>3, ObservedOrder
  <2>3. Rest'
    BY <1>3, <2>2 DEF Rest, WatermarksOrdered, Results
  <2>4. QED
    BY <2>1, <2>3
<1>4. QED
  BY <1>1, <1>2, <1>3 DEF EndWithoutAcceptance, Admissible

(* What every accepted submission does to its surface. *)
LEMMA ActivatedIsConfigured ==
  ASSUME Core, Rest, NEW id \in SurfaceIds, NEW t, NEW given,
         Accepts(id, t, given), Reconfigure(id), size' = size
  PROVE  /\ configured' \in [SurfaceIds -> Sizes]
         /\ Activated(id) \in [SurfaceIds -> SurfaceStates \cup {"Absent"}]
         /\ surf' = Activated(id) => ActiveIsConfigured'
<1>1. surf[id] \in {"Active", "ReconfigurePending"}
  BY DEF Accepts, Admissible, Targetable, Skips, Core, SurfaceStates
<1>2. configured' \in [SurfaceIds -> Sizes]
  BY DEF Reconfigure, Rest
<1>3. Activated(id) \in [SurfaceIds -> SurfaceStates \cup {"Absent"}]
  BY DEF Activated, Core, SurfaceStates
<1>4. ASSUME surf' = Activated(id), NEW other \in SurfaceIds, surf'[other] = "Active"
      PROVE  configured'[other] = size'[other]
  <2>1. CASE other = id
    BY <1>1, <2>1 DEF Reconfigure, Core, Rest, ActiveIsConfigured
  <2>2. CASE other # id
    BY <1>4, <2>2 DEF Reconfigure, Activated, Core, Rest, ActiveIsConfigured
  <2>3. QED
    BY <2>1, <2>2
<1>5. QED
  BY <1>2, <1>3, <1>4 DEF ActiveIsConfigured

(* An accepted submission that leaves the session itself alone. *)
LEMMA ActivationKeepsCore ==
  ASSUME Core, Rest, NEW id \in SurfaceIds, NEW t, NEW given,
         Accepts(id, t, given), Reconfigure(id), surf' = Activated(id),
         UNCHANGED <<state, attached, renderer, size, workGen, devGen, highest,
                     pending, tokens>>,
         Quiet(cache', devGen, nextFence')
  PROVE  Core'
<1>1. QueueHoldsOnlyNewest' /\ TokensBehind' /\ TicketsKept'
  BY QueueKept
<1>2. /\ surf' \in [SurfaceIds -> SurfaceStates \cup {"Absent"}]
      /\ ActiveIsConfigured'
  BY ActivatedIsConfigured
<1>3. state' = "Running" /\ RendererFollowsDevice'
  BY DEF Accepts, Core, RendererFollowsDevice, Live
<1>4. SurfacesFallWithDevice'
  BY <1>3 DEF SurfacesFallWithDevice
<1>5. QED
  BY <1>1, <1>2, <1>3, <1>4 DEF Core, Quiet

\* What an accepted submission answers is a result.
LEMMA AcceptOutcomeIsResult ==
  ASSUME NEW id PROVE AcceptOutcome(id) \in Results
BY DEF AcceptOutcome, Results

\* A submission without a frame keeps the invariant.
LEMMA SubmitKeeps ==
  ASSUME SessionAssumption, Core, Rest, NEW id \in SurfaceIds, NEW t \in tokens,
         NEW given, Submit(id, t, given)
  PROVE  Core' /\ Rest'
<1>1. CASE EndWithoutAcceptance(id, t, given)
  BY <1>1, EndWithoutAcceptanceKeeps
<1>2. CASE /\ Accepts(id, t, given)
           /\ ObserveRevision(t)
           /\ surf' = Activated(id)
           /\ Reconfigure(id)
           /\ result' = AcceptOutcome(id)
           /\ UNCHANGED <<state, attached, renderer, size, workGen, devGen,
                          highest, pending, retained, nextFence, cache, tokens,
                          presented>>
  <2>1. ~Stale(t)
    BY <1>2 DEF Accepts, Admissible
  <2>2. Core'
    BY <1>2, ActivationKeepsCore DEF Core
  <2>3. latest' \in OptionalRevisions /\ latest' <= highest' /\ retained.rev <= latest'
    BY <1>2, <2>1, ObservedOrder
  <2>4. configured' \in [SurfaceIds -> Sizes]
    BY <1>2, ActivatedIsConfigured
  <2>5. Rest'
    BY <1>2, <2>3, <2>4, AcceptOutcomeIsResult DEF Rest, WatermarksOrdered
  <2>6. QED
    BY <2>2, <2>5
<1>3. QED
  BY <1>1, <1>2 DEF Submit

-----------------------------------------------------------------------------
(* submit_frame. *)

(* Every error a prepared, rendered or committed packet can end with is a   *)
(* runtime error, and the cache is at rest again whichever it is.          *)
LEMMA PacketErrors ==
  ASSUME CacheAssumption, Core, Rest, NEW fate \in Fates
  PROVE  /\ PrepareError(fate.built) \in Results \cup {"Ok"}
         /\ fate.rendered \in Results
         /\ CommitError(fate.allocated) \in Results
         /\ Quiet(LeaseDropped, devGen, nextFence)
         /\ LeaseDropped \in Caches /\ cache \in Caches
<1>1. /\ devGen \in Generations /\ nextFence \in Nat \ {0}
      /\ Quiet(cache, devGen, nextFence)
  BY DEF Core, Rest
<1>2. /\ fate.built \in {"Ok", "ResourceInvalid", "OutOfMemory"}
      /\ fate.rendered \in {"Ok", "DeviceLost", "OutOfMemory", "Internal"}
      /\ fate.allocated \in BOOLEAN
  <2>1. CASE \E e \in {"ResourceInvalid", "OutOfMemory"} : fate = Built(e)
    BY <2>1 DEF Built
  <2>2. CASE \E a \in {"Ok", "DeviceLost", "OutOfMemory", "Internal"} : fate = Rendered(a)
    BY <2>2 DEF Rendered
  <2>3. CASE fate = [built |-> "Ok", rendered |-> "Ok", allocated |-> FALSE]
    BY <2>3
  <2>4. QED
    BY <2>1, <2>2, <2>3 DEF Fates
<1>3. PrepareError(fate.built) \in Results \cup {"Ok"}
  BY <1>1, <1>2, PrepareNeverStale DEF PrepareError, ErrorOf, Results, Errors
<1>4. CommitError(fate.allocated) \in {"Ok", "OutOfMemory"}
  <2>1. CommitError(TRUE) = "Ok" /\ CommitError(FALSE) = "OutOfMemory"
    BY <1>1, CommitErrors
  <2>2. fate.allocated = TRUE \/ fate.allocated = FALSE
    BY <1>2
  <2>3. QED
    BY <2>1, <2>2
<1>5. Quiet(LeaseDropped, devGen, nextFence)
  BY <1>1, LeaseDroppedIsQuiet
<1>6. QED
  BY <1>1, <1>2, <1>3, <1>4, <1>5 DEF Results, Errors, Quiet

\* A packet is prepared only while a fence is left for its commit.
LEMMA PrepareLeavesAFence ==
  ASSUME SessionAssumption, Rest, NEW built, PrepareError(built) = "Ok"
  PROVE  nextFence + 1 \in 1 .. MaxFence
<1>1. nextFence # MaxFence
  BY DEF PrepareError
<1>2. nextFence \in 1 .. MaxFence /\ MaxFence \in Nat
  BY DEF Rest, SessionAssumption
<1>3. QED
  BY <1>1, <1>2

\* A publication that fails before its commit keeps the core of the invariant.
LEMMA FailPublicationKeepsCore ==
  ASSUME Core, Rest, NEW id \in SurfaceIds, NEW t, NEW given,
         Accepts(id, t, given), Reconfigure(id), NEW error, NEW c \in Caches,
         FailPublication(id, error, c), Quiet(c, devGen, nextFence),
         UNCHANGED <<attached, size, highest, tokens>>, nextFence' = nextFence
  PROVE  Core'
<1>1. CASE ExhaustMemory(c)
  <2>1. workGen' \in {workGen, workGen + 1} /\ workGen' \in Generations
        /\ devGen' = devGen
    BY DEF FailPublication, Core
  <2>2. QED
    BY <1>1, <2>1, ExhaustMemoryKeepsCore
<1>2. CASE cache' = c /\ surf' = Activated(id) /\ UNCHANGED <<state, renderer, pending>>
  BY <1>2, ActivationKeepsCore DEF FailPublication
<1>3. QED
  BY <1>1, <1>2 DEF FailPublication

\* A publication that ends the device keeps the core of the invariant.
LEMMA FailDeviceKeepsCore ==
  ASSUME CacheAssumption, Core, Rest, NEW id \in SurfaceIds, NEW t, NEW given,
         Accepts(id, t, given), Reconfigure(id), NEW c \in Caches,
         FailDevice(id, c), Quiet(c, devGen, nextFence),
         UNCHANGED <<attached, size, highest, tokens>>, nextFence' = nextFence
  PROVE  Core'
<1>1. CASE CanLoseDevice /\ LoseDevice(c)
  BY <1>1, LoseDeviceKeepsCore
<1>2. CASE cache' = c /\ surf' = Activated(id)
           /\ UNCHANGED <<state, renderer, pending, workGen, devGen>>
  BY <1>2, ActivationKeepsCore
<1>3. QED
  BY <1>1, <1>2 DEF FailDevice

\* Publishing a frame keeps the invariant, however rendering it ends.
LEMMA PublishKeeps ==
  ASSUME SessionAssumption, CacheAssumption, Core, Rest, NEW id \in SurfaceIds,
         NEW t \in tokens, NEW given, NEW frame \in Frames, NEW fate \in Fates,
         Accepts(id, t, given), ObserveRevision(t), Reconfigure(id),
         UNCHANGED <<attached, size, highest, tokens>>,
         Publish(id, t, frame, fate)
  PROVE  Core' /\ Rest'
<1>1. ~Stale(t)
  BY DEF Accepts, Admissible
<1>2. /\ latest' \in OptionalRevisions /\ latest' = t.rev /\ latest' <= highest'
      /\ retained.rev <= latest' /\ presented.rev <= latest'
  BY <1>1, ObservedOrder
<1>3. configured' \in [SurfaceIds -> Sizes]
  BY ActivatedIsConfigured
<1>4. /\ PrepareError(fate.built) \in Results \cup {"Ok"}
      /\ fate.rendered \in Results
      /\ CommitError(fate.allocated) \in Results
      /\ Quiet(LeaseDropped, devGen, nextFence)
      /\ LeaseDropped \in Caches /\ cache \in Caches
  BY PacketErrors
<1>5. Quiet(cache, devGen, nextFence) /\ devGen \in Generations
      /\ workGen \in Generations /\ nextFence \in Nat \ {0}
  BY DEF Core, Rest
<1> DEFINE frameKept == [frame |-> frame, rev |-> t.rev]
           shown == [frame |-> frame, rev |-> t.rev, work |-> workGen, dev |-> devGen]
<1>6. /\ frameKept \in [frame : Frames \cup {NoFrame}, rev : OptionalRevisions]
      /\ shown \in [frame : Frames \cup {NoFrame}, rev : OptionalRevisions,
                    work : Generations, dev : Generations]
      /\ frameKept.rev = t.rev /\ shown.rev = t.rev
  BY <1>2, <1>5
<1>7. t.rev \in Int
  BY <1>1, FreshTokenIsNewest
\* What remains of Rest once the operation has chosen its ending.
<1>8. ASSUME result' \in Results, nextFence' \in 1 .. MaxFence,
             retained' = retained \/ retained' = frameKept,
             presented' = presented \/ (presented' = shown /\ retained' = frameKept)
      PROVE  Rest'
  <2>1. retained' \in [frame : Frames \cup {NoFrame}, rev : OptionalRevisions]
        /\ presented' \in [frame : Frames \cup {NoFrame}, rev : OptionalRevisions,
                           work : Generations, dev : Generations]
    BY <1>6, <1>8 DEF Rest
  <2>2. retained'.rev <= latest' /\ presented'.rev <= retained'.rev
    BY <1>2, <1>6, <1>7, <1>8 DEF Rest, WatermarksOrdered
  <2>3. QED
    BY <1>2, <1>3, <1>8, <2>1, <2>2 DEF Rest, WatermarksOrdered
<1>9. nextFence \in 1 .. MaxFence
  BY DEF Rest
<1>10. CASE /\ PrepareError(fate.built) # "Ok"
            /\ FailPublication(id, PrepareError(fate.built), cache)
            /\ UNCHANGED <<retained, nextFence, presented>>
  <2>1. Core'
    BY <1>4, <1>5, <1>10, FailPublicationKeepsCore
  <2>2. result' \in Results
    BY <1>4, <1>10 DEF FailPublication
  <2>3. QED
    BY <1>8, <1>9, <1>10, <2>1, <2>2
<1>11. CASE /\ PrepareError(fate.built) = "Ok"
            /\ retained' = frameKept
            /\ PublishPrepared(id, t, frame, fate)
  <2>1. CASE \E error \in Results : /\ FailPublication(id, error, LeaseDropped)
                                    /\ nextFence' = nextFence
                                    /\ presented' = presented \/ presented' = shown
    <3>1. Core'
      BY <1>4, <2>1, FailPublicationKeepsCore
    <3>2. result' \in Results
      BY <2>1 DEF FailPublication
    <3>3. QED
      BY <1>8, <1>9, <1>11, <2>1, <3>1, <3>2
  <2>2. CASE /\ FailDevice(id, LeaseDropped)
             /\ UNCHANGED <<nextFence, presented>>
    <3>1. Core'
      BY <1>4, <2>2, FailDeviceKeepsCore
    <3>2. result' \in Results
      BY <2>2 DEF FailDevice, Results, Errors
    <3>3. QED
      BY <1>8, <1>9, <1>11, <2>2, <3>1, <3>2
  <2>3. CASE /\ presented' = shown
             /\ cache' = Committed
             /\ nextFence' = nextFence + 1
             /\ surf' = Activated(id)
             /\ result' = AcceptOutcome(id)
             /\ UNCHANGED <<state, renderer, pending, workGen, devGen>>
    <3>1. Quiet(cache', devGen, nextFence')
      BY <1>5, <2>3, CommittedIsQuiet
    <3>2. Core'
      BY <2>3, <3>1, ActivationKeepsCore
    <3>3. nextFence' \in 1 .. MaxFence
      BY <1>11, <2>3, PrepareLeavesAFence
    <3>4. QED
      BY <1>8, <1>11, <2>3, <3>2, <3>3, AcceptOutcomeIsResult
  <2>4. "BackendUnavailable" \in Results
    BY DEF Results, Errors
  <2>5. QED
    BY <1>4, <1>11, <2>1, <2>2, <2>3, <2>4 DEF PublishPrepared, Render
<1>12. QED
  BY <1>10, <1>11 DEF Publish

\* A submission with a frame keeps the invariant.
LEMMA SubmitFrameKeeps ==
  ASSUME SessionAssumption, CacheAssumption, Core, Rest, NEW id \in SurfaceIds,
         NEW t \in tokens, NEW given, SubmitFrame(id, t, given)
  PROVE  Core' /\ Rest'
<1>1. CASE EndWithoutAcceptance(id, t, given)
  BY <1>1, EndWithoutAcceptanceKeeps
<1>2. CASE /\ Accepts(id, t, given)
           /\ ObserveRevision(t)
           /\ Reconfigure(id)
           /\ UNCHANGED <<attached, size, highest, tokens>>
           /\ \E frame \in Frames, fate \in Fates : Publish(id, t, frame, fate)
  BY <1>2, PublishKeeps
<1>3. QED
  BY <1>1, <1>2 DEF SubmitFrame

-----------------------------------------------------------------------------
(* recover_device. *)
LEMMA FailRecoveryKeepsCore ==
  ASSUME CacheAssumption, Core, Rest, state = "DeviceLost", workGen < MaxGeneration,
         NEW error, NEW c \in Caches, FailRecovery(error, c),
         Quiet(c, devGen, nextFence)
  PROVE  Core'
<1>1. workGen' = workGen + 1 /\ workGen' \in Generations
  BY DEF FailRecovery, Core, Generations, CacheAssumption
<1>2. CASE ExhaustMemory(c)
  BY <1>1, <1>2, ExhaustMemoryKeepsCore DEF FailRecovery
<1>3. CASE /\ CommitWorkGeneration /\ cache' = c
           /\ UNCHANGED <<state, renderer, surf>>
  <2>1. /\ workGen' \in Generations /\ pending' = {}
        /\ QueueHoldsOnlyNewest' /\ TokensBehind' /\ TicketsKept'
    BY <1>3, WorkRestarts DEF FailRecovery
  <2>2. QED
    BY <1>3, <2>1 DEF FailRecovery, Core, Quiet, RendererFollowsDevice, Live,
       SurfacesFallWithDevice, ActiveIsConfigured
<1>4. QED
  BY <1>2, <1>3 DEF FailRecovery

\* A completed recovery re-establishes the core of the invariant.
LEMMA FinishRecoveryKeepsCore ==
  ASSUME CacheAssumption, Core, Rest, attached, workGen < MaxGeneration, FinishRecovery,
         Quiet(cache', devGen, nextFence')
  PROVE  Core'
<1>1. /\ workGen' \in Generations /\ pending' = {}
      /\ QueueHoldsOnlyNewest' /\ TokensBehind' /\ TicketsKept'
  BY WorkRestarts DEF FinishRecovery
<1>2. surf' \in [SurfaceIds -> {"ReconfigurePending", "Absent"}]
  BY DEF FinishRecovery, AllSurfaces
<1>3. /\ surf' \in [SurfaceIds -> SurfaceStates \cup {"Absent"}]
      /\ SurfacesFallWithDevice' /\ ActiveIsConfigured'
  BY <1>2 DEF FinishRecovery, SurfaceStates, SurfacesFallWithDevice, ActiveIsConfigured
<1>4. /\ RendererFollowsDevice' /\ state' \in SessionStates
      /\ renderer' \in Generations \cup {NoRenderer}
      /\ devGen' \in Generations /\ pending' \subseteq Tickets
  BY <1>1 DEF FinishRecovery, RendererFollowsDevice, Live, SessionStates, Core
<1>5. QED
  BY <1>1, <1>3, <1>4 DEF Core, Quiet, FinishRecovery

\* The replay of the retained frame keeps the invariant, failed or not.
LEMMA ReplayRetainedKeeps ==
  ASSUME SessionAssumption, CacheAssumption, Core, Rest, state = "DeviceLost", attached,
         workGen < MaxGeneration, NEW fate \in Fates, ReplayRetained(fate)
  PROVE  Core' /\ Rest'
<1>1. /\ PrepareError(fate.built) \in Results \cup {"Ok"}
      /\ fate.rendered \in Results
      /\ CommitError(fate.allocated) \in Results
      /\ Quiet(LeaseDropped, devGen, nextFence)
      /\ LeaseDropped \in Caches /\ cache \in Caches
  BY PacketErrors
<1>2. Quiet(cache, devGen, nextFence) /\ devGen \in Generations
      /\ nextFence \in Nat \ {0} /\ workGen + 1 \in Generations
  BY DEF Core, Rest, Generations, CacheAssumption
<1> DEFINE shown == [frame |-> retained.frame, rev |-> retained.rev,
                     work |-> workGen + 1, dev |-> devGen]
<1>3. /\ shown.rev = retained.rev
      /\ shown \in [frame : Frames \cup {NoFrame}, rev : OptionalRevisions,
                    work : Generations, dev : Generations]
  BY <1>2 DEF Rest
<1>4. retained.rev <= retained.rev
  <2>1. retained.rev \in OptionalRevisions
    BY DEF Rest
  <2>2. QED
    BY <2>1, RevisionsAreIntegers
<1>5. ASSUME result' \in Results, nextFence' \in 1 .. MaxFence,
             presented' = presented \/ presented' = shown,
             UNCHANGED <<attached, size, configured, latest, highest, retained, tokens>>
      PROVE  Rest'
  BY <1>3, <1>4, <1>5 DEF Rest, WatermarksOrdered
<1>6. nextFence \in 1 .. MaxFence
  BY DEF Rest
<1>7. CASE \E error \in Results, c \in {cache, LeaseDropped} :
             /\ FailRecovery(error, c)
             /\ presented' = presented \/ presented' = shown
  <2>1. PICK error \in Results, c \in {cache, LeaseDropped} :
             /\ FailRecovery(error, c)
             /\ presented' = presented \/ presented' = shown
    BY <1>7
  <2>2. Quiet(c, devGen, nextFence) /\ c \in Caches
    BY <1>1, <1>2
  <2>3. Core'
    BY <2>1, <2>2, FailRecoveryKeepsCore
  <2>4. Rest'
    BY <1>5, <1>6, <2>1 DEF FailRecovery
  <2>5. QED
    BY <2>3, <2>4
<1>8. CASE /\ PrepareError(fate.built) = "Ok"
           /\ presented' = shown
           /\ FinishRecovery
           /\ cache' = Committed
           /\ nextFence' = nextFence + 1
  <2>1. Core'
    BY <1>2, <1>8, CommittedIsQuiet, FinishRecoveryKeepsCore
  <2>2. nextFence' \in 1 .. MaxFence
    BY <1>8, PrepareLeavesAFence
  <2>3. Rest'
    BY <1>5, <1>8, <2>2 DEF FinishRecovery, Results
  <2>4. QED
    BY <2>1, <2>3
<1>9. QED
  BY <1>1, <1>7, <1>8 DEF ReplayRetained, Render

\* Recovery keeps the invariant.
LEMMA RecoverDeviceKeeps ==
  ASSUME SessionAssumption, CacheAssumption, Core, Rest, NEW made, RecoverDevice(made)
  PROVE  Core' /\ Rest'
<1>1. CASE \E r \in Results : Answer(r)
  BY <1>1, AnswerKeeps
<1>2. CASE /\ ExhaustMemory(cache)
           /\ result' = "OutOfMemory"
           /\ UNCHANGED <<attached, size, configured, workGen, devGen, latest,
                          highest, retained, nextFence, tokens, presented>>
  <2>1. Core'
    BY <1>2, ExhaustMemoryKeepsCore DEF Core, Quiet
  <2>2. Rest'
    BY <1>2 DEF Rest, WatermarksOrdered, Results, Errors
  <2>3. QED
    BY <2>1, <2>2
<1>3. CASE /\ attached /\ workGen < MaxGeneration
           /\ FinishRecovery
           /\ UNCHANGED <<cache, nextFence, presented>>
  <2>1. Core'
    BY <1>3, FinishRecoveryKeepsCore DEF Core
  <2>2. Rest'
    BY <1>3 DEF FinishRecovery, Rest, WatermarksOrdered, Results
  <2>3. QED
    BY <2>1, <2>2
<1>4. CASE /\ state = "DeviceLost" /\ attached /\ workGen < MaxGeneration
           /\ \E fate \in Fates : ReplayRetained(fate)
  BY <1>4, ReplayRetainedKeeps
<1>5. {"InvalidState", "RecoveryFailed", "Internal"} \subseteq Results
  BY DEF Results, Errors
<1>6. QED
  BY <1>1, <1>2, <1>3, <1>4, <1>5, StateErrorIsResult DEF RecoverDevice

-----------------------------------------------------------------------------
(* The inductive invariant holds of every behaviour. *)
LEMMA InitIsSound ==
  ASSUME SessionAssumption, CacheAssumption, Init
  PROVE  IInv
<1>1. 0 \in Generations /\ NoRevision \in OptionalRevisions
  BY DEF CacheAssumption, Generations, OptionalRevisions
<1>2. Quiet(cache, devGen, nextFence)
  BY <1>1, EmptyCacheIsQuiet DEF Init
<1>3. (CHOOSE s \in Sizes : TRUE) \in Sizes
  BY DEF SessionAssumption
<1>4. size \in [SurfaceIds -> Sizes] /\ configured \in [SurfaceIds -> Sizes]
  BY <1>3 DEF Init
<1>5. retained = NoRetained /\ presented = NothingPresented
  BY DEF Init
<1>6. WatermarksOrdered
  BY <1>5 DEF Init, NoRetained, NothingPresented, WatermarksOrdered, NoRevision
<1>7. Rest
  BY <1>1, <1>4, <1>5, <1>6
     DEF Init, Rest, NoRetained, NothingPresented, SessionAssumption, Results
<1>8. Core
  BY <1>1, <1>2 DEF Init, Core, SessionStates, SurfaceStates, QueueHoldsOnlyNewest,
     TokensBehind, TicketsKept, RendererFollowsDevice, Live, SurfacesFallWithDevice,
     ActiveIsConfigured
<1>9. QED
  BY <1>7, <1>8, Halves

\* Every step of the session keeps the invariant.
LEMMA NextKeeps ==
  ASSUME SessionAssumption, CacheAssumption, IInv, [Next]_vars
  PROVE  IInv'
<1>1. Core /\ Rest
  BY Halves
<1>2. CASE LifecycleCall
  BY <1>1, <1>2, Halves, EnterLoopKeeps, HandleDeviceLossKeeps, HandleOutOfMemoryKeeps,
     CloseKeeps, RecoverDeviceKeeps DEF LifecycleCall
<1>3. CASE \E id \in SurfaceIds : SurfaceCall(id)
  BY <1>1, <1>3, Halves, CreateSurfaceKeeps, ResizeKeeps, SurfaceMovesKeep DEF SurfaceCall
<1>4. CASE SubmissionCall
  BY <1>1, <1>4, Halves, BeginSubmissionKeeps, SubmitKeeps, SubmitFrameKeeps
     DEF SubmissionCall
<1>5. CASE UNCHANGED vars
  BY <1>5 DEF vars, IInv, TypeOK, QueueHoldsOnlyNewest, TokensBehind, TicketsKept,
     TicketOf, WatermarksOrdered, Quiet, RendererFollowsDevice, Live,
     SurfacesFallWithDevice, ActiveIsConfigured
<1>6. QED
  BY <1>2, <1>3, <1>4, <1>5 DEF Next

(* The session's queue, tokens, watermarks, cache, renderer and surfaces    *)
(* agree in every reachable state, for every number of surfaces, revisions,*)
(* frames, generations and fences (all operations of EngineSession).       *)
THEOREM SessionIsSound == Spec => []IInv
<1>1. Init => IInv
  BY InitIsSound, SessionAssumption, CacheAssumption
<1>2. IInv /\ [Next]_vars => IInv'
  BY NextKeeps, SessionAssumption, CacheAssumption
<1>3. QED
  BY <1>1, <1>2, PTL DEF Spec

(* Every variable keeps its type. *)
THEOREM TypeCorrect == Spec => []TypeOK
<1>1. IInv => TypeOK
  BY DEF IInv
<1>2. QED
  BY <1>1, SessionIsSound, PTL

(* The derived-work queue never holds anything but the one ticket that can  *)
(* still be published, so MAX_PENDING_WORK is never reached                *)
(* (begin_submission, commit_work_generation).                             *)
THEOREM QueueIsMinimal == Spec => []QueueHoldsOnlyNewest
<1>1. IInv => QueueHoldsOnlyNewest
  BY DEF IInv
<1>2. QED
  BY <1>1, SessionIsSound, PTL

(* A running session honours every token that passes the staleness checks:  *)
(* its ticket is still queued (begin_submission, submit).                  *)
THEOREM FreshTokensAreHonoured == Spec => []FreshTokenHasTicket
<1>1. IInv => FreshTokenHasTicket
  <2>1. SUFFICES ASSUME IInv, NEW t \in tokens, state = "Running", ~Stale(t)
                 PROVE  TicketOf(t) \in pending
    BY DEF FreshTokenHasTicket
  <2>2. Core /\ Rest
    BY <2>1, Halves
  <2>3. t.rev = highest
    BY <2>1, <2>2, FreshTokenIsNewest, SessionAssumption
  <2>4. t.work = workGen
    BY <2>1 DEF Stale
  <2>5. QED
    BY <2>1, <2>2, <2>3, <2>4 DEF Core, TicketsKept
<1>2. QED
  BY <1>1, SessionIsSound, PTL

(* What was shown trails what was retained, observed and requested, in that *)
(* order, through losses and replays (submit, prepare, recover_device).    *)
THEOREM RevisionsNeverOvertake == Spec => []WatermarksOrdered
<1>1. IInv => WatermarksOrdered
  BY DEF IInv
<1>2. QED
  BY <1>1, SessionIsSound, PTL

(* No error path of submit_frame or recover_device leaks a resource lease   *)
(* or a pending submission, and the cache follows the device               *)
(* (PacketOwner, ResourceLease::drop).                                     *)
THEOREM NoLeaseLeaks == Spec => []NoLeaseOutlivesItsOperation
<1>1. IInv => NoLeaseOutlivesItsOperation
  BY DEF IInv, Quiet, NoLeaseOutlivesItsOperation
<1>2. QED
  BY <1>1, SessionIsSound, PTL

(* The packet owner's fence sequence is always one the cache accepts: after *)
(* a successful render the commit fails only for want of memory (commit).  *)
THEOREM CommitsAreAdmissible == Spec => []CommitIsAdmissible
<1>1. IInv => CommitIsAdmissible
  <2>1. SUFFICES ASSUME IInv PROVE CommitIsAdmissible
    OBVIOUS
  <2>2. /\ Quiet(cache, devGen, nextFence) /\ devGen \in Generations
        /\ nextFence \in Nat \ {0}
    BY <2>1 DEF IInv, TypeOK
  <2>3. QED
    BY <2>2, CommitErrors, CacheAssumption DEF CommitIsAdmissible
<1>2. QED
  BY <1>1, SessionIsSound, PTL

(* A renderer exists exactly while an attached session is live, bound to    *)
(* the current device (handle_device_loss, recover_device, close).         *)
THEOREM RendererIsCurrent == Spec => []RendererFollowsDevice
<1>1. IInv => RendererFollowsDevice
  BY DEF IInv
<1>2. QED
  BY <1>1, SessionIsSound, PTL

(* No surface of a lost, exhausted or closed session can be drawn, and an   *)
(* active surface is configured at its current size.                       *)
THEOREM SurfacesAreSound == Spec => [](SurfacesFallWithDevice /\ ActiveIsConfigured)
<1>1. IInv => SurfacesFallWithDevice /\ ActiveIsConfigured
  BY DEF IInv
<1>2. QED
  BY <1>1, SessionIsSound, PTL

(* A surface the application finds active can be drawn, for any number of  *)
(* surfaces, sizes and generations (resize, resume, handle_device_loss,    *)
(* handle_out_of_memory, recover_device, close).                           *)
THEOREM ActiveSurfacesAreReady == Spec => []DrawableIsReady
<1>1. IInv => DrawableIsReady
  BY DEF IInv, Core, TypeOK, SessionStates, RendererFollowsDevice, SurfacesFallWithDevice,
     ActiveIsConfigured, DrawableIsReady, Live
<1> QED
  BY <1>1, SessionIsSound, PTL

-----------------------------------------------------------------------------
(* The session implements PublicationGate: every operation is a step of the *)
(* gate or leaves it as it is.                                             *)
GateStep == [Gate!GateNext]_(Gate!gateVars)

\* The phase a session shows the gate, by its state.
LEMMA PhaseOf ==
  /\ state = "Created" => Phase = "new"
  /\ state = "Running" => Phase = "open"
  /\ state = "DeviceLost" => Phase = "lost"
  /\ state \in {"OutOfMemory", "Closed"} => Phase = "dead"
  /\ state' = "Created" => Phase' = "new"
  /\ state' = "Running" => Phase' = "open"
  /\ state' = "DeviceLost" => Phase' = "lost"
  /\ state' \in {"OutOfMemory", "Closed"} => Phase' = "dead"
BY DEF Phase

\* A step that changes nothing the gate sees is a stutter of the gate.
LEMMA GateStutters ==
  ASSUME UNCHANGED <<state, highest, presented>>
  PROVE  GateStep
BY DEF GateStep, Phase, Gate!gateVars

\* An answer is a stutter of the gate.
LEMMA AnswerIsGateStep ==
  ASSUME NEW r, Answer(r) PROVE GateStep
BY GateStutters DEF Answer

\* Losing the device of a live session is the gate's Lose.
LEMMA GateLoses ==
  ASSUME Live, state' = "DeviceLost", UNCHANGED <<highest, presented>>
  PROVE  GateStep
<1>1. Phase \in {"new", "open"} /\ Phase' = "lost"
  BY PhaseOf DEF Live
<1>2. Gate!Lose
  BY <1>1 DEF Gate!Lose
<1>3. QED
  BY <1>2 DEF GateStep, Gate!GateNext

\* The end of the session is the gate's Die.
LEMMA GateDies ==
  ASSUME state \in {"Created", "Running", "DeviceLost"},
         state' \in {"OutOfMemory", "Closed"}, UNCHANGED <<highest, presented>>
  PROVE  GateStep
<1>1. Phase # "dead" /\ Phase' = "dead"
  BY PhaseOf
<1>2. Gate!Die
  BY <1>1 DEF Gate!Die
<1>3. QED
  BY <1>2 DEF GateStep, Gate!GateNext

\* Showing the newest request is the gate's Show, also when it ends the session.
LEMMA GateShows ==
  ASSUME state = "Running", state' \in {"Running", "OutOfMemory"}, highest # NoRevision,
         highest' = highest, presented'.rev = highest
  PROVE  GateStep
<1>1. Phase = "open" /\ Phase' \in {"open", "dead"}
  BY PhaseOf
<1>2. Gate!Show
  BY <1>1 DEF Gate!Show, Gate!Unseen, NoRevision
<1>3. QED
  BY <1>2 DEF GateStep, Gate!GateNext

(* A rebuild replays at most the retained revision. *)
LEMMA GateRebuilds ==
  ASSUME SessionAssumption, Core, Rest, state = "DeviceLost",
         state' \in {"Running", "DeviceLost", "OutOfMemory"}, highest' = highest,
         presented' = presented \/ presented'.rev = retained.rev
  PROVE  GateStep
<1>1. Phase = "lost" /\ Phase' \in {"open", "lost", "dead"}
  BY PhaseOf
<1>2. /\ retained.rev \in OptionalRevisions /\ presented.rev \in OptionalRevisions
      /\ latest \in OptionalRevisions /\ highest \in OptionalRevisions
  BY DEF Rest
<1>3. /\ retained.rev \in Int /\ presented.rev \in Int
      /\ latest \in Int /\ highest \in Int
  BY <1>2, RevisionsAreIntegers
<1>4. latest <= highest /\ retained.rev <= latest /\ presented.rev <= retained.rev
  BY DEF Rest, WatermarksOrdered
<1>5. presented'.rev \in OptionalRevisions
  BY <1>2
<1>6. presented.rev <= presented'.rev /\ presented'.rev <= highest
  BY <1>3, <1>4
<1>7. Gate!Rebuild
  BY <1>1, <1>5, <1>6 DEF Gate!Rebuild, Gate!Unseen, OptionalRevisions, NoRevision
<1>8. QED
  BY <1>7 DEF GateStep, Gate!GateNext

\* Lifecycle calls are steps of the gate.
LEMMA LifecycleIsGateStep ==
  ASSUME SessionAssumption, Core, Rest, LifecycleCall
  PROVE  GateStep
<1>1. CASE EnterLoop
  <2>1. CASE Answer(StateError) \/ Answer("HostLoopMisuse")
    BY <2>1, AnswerIsGateStep
  <2>2. CASE state = "Created" /\ state' = "Running" /\ UNCHANGED <<highest, presented>>
    <3>1. Gate!Open
      BY <2>2, PhaseOf DEF Gate!Open
    <3>2. QED
      BY <3>1 DEF GateStep, Gate!GateNext
  <2>3. CASE UNCHANGED <<state, highest, presented>>
    BY <2>3, GateStutters
  <2>4. QED
    BY <1>1, <2>1, <2>2, <2>3 DEF EnterLoop, Live
<1>2. CASE HandleDeviceLoss
  BY <1>2, AnswerIsGateStep, GateLoses DEF HandleDeviceLoss, LoseDevice
<1>3. CASE HandleOutOfMemory
  BY <1>3, AnswerIsGateStep, GateDies DEF HandleOutOfMemory, ExhaustMemory
<1>4. CASE Close
  <2>1. CASE state = "OutOfMemory" /\ state' = "Closed" /\ UNCHANGED <<highest, presented>>
    BY <2>1, PhaseOf DEF GateStep, Gate!gateVars
  <2>2. CASE /\ state \in {"Created", "Running", "DeviceLost"} /\ state' = "Closed"
             /\ UNCHANGED <<highest, presented>>
    BY <2>2, GateDies
  <2>3. QED
    BY <1>4, <2>1, <2>2, AnswerIsGateStep DEF Close, Core, SessionStates
<1>5. CASE \E made \in {"Ok", "OutOfMemory", "Failed"} : RecoverDevice(made)
  <2>1. CASE \E r : Answer(r)
    BY <2>1, AnswerIsGateStep
  <2>2. CASE /\ state = "DeviceLost" /\ ExhaustMemory(cache)
             /\ UNCHANGED <<highest, presented>>
    BY <2>2, GateRebuilds DEF ExhaustMemory
  <2>3. CASE state = "DeviceLost" /\ FinishRecovery /\ UNCHANGED presented
    BY <2>3, GateRebuilds DEF FinishRecovery
  <2>4. CASE state = "DeviceLost" /\ \E fate \in Fates : ReplayRetained(fate)
    <3>1. presented' = presented \/ presented'.rev = retained.rev
      BY <2>4 DEF ReplayRetained, Render
    <3>2. highest' = highest /\ state' \in {"Running", "DeviceLost", "OutOfMemory"}
      BY <2>4 DEF ReplayRetained, FailRecovery, FinishRecovery, ExhaustMemory
    <3>3. QED
      BY <2>4, <3>1, <3>2, GateRebuilds
  <2>5. QED
    BY <1>5, <2>1, <2>2, <2>3, <2>4 DEF RecoverDevice
<1>6. QED
  BY <1>1, <1>2, <1>3, <1>4, <1>5 DEF LifecycleCall

\* Calls about surfaces are stutters of the gate.
LEMMA SurfaceCallIsGateStep ==
  ASSUME NEW id \in SurfaceIds, SurfaceCall(id)
  PROVE  GateStep
<1>1. ASSUME NEW s, CreateSurface(id, s) PROVE GateStep
  BY <1>1, AnswerIsGateStep, GateStutters DEF CreateSurface
<1>2. ASSUME NEW s, Resize(id, s) PROVE GateStep
  BY <1>2, AnswerIsGateStep, GateStutters DEF Resize
<1>3. ASSUME NEW to, NEW outcome, MoveSurface(id, to, outcome) PROVE GateStep
  BY <1>3, AnswerIsGateStep, GateStutters DEF MoveSurface
<1>4. CASE Suspend(id)
  BY <1>3, <1>4, AnswerIsGateStep DEF Suspend, RefuseSurface
<1>5. CASE Resume(id)
  BY <1>3, <1>5, AnswerIsGateStep DEF Resume, RefuseSurface
<1>6. CASE HandleSurfaceLoss(id)
  BY <1>3, <1>6, AnswerIsGateStep DEF HandleSurfaceLoss, RefuseSurface
<1>7. CASE RecreateSurface(id)
  BY <1>3, <1>7, AnswerIsGateStep DEF RecreateSurface, RefuseSurface
<1>8. QED
  BY <1>1, <1>2, <1>4, <1>5, <1>6, <1>7 DEF SurfaceCall

\* A request for a frame is the gate's Request, or a stutter.
LEMMA BeginSubmissionIsGateStep ==
  ASSUME NEW rev \in Revisions, BeginSubmission(rev)
  PROVE  GateStep
<1>1. CASE Answer(StateError)
  BY <1>1, AnswerIsGateStep
<1>2. CASE UNCHANGED <<state, highest, presented>>
  BY <1>2, GateStutters
<1>3. CASE /\ state = "Running" /\ rev > highest /\ highest' = rev
           /\ UNCHANGED <<state, presented>>
  <2>1. Gate!Request
    BY <1>3, PhaseOf DEF Gate!Request
  <2>2. QED
    BY <2>1 DEF GateStep, Gate!GateNext
<1>4. QED
  BY <1>1, <1>2, <1>3 DEF BeginSubmission

\* A submission that ends without acceptance is a stutter of the gate.
LEMMA EndingIsGateStep ==
  ASSUME NEW id, NEW t, NEW given, EndWithoutAcceptance(id, t, given)
  PROVE  GateStep
BY AnswerIsGateStep, GateStutters DEF EndWithoutAcceptance

\* Publishing a frame is a step of the gate.
LEMMA PublishIsGateStep ==
  ASSUME SessionAssumption, Core, Rest, NEW id, NEW t \in tokens, NEW given,
         NEW frame, NEW fate, Accepts(id, t, given), highest' = highest,
         Publish(id, t, frame, fate)
  PROVE  GateStep
<1>1. state = "Running" /\ Live /\ ~Stale(t)
  BY DEF Accepts, Admissible, Live
<1>2. t.rev = highest /\ highest # NoRevision
  BY <1>1, FreshTokenIsNewest DEF SessionAssumption, NoRevision
<1>3. ASSUME NEW error, NEW c, FailPublication(id, error, c)
      PROVE  state' \in {"Running", "OutOfMemory"}
  BY <1>1, <1>3 DEF FailPublication, ExhaustMemory
<1>4. ASSUME state' \in {"Running", "OutOfMemory"}, presented' = presented
      PROVE  GateStep
  BY <1>1, <1>4, GateStutters, GateDies
<1>5. ASSUME state' \in {"Running", "OutOfMemory"}, Render(frame, t.rev, workGen)
      PROVE  GateStep
  BY <1>1, <1>2, <1>5, GateShows DEF Render
<1>6. CASE \E error, c : FailPublication(id, error, c) /\ presented' = presented
  BY <1>3, <1>4, <1>6
<1>7. CASE FailDevice(id, LeaseDropped) /\ presented' = presented
  BY <1>1, <1>7, GateLoses, GateStutters DEF FailDevice, LoseDevice
<1>8. CASE /\ Render(frame, t.rev, workGen)
           /\ \/ \E error, c : FailPublication(id, error, c)
              \/ state' = state
  BY <1>1, <1>3, <1>5, <1>8
<1>9. QED
  BY <1>6, <1>7, <1>8 DEF Publish, PublishPrepared

\* Requests and submissions are steps of the gate.
LEMMA SubmissionCallIsGateStep ==
  ASSUME SessionAssumption, Core, Rest, SubmissionCall
  PROVE  GateStep
<1>1. ASSUME NEW id, NEW t, NEW given, Submit(id, t, given) PROVE GateStep
  BY <1>1, EndingIsGateStep, GateStutters DEF Submit
<1>2. ASSUME NEW id, NEW t \in tokens, NEW given, SubmitFrame(id, t, given)
      PROVE  GateStep
  <2>1. CASE EndWithoutAcceptance(id, t, given)
    BY <2>1, EndingIsGateStep
  <2>2. CASE /\ Accepts(id, t, given) /\ highest' = highest
             /\ \E frame \in Frames, fate \in Fates : Publish(id, t, frame, fate)
    BY <2>2, PublishIsGateStep
  <2>3. QED
    BY <1>2, <2>1, <2>2 DEF SubmitFrame
<1>3. QED
  BY <1>1, <1>2, BeginSubmissionIsGateStep DEF SubmissionCall

(* What callers may rely on about scene revisions -- nothing older after     *)
(* something newer, only the newest request while running, nothing after    *)
(* the end -- holds of every session (begin_submission, submit_frame,       *)
(* recover_device, close).                                                 *)
THEOREM SessionImplementsGate == Spec => ImplementsGate
<1>1. Init => Gate!GateInit
  <2>1. SUFFICES ASSUME Init PROVE Gate!GateInit
    OBVIOUS
  <2>2. Phase = "new"
    BY <2>1, PhaseOf DEF Init
  <2>3. QED
    BY <2>1, <2>2 DEF Init, Gate!GateInit, Gate!Unseen, NothingPresented, NoRevision
<1>2. IInv /\ [Next]_vars => [Gate!GateNext]_(Gate!gateVars)
  <2>1. SUFFICES ASSUME IInv, [Next]_vars PROVE GateStep
    BY DEF GateStep
  <2>2. Core /\ Rest
    BY <2>1, Halves
  <2>3. CASE UNCHANGED vars
    BY <2>3, GateStutters DEF vars
  <2>4. CASE Next
    BY <2>2, <2>4, LifecycleIsGateStep, SurfaceCallIsGateStep, SubmissionCallIsGateStep,
       SessionAssumption DEF Next
  <2>5. QED
    BY <2>1, <2>3, <2>4
<1>3. QED
  BY <1>1, <1>2, SessionIsSound, PTL DEF Spec, ImplementsGate, Gate!GateSpec

-----------------------------------------------------------------------------
(* The window                                                             *)

\* The core's own part of the type invariant.
CoreTypeOK ==
  /\ coreSize \in Sizes
  /\ condition \in SurfaceConditions
  /\ revision \in Revisions
  /\ closed \in BOOLEAN
  /\ noted \in BOOLEAN

\* What a step does to the session: one of its operations, or an answer of the
\* core that leaves the session as it is.
SessionStep == [Next]_vars \/ \E r \in Results : Answer(r)

CoreIsSound == CoreTypeOK /\ OnlyNotesSkip /\ ClosedTogether

-----------------------------------------------------------------------------
(* A session step keeps the session's invariant.                           *)
LEMMA SessionStepKeeps ==
  ASSUME IInv, SessionStep
  PROVE  IInv'
<1>1. CASE [Next]_vars
  BY <1>1, NextKeeps, SessionAssumption, CacheAssumption
<1>2. CASE \E r \in Results : Answer(r)
  BY <1>2, AnswerKeeps, Halves
<1> QED
  BY <1>1, <1>2 DEF SessionStep

LEMMA SessionStepIsGateStep ==
  ASSUME IInv, SessionStep
  PROVE  GateStep
<1>1. Core /\ Rest
  BY Halves
<1>2. CASE UNCHANGED vars
  BY <1>2, GateStutters DEF vars
<1>3. CASE Next
  BY <1>1, <1>3, LifecycleIsGateStep, SurfaceCallIsGateStep, SubmissionCallIsGateStep,
     SessionAssumption DEF Next
<1>4. CASE \E r \in Results : Answer(r)
  BY <1>4, AnswerIsGateStep
<1> QED
  BY <1>2, <1>3, <1>4 DEF SessionStep

-----------------------------------------------------------------------------
(* The core's handlers                                                     *)

\* The core's surface is the session's only one.
LEMMA SurfaceIsKnown == Surface \in SurfaceIds /\ WantedSize \in Sizes
BY WindowAssumption

LEMMA AnswerIsCoreStep ==
  ASSUME CoreIsSound, NEW r \in Results, Answer(r),
         UNCHANGED <<coreSize, revision, closed>>,
         condition' \in SurfaceConditions, noted' \in BOOLEAN,
         condition' # "Ready" => noted'
  PROVE  SessionStep /\ CoreIsSound'
BY DEF SessionStep, Answer, CoreIsSound, CoreTypeOK, OnlyNotesSkip, ClosedTogether

LEMMA RefusalIsCoreStep ==
  ASSUME CoreIsSound, RefuseClosed
  PROVE  SessionStep /\ CoreIsSound'
<1>1. "Closed" \in Results
  BY DEF Results, Errors
<1> QED
  BY <1>1, AnswerIsCoreStep DEF RefuseClosed, coreVars, CoreIsSound, CoreTypeOK,
     OnlyNotesSkip

LEMMA EnteringIsCoreStep ==
  ASSUME CoreIsSound, EnterLoop, UNCHANGED coreVars
  PROVE  SessionStep /\ CoreIsSound'
<1>1. SessionStep
  BY DEF SessionStep, Next, LifecycleCall
<1>2. surf' = surf /\ (state' = "Closed" <=> state = "Closed")
  BY DEF EnterLoop, Answer, Live
<1> QED
  BY <1>1, <1>2 DEF CoreIsSound, CoreTypeOK, OnlyNotesSkip, ClosedTogether, coreVars

LEMMA CreatingIsCoreStep ==
  ASSUME IInv, CoreIsSound, CreateSurface(Surface, WantedSize), UNCHANGED coreVars
  PROVE  SessionStep /\ CoreIsSound'
<1>1. SessionStep
  BY SurfaceIsKnown DEF SessionStep, Next, SurfaceCall
<1>2. surf \in [SurfaceIds -> SurfaceStates \cup {"Absent"}]
  BY DEF IInv, TypeOK
<1>3. state' = state /\ surf'[Surface] \in {surf[Surface], "Active"}
  BY <1>2, SurfaceIsKnown DEF CreateSurface, Answer
<1> QED
  BY <1>1, <1>3 DEF CoreIsSound, CoreTypeOK, OnlyNotesSkip, ClosedTogether, coreVars

LEMMA ResizingIsCoreStep ==
  ASSUME IInv, CoreIsSound, NEW s \in Sizes, ApplyResize(s)
  PROVE  SessionStep /\ CoreIsSound'
<1>1. CASE RefuseClosed
  BY <1>1, RefusalIsCoreStep
<1>2. CASE /\ Resize(Surface, s)
           /\ coreSize' = IF Failed THEN coreSize ELSE s
           /\ UNCHANGED <<condition, revision, closed, noted>>
  <2>1. SessionStep
    BY <1>2, SurfaceIsKnown DEF SessionStep, Next, SurfaceCall
  <2>2. surf \in [SurfaceIds -> SurfaceStates \cup {"Absent"}]
    BY DEF IInv, TypeOK
  <2>3. /\ state' = state
        /\ surf'[Surface] \in {surf[Surface], "ReconfigurePending"}
    BY <1>2, <2>2, SurfaceIsKnown DEF Resize, Answer
  <2>4. Refusal(Surface) \in Errors
    BY DEF IInv, TypeOK, SessionStates, Refusal, StateError, Live, Errors
  <2>5. coreSize' \in Sizes
    BY <1>2, <2>4 DEF Resize, Answer, Failed, Errors, CoreIsSound, CoreTypeOK
  <2> QED
    BY <1>2, <2>1, <2>3, <2>5 DEF CoreIsSound, CoreTypeOK, OnlyNotesSkip, ClosedTogether
<1> QED
  BY <1>1, <1>2 DEF ApplyResize

LEMMA NotingIsCoreStep ==
  ASSUME CoreIsSound, NEW c \in SurfaceConditions, ApplyCondition(c)
  PROVE  SessionStep /\ CoreIsSound'
<1>1. "Ok" \in Results
  BY DEF Results
<1> QED
  BY <1>1, RefusalIsCoreStep, AnswerIsCoreStep DEF ApplyCondition

LEMMA ClosingIsCoreStep ==
  ASSUME IInv, CoreIsSound, RequestClose
  PROVE  /\ SessionStep /\ CoreIsSound'
         /\ result' \in {"AlreadyClosed", "CloseRequested"}
<1>1. CASE Answer("AlreadyClosed") /\ UNCHANGED coreVars
  <2>1. "AlreadyClosed" \in Results
    BY DEF Results
  <2> QED
    BY <1>1, <2>1, AnswerIsCoreStep DEF coreVars, Answer, CoreIsSound, CoreTypeOK,
       OnlyNotesSkip
<1>2. CASE Close /\ closed' = TRUE /\ UNCHANGED <<coreSize, condition, revision, noted>>
  <2>1. SessionStep
    BY <1>2 DEF SessionStep, Next, LifecycleCall
  <2>2. surf \in [SurfaceIds -> SurfaceStates \cup {"Absent"}]
    BY DEF IInv, TypeOK
  <2>3. state' = "Closed" /\ surf'[Surface] \in {surf[Surface], "Absent"}
    BY <1>2, <2>2, SurfaceIsKnown DEF Close, Answer, AllSurfaces
  <2> QED
    BY <1>2, <2>1, <2>3
    DEF Close, Answer, CoreIsSound, CoreTypeOK, OnlyNotesSkip, ClosedTogether
<1> QED
  BY <1>1, <1>2 DEF RequestClose

\* A frame that is begun without failing has been given its token.
LEMMA BeginningIsCoreStep ==
  ASSUME IInv, CoreIsSound, BeginFrame
  PROVE  /\ SessionStep /\ CoreIsSound'
         /\ ~Failed => result' = "TokenIssued" /\ FrameToken' \in tokens'
<1>1. CASE RefuseClosed
  <2>1. Failed
    BY <1>1 DEF RefuseClosed, Answer, Failed, Errors
  <2> QED
    BY <1>1, <2>1, RefusalIsCoreStep
<1>2. CASE BeginSubmission(revision) /\ UNCHANGED coreVars
  <2>1. revision \in Revisions
    BY DEF CoreIsSound, CoreTypeOK
  <2>2. SessionStep
    BY <1>2, <2>1 DEF SessionStep, Next, SubmissionCall
  <2>3. state' = state /\ surf' = surf /\ workGen' = workGen /\ devGen' = devGen
    BY <1>2 DEF BeginSubmission, Answer
  <2>4. StateError \in Errors \/ state = "Running"
    BY DEF IInv, TypeOK, SessionStates, StateError, Errors
  <2>5. ~Failed => /\ result' = "TokenIssued"
                   /\ [rev |-> revision, work |-> workGen, dev |-> devGen] \in tokens'
    BY <1>2, <2>4 DEF BeginSubmission, Answer, Failed, Errors
  <2>6. FrameToken' = [rev |-> revision, work |-> workGen, dev |-> devGen]
    BY <1>2, <2>3 DEF FrameToken, coreVars
  <2>7. CoreIsSound'
    BY <1>2, <2>3 DEF CoreIsSound, CoreTypeOK, OnlyNotesSkip, ClosedTogether, coreVars
  <2> QED
    BY <2>2, <2>5, <2>6, <2>7
<1> QED
  BY <1>1, <1>2 DEF BeginFrame

LEMMA FollowingIsRevision ==
  ASSUME NEW r \in Revisions
  PROVE  Following(r) \in Revisions
BY WindowAssumption DEF Following

\* A submission takes the note with it, and skips only where there was one.
LEMMA SubmittingIsCoreStep ==
  ASSUME IInv, CoreIsSound, FrameToken \in tokens, SubmitFrameOfWindow
  PROVE  /\ SessionStep /\ CoreIsSound'
         /\ result' = "Skipped" => noted
<1>1. /\ condition \in SurfaceConditions /\ revision \in Revisions
      /\ condition # "Ready" => noted
      /\ surf[Surface] # "Suspended"
  BY DEF CoreIsSound, CoreTypeOK, OnlyNotesSkip
<1>2. /\ Submit(Surface, FrameToken, condition)
      /\ condition' = "Ready" /\ noted' = FALSE
      /\ revision' \in Revisions
      /\ UNCHANGED <<coreSize, closed>>
  BY <1>1, FollowingIsRevision DEF SubmitFrameOfWindow, ConsumeCondition
<1>3. SessionStep
  BY <1>1, <1>2, SurfaceIsKnown DEF SessionStep, Next, SubmissionCall
<1>4. surf \in [SurfaceIds -> SurfaceStates \cup {"Absent"}]
  BY DEF IInv, TypeOK
<1>5. state' = state /\ surf'[Surface] \in {surf[Surface], "Active"}
  BY <1>2, <1>4, SurfaceIsKnown DEF Submit, EndWithoutAcceptance, Answer, Activated
<1>6. result' = "Skipped" => Skips(Surface, condition)
  <2>1. StateError # "Skipped" /\ AcceptOutcome(Surface) # "Skipped"
    BY DEF IInv, TypeOK, SessionStates, StateError, AcceptOutcome
  <2> QED
    BY <1>2, <2>1 DEF Submit, EndWithoutAcceptance, Answer
<1>7. CoreIsSound'
  BY <1>1, <1>2, <1>5
  DEF CoreIsSound, CoreTypeOK, OnlyNotesSkip, ClosedTogether, SurfaceConditions
<1> QED
  BY <1>1, <1>3, <1>6, <1>7 DEF Skips

-----------------------------------------------------------------------------
(* The steps of the loop                                                    *)
HostTypeOK ==
  /\ driver \in {"winit", "stub"}
  /\ step \in {"Staged", "Entered", "Core", "Idle", "Begun", "Recorded", "Done"}
  /\ exiting \in BOOLEAN /\ openError \in BOOLEAN
  /\ closing \in {"None", "Closed", "AlreadyClosed"}
  /\ transport \in WindowPixels /\ pixels \in WindowPixels
  /\ redraw \in BOOLEAN
  /\ events \in Seq([kind : EventKinds, size : WindowPixels])
  /\ answer \in {"None", "Error", "Closed", "AlreadyClosed"}

LEMMA Parts ==
  /\ WindowIInv <=> IInv /\ CoreIsSound /\ HostTypeOK /\ BegunHasToken
  /\ WindowIInv' <=> IInv' /\ CoreIsSound' /\ HostTypeOK' /\ BegunHasToken'
BY DEF WindowIInv, WindowTypeOK, CoreIsSound, CoreTypeOK, HostTypeOK

StepIsSound ==
  /\ SessionStep
  /\ CoreIsSound' /\ HostTypeOK' /\ BegunHasToken'
  /\ step = "Begun" /\ result' = "Skipped" => noted

\* Steps in which neither the core nor its session takes part.
LEMMA OutsideIsSound ==
  ASSUME WindowIInv, HostTypeOK', UNCHANGED <<sessionVars, coreVars>>,
         step' # "Begun" \/ step' = step
  PROVE  StepIsSound
<1>1. UNCHANGED vars /\ UNCHANGED coreVars
  BY DEF sessionVars
<1>2. CoreIsSound /\ BegunHasToken
  BY Parts
<1>3. SessionStep
  BY <1>1 DEF SessionStep
<1>4. CoreIsSound'
  BY <1>1, <1>2 DEF CoreIsSound, CoreTypeOK, OnlyNotesSkip, ClosedTogether, coreVars, vars
<1>5. BegunHasToken' /\ (step = "Begun" /\ result' = "Skipped" => noted)
  BY <1>1, <1>2 DEF BegunHasToken, FrameToken, coreVars, vars
<1> QED
  BY <1>3, <1>4, <1>5 DEF StepIsSound

LEMMA OpenIsSound ==
  ASSUME WindowIInv, Open
  PROVE  StepIsSound
<1>1. IInv /\ CoreIsSound /\ HostTypeOK
  BY Parts
<1>2. CASE EnterCore
  BY <1>1, <1>2, EnteringIsCoreStep
  DEF EnterCore, screenVars, hostVars, StepIsSound, HostTypeOK, BegunHasToken
<1>3. CASE OpenCore
  BY <1>1, <1>3, CreatingIsCoreStep
  DEF OpenCore, screenVars, hostVars, StepIsSound, HostTypeOK, BegunHasToken
<1>4. CASE OpenWindow
  <2>1. /\ step' = "Idle" /\ UNCHANGED <<driver, events, closing, answer>>
        /\ UNCHANGED <<sessionVars, coreVars>>
        /\ exiting' \in BOOLEAN /\ openError' \in BOOLEAN /\ redraw' \in BOOLEAN
        /\ pixels' \in WindowPixels
    BY <1>1, <1>4 DEF OpenWindow, HostTypeOK
  <2>2. transport' \in WindowPixels
    BY <1>1, <1>4, SurfaceIsKnown DEF OpenWindow, TransportSize, WindowPixels, HostTypeOK
  <2>3. HostTypeOK'
    BY <1>1, <2>1, <2>2 DEF HostTypeOK
  <2> QED
    BY <2>1, <2>3, OutsideIsSound
<1>5. CASE StartStub
  <2>1. HostTypeOK'
    BY <1>1, <1>5 DEF StartStub, HostTypeOK, screenVars, hostVars
  <2> QED
    BY <1>5, <2>1, OutsideIsSound DEF StartStub
<1> QED
  BY <1>2, <1>3, <1>4, <1>5 DEF Open

\* What is queued is an event, and what follows it a queue.
LEMMA QueuesOfEvents ==
  ASSUME HostTypeOK, events # <<>>
  PROVE  /\ Head(events) \in [kind : EventKinds, size : WindowPixels]
         /\ Tail(events) \in Seq([kind : EventKinds, size : WindowPixels])
<1> DEFINE Kept == [kind : EventKinds, size : WindowPixels]
<1>1. events \in Seq(Kept)
  BY DEF HostTypeOK
<1> HIDE DEF Kept
<1>2. Head(events) \in Kept /\ Tail(events) \in Seq(Kept)
  BY <1>1
<1> QED
  BY <1>2 DEF Kept

\* A queue with one more event, and the empty one.
LEMMA QueuesGrow ==
  LET Kept == [kind : EventKinds, size : WindowPixels]
  IN /\ <<>> \in Seq(Kept)
     /\ \A e \in Kept : HostTypeOK => Append(events, e) \in Seq(Kept)
<1> DEFINE Kept == [kind : EventKinds, size : WindowPixels]
<1>1. HostTypeOK => events \in Seq(Kept)
  BY DEF HostTypeOK
<1> HIDE DEF Kept
<1>2. <<>> \in Seq(Kept) /\ \A e \in Kept : HostTypeOK => Append(events, e) \in Seq(Kept)
  BY <1>1
<1> QED
  BY <1>2 DEF Kept

LEMMA ClosingWindowIsSound ==
  ASSUME IInv, CoreIsSound, HostTypeOK, CloseWindow
  PROVE  /\ SessionStep /\ CoreIsSound'
         /\ exiting' \in BOOLEAN /\ closing' \in {"None", "Closed", "AlreadyClosed"}
BY ClosingIsCoreStep DEF CloseWindow, TranslateClose

LEMMA AdoptingIsSound ==
  ASSUME IInv, CoreIsSound, HostTypeOK, NEW p \in WindowPixels, AdoptSize(p)
  PROVE  /\ SessionStep /\ CoreIsSound'
         /\ exiting' \in BOOLEAN /\ closing' \in {"None", "Closed", "AlreadyClosed"}
         /\ redraw' \in BOOLEAN
<1>1. CASE p \in Sizes /\ ApplyResize(p) /\ TranslateEvent
  BY <1>1, ResizingIsCoreStep DEF AdoptSize, TranslateEvent, HostTypeOK
<1>2. CASE CloseWindow
  BY <1>2, ClosingWindowIsSound DEF AdoptSize
<1> QED
  BY <1>1, <1>2 DEF AdoptSize

LEMMA DeliverIsSound ==
  ASSUME WindowIInv, Deliver
  PROVE  StepIsSound
<1>1. IInv /\ CoreIsSound /\ HostTypeOK
  BY Parts
<1>2. /\ step = "Idle" /\ step' = "Idle"
      /\ UNCHANGED <<driver, openError, answer, transport, pixels>>
      /\ events # <<>> /\ events' = Tail(events)
  BY DEF Deliver, OnResized, OnScaleChanged, OnOccluded, OnClose, Delivering, screenVars
<1>3. /\ Head(events).size \in WindowPixels /\ pixels \in WindowPixels
      /\ events' \in Seq([kind : EventKinds, size : WindowPixels])
  BY <1>1, <1>2, QueuesOfEvents DEF HostTypeOK
<1>4. /\ SessionStep /\ CoreIsSound'
      /\ exiting' \in BOOLEAN /\ closing' \in {"None", "Closed", "AlreadyClosed"}
      /\ redraw' \in BOOLEAN
  <2>1. CASE OnResized \/ OnScaleChanged
    BY <1>1, <1>3, <2>1, AdoptingIsSound DEF OnResized, OnScaleChanged
  <2>2. CASE OnOccluded
    <3>1. \/ ApplyCondition("Occluded")
          \/ ApplyCondition("Ready")
      BY <2>2 DEF OnOccluded
    <3>2. "Occluded" \in SurfaceConditions /\ "Ready" \in SurfaceConditions
      BY DEF SurfaceConditions
    <3>3. SessionStep /\ CoreIsSound'
      BY <1>1, <3>1, <3>2, NotingIsCoreStep
    <3> QED
      BY <1>1, <2>2, <3>3 DEF OnOccluded, TranslateEvent, HostTypeOK
  <2>3. CASE OnClose
    BY <1>1, <2>3, ClosingWindowIsSound DEF OnClose, HostTypeOK
  <2> QED
    BY <2>1, <2>2, <2>3 DEF Deliver
<1>5. HostTypeOK'
  BY <1>1, <1>2, <1>3, <1>4 DEF HostTypeOK
<1> QED
  BY <1>2, <1>4, <1>5 DEF StepIsSound, BegunHasToken

LEMMA RedrawIsSound ==
  ASSUME WindowIInv, HandleRedraw
  PROVE  StepIsSound
<1>1. IInv /\ CoreIsSound /\ HostTypeOK /\ BegunHasToken
  BY Parts
<1>2. CASE OnRedraw
  <2>1. /\ step = "Idle" /\ step' = IF Failed THEN "Recorded" ELSE "Begun"
        /\ BeginFrame /\ TranslateEvent /\ redraw' = FALSE
        /\ UNCHANGED <<driver, openError, answer, events, transport, pixels>>
    BY <1>2 DEF OnRedraw, screenVars
  <2>2. /\ SessionStep /\ CoreIsSound'
        /\ ~Failed => result' = "TokenIssued" /\ FrameToken' \in tokens'
    BY <1>1, <2>1, BeginningIsCoreStep
  <2>3. HostTypeOK'
    BY <1>1, <2>1 DEF HostTypeOK, TranslateEvent
  <2>4. BegunHasToken'
    BY <2>1, <2>2 DEF BegunHasToken
  <2> QED
    BY <2>1, <2>2, <2>3, <2>4 DEF StepIsSound
<1>3. CASE OnRedrawSubmit
  <2>1. /\ step = "Begun" /\ step' = "Recorded"
        /\ SubmitFrameOfWindow /\ TranslateEvent
        /\ UNCHANGED <<driver, openError, answer, redraw, events, transport, pixels>>
    BY <1>3 DEF OnRedrawSubmit, screenVars
  <2>2. SessionStep /\ CoreIsSound' /\ (result' = "Skipped" => noted)
    BY <1>1, <2>1, SubmittingIsCoreStep DEF BegunHasToken
  <2>3. HostTypeOK'
    BY <1>1, <2>1 DEF HostTypeOK, TranslateEvent
  <2> QED
    BY <2>1, <2>2, <2>3 DEF StepIsSound, BegunHasToken
<1>4. CASE OnRedrawPresent
  <2>1. /\ step' = "Idle" /\ UNCHANGED <<sessionVars, coreVars>>
        /\ UNCHANGED <<driver, redraw, events, pixels, openError, closing, answer>>
        /\ exiting' \in BOOLEAN /\ transport' \in {transport, pixels}
    BY <1>1, <1>4 DEF OnRedrawPresent, EnsureSize, hostVars, HostTypeOK
  <2>2. HostTypeOK'
    BY <1>1, <2>1 DEF HostTypeOK
  <2> QED
    BY <2>1, <2>2, OutsideIsSound
<1> QED
  BY <1>2, <1>3, <1>4 DEF HandleRedraw

LEMMA FinishIsSound ==
  ASSUME WindowIInv, Finish
  PROVE  StepIsSound
<1>1. HostTypeOK
  BY Parts
<1>2. HostTypeOK'
  BY <1>1 DEF Finish, HostTypeOK, screenVars
<1>3. step' = "Done" /\ UNCHANGED <<sessionVars, coreVars>>
  BY DEF Finish
<1> QED
  BY <1>2, <1>3, OutsideIsSound

LEMMA StubIsSound ==
  ASSUME WindowIInv, RunStub
  PROVE  StepIsSound
<1>1. IInv /\ CoreIsSound /\ HostTypeOK /\ BegunHasToken
  BY Parts
<1>2. UNCHANGED <<driver, exiting, redraw, transport, pixels, openError, closing, answer>>
  BY DEF RunStub, screenVars, hostVars
<1>3. CASE StubHandles /\ step' = IF Failed THEN "Done" ELSE "Idle"
  <2>1. step = "Idle" /\ events # <<>> /\ events' = Tail(events)
    BY <1>3 DEF StubHandles, StubEvent
  <2>2. SessionStep /\ CoreIsSound'
    <3>1. \/ \E s \in Sizes : ApplyResize(s)
          \/ \E c \in SurfaceConditions : ApplyCondition(c)
          \/ RequestClose
      BY <1>3 DEF StubHandles, SurfaceConditions
    <3> QED
      BY <1>1, <3>1, ResizingIsCoreStep, NotingIsCoreStep, ClosingIsCoreStep
  <2>3. HostTypeOK'
    BY <1>1, <1>2, <1>3, <2>1, QueuesOfEvents DEF HostTypeOK
  <2> QED
    BY <1>3, <2>1, <2>2, <2>3 DEF StepIsSound, BegunHasToken
<1>4. CASE /\ StubEvent("Redraw") /\ BeginFrame
           /\ step' = IF Failed THEN "Done" ELSE "Begun"
  <2>1. step = "Idle" /\ events # <<>> /\ events' = Tail(events)
    BY <1>4 DEF StubEvent
  <2>2. /\ SessionStep /\ CoreIsSound'
        /\ ~Failed => result' = "TokenIssued" /\ FrameToken' \in tokens'
    BY <1>1, <1>4, BeginningIsCoreStep
  <2>3. HostTypeOK'
    BY <1>1, <1>2, <1>4, <2>1, QueuesOfEvents DEF HostTypeOK
  <2>4. BegunHasToken'
    BY <1>4, <2>2 DEF BegunHasToken
  <2> QED
    BY <2>1, <2>2, <2>3, <2>4 DEF StepIsSound
<1>5. CASE /\ step = "Begun" /\ SubmitFrameOfWindow
           /\ step' = IF Failed THEN "Done" ELSE "Idle"
           /\ UNCHANGED events
  <2>1. SessionStep /\ CoreIsSound' /\ (result' = "Skipped" => noted)
    BY <1>1, <1>5, SubmittingIsCoreStep DEF BegunHasToken
  <2>2. HostTypeOK'
    BY <1>1, <1>2, <1>5 DEF HostTypeOK
  <2> QED
    BY <1>5, <2>1, <2>2 DEF StepIsSound, BegunHasToken
<1> QED
  BY <1>3, <1>4, <1>5 DEF RunStub

LEMMA WindowSystemIsSound ==
  ASSUME WindowIInv, WindowSystem
  PROVE  StepIsSound
<1>1. HostTypeOK
  BY Parts
<1>2. UNCHANGED <<sessionVars, driver, step, exiting, coreVars, transport, openError,
                  closing, answer>>
  BY DEF WindowSystem, ResizeByUser, Notify, Expose, WriteStub, screenVars, hostVars
<1>3. /\ pixels' \in WindowPixels /\ redraw' \in BOOLEAN
      /\ \/ events' = events
         \/ \E e \in [kind : EventKinds, size : WindowPixels] : events' = Append(events, e)
  <2>1. /\ \A p \in WindowPixels : Resized(p) \in [kind : EventKinds, size : WindowPixels]
        /\ OsEvents \subseteq [kind : EventKinds, size : WindowPixels]
        /\ StubEvents \subseteq [kind : EventKinds, size : WindowPixels]
    BY SurfaceIsKnown DEF Resized, Plain, OsEvents, StubEvents, EventKinds, WindowPixels
  <2>2. CASE ResizeByUser
    BY <1>1, <2>1, <2>2 DEF ResizeByUser, Queue, HostTypeOK
  <2>3. CASE Notify \/ WriteStub
    BY <1>1, <2>1, <2>3 DEF Notify, WriteStub, Queue, HostTypeOK, screenVars
  <2>4. CASE Expose
    BY <1>1, <2>4 DEF Expose, HostTypeOK, screenVars
  <2> QED
    BY <2>2, <2>3, <2>4 DEF WindowSystem
<1>4. events' \in Seq([kind : EventKinds, size : WindowPixels])
  <2>1. events \in Seq([kind : EventKinds, size : WindowPixels])
    BY <1>1 DEF HostTypeOK
  <2> QED
    BY <1>1, <1>3, <2>1, QueuesGrow, Zenon
<1>5. HostTypeOK'
  BY <1>1, <1>2, <1>3, <1>4 DEF HostTypeOK
<1> QED
  BY <1>2, <1>5, OutsideIsSound

LEMMA WindowStepIsSound ==
  ASSUME WindowIInv, [WindowNext]_allVars
  PROVE  StepIsSound
<1>1. CASE UNCHANGED allVars
  <2>1. HostTypeOK
    BY Parts
  <2>2. HostTypeOK' /\ step' = step /\ UNCHANGED <<sessionVars, coreVars>>
    BY <1>1, <2>1 DEF allVars, windowVars, sessionVars, coreVars, HostTypeOK
  <2> QED
    BY <2>2, OutsideIsSound
<1>2. CASE WindowNext
  BY <1>2, OpenIsSound, DeliverIsSound, RedrawIsSound, FinishIsSound, StubIsSound,
     WindowSystemIsSound DEF WindowNext
<1> QED
  BY <1>1, <1>2

LEMMA WindowInitIsSound ==
  ASSUME WindowInit
  PROVE  WindowIInv
<1>1. IInv
  BY InitIsSound, SessionAssumption, CacheAssumption DEF WindowInit
<1>2. 1 \in Revisions
  BY WindowAssumption
<1>3. CoreIsSound
  BY <1>2, SurfaceIsKnown
  DEF WindowInit, Init, CoreIsSound, CoreTypeOK, OnlyNotesSkip, ClosedTogether,
      SurfaceConditions
<1>4. HostTypeOK /\ BegunHasToken
  <2>1. events \in Seq([kind : EventKinds, size : WindowPixels])
    BY QueuesGrow, Zenon DEF WindowInit
  <2> QED
    BY <2>1 DEF WindowInit, HostTypeOK, BegunHasToken, WindowPixels
<1> QED
  BY <1>1, <1>3, <1>4, Parts

-----------------------------------------------------------------------------
(* The window, its core and its session agree in every reachable state,     *)
(* whatever the window system resizes, occludes and closes between two      *)
(* steps of the loop.                                                       *)
THEOREM WindowIsSound == WindowSpec => []WindowIInv
<1>1. WindowInit => WindowIInv
  BY WindowInitIsSound
<1>2. WindowIInv /\ [WindowNext]_allVars => WindowIInv'
  BY WindowStepIsSound, SessionStepKeeps, Parts DEF StepIsSound
<1> QED
  BY <1>1, <1>2, PTL DEF WindowSpec

(* A skipped frame was noted: an occlusion or a timeout never outlives the  *)
(* submission it was recorded for (request_frame).                          *)
THEOREM NotesNeverLatch == WindowSpec => SkipsNeverLatch
<1>1. WindowIInv /\ [WindowNext]_allVars
      => [step = "Begun" /\ result' = "Skipped" => noted]_allVars
  BY WindowStepIsSound DEF StepIsSound
<1> QED
  BY <1>1, WindowIsSound, PTL DEF WindowSpec, SkipsNeverLatch

(* The core counts itself closed exactly when its session is.               *)
THEOREM WindowAndSessionClose == WindowSpec => []ClosedTogether
<1>1. WindowIInv => ClosedTogether
  BY DEF WindowIInv
<1> QED
  BY <1>1, WindowIsSound, PTL

(* In a window no surface is drawable that its session has not made ready.  *)
THEOREM WindowDrawsWhatIsReady == WindowSpec => []DrawableIsReady
<1>1. WindowIInv => DrawableIsReady
  BY DEF WindowIInv, IInv, TypeOK, SessionStates, RendererFollowsDevice,
     SurfacesFallWithDevice, ActiveIsConfigured, DrawableIsReady, Live
<1> QED
  BY <1>1, WindowIsSound, PTL

(* The window implements the publication gate: through every interleaving   *)
(* of redraws, resizes and closes nothing older is shown after something    *)
(* newer, and nothing after the end.                                        *)
THEOREM WindowImplementsGate == WindowSpec => ImplementsGate
<1>1. WindowInit => Gate!GateInit
  <2> SUFFICES ASSUME WindowInit PROVE Gate!GateInit
    OBVIOUS
  <2>1. Init
    BY DEF WindowInit
  <2>2. Phase = "new"
    BY <2>1, PhaseOf DEF Init
  <2> QED
    BY <2>1, <2>2 DEF Init, Gate!GateInit, Gate!Unseen, NothingPresented, NoRevision
<1>2. WindowIInv /\ [WindowNext]_allVars => [Gate!GateNext]_(Gate!gateVars)
  BY WindowStepIsSound, SessionStepIsGateStep, Parts DEF StepIsSound, GateStep
<1> QED
  BY <1>1, <1>2, WindowIsSound, PTL DEF WindowSpec, ImplementsGate, Gate!GateSpec
=============================================================================
