---------------------------- MODULE EngineSession ----------------------------
(***************************************************************************)
(* The main-thread-owned runtime session (crates/lumenplot-runtime/src/    *)
(* lib.rs): its lifecycle, its logical surfaces, the queue of derived-work *)
(* tickets, the watermarks that reject stale submissions, and the packet   *)
(* owner that leases cache resources around every render.                  *)
(*                                                                         *)
(* A session is neither Send nor re-entered, so each public operation is   *)
(* one step.  The callers (the host loop, the viewer, workers holding old  *)
(* tokens) issue the operations in any order, and the backend may fail at  *)
(* every render and every allocation.                                      *)
(***************************************************************************)
EXTENDS CacheState

CONSTANTS
  SurfaceIds,     \* surface identities the session can hand out
  Sizes,          \* valid surface sizes
  BadSize,        \* a size validate_surface_size rejects
  Revisions,      \* scene revisions the scene owner supplies
  Frames,         \* frames the scene owner publishes
  Renderable,     \* the frames the backend is able to render
  NoFrame,
  MaxFence,       \* the fence sequence at which prepare gives up (u64::MAX)
  MaxPendingWork  \* MAX_PENDING_WORK

ASSUME SessionAssumption ==
  /\ Revisions \subseteq Nat
  /\ BadSize \notin Sizes /\ Sizes # {}
  /\ Renderable \subseteq Frames /\ NoFrame \notin Frames
  /\ MaxFence \in Nat \ {0}
  /\ MaxPendingWork \in Nat \ {0}

VARIABLES
  state,       \* SessionState
  attached,    \* backend_attached: fixed at construction
  renderer,    \* the device generation the renderer is bound to, or NoRenderer
  surf,        \* state of each surface, "Absent" when it does not exist
  size,        \* logical size of each surface
  configured,  \* history: the size at the surface's last (re)configuration
  workGen,     \* work_generation
  devGen,      \* device_generation
  latest,      \* latest_scene_revision
  highest,     \* highest_requested_scene_revision
  pending,     \* tickets of the WorkQueue
  retained,    \* retained_frame and retained_scene_revision
  nextFence,   \* next_fence_sequence
  cache,       \* the packet owner's ResourceCache
  tokens,      \* history: every SubmissionToken the callers may still hold
  presented,   \* history: the last packet the backend rendered
  result       \* what the last operation returned

vars == <<state, attached, renderer, surf, size, configured, workGen, devGen,
          latest, highest, pending, retained, nextFence, cache, tokens,
          presented, result>>

NoRenderer == -1
NoRevision == -1   \* Option::None, below every revision as in Rust
NoRetained == [frame |-> NoFrame, rev |-> NoRevision]
NothingPresented == [frame |-> NoFrame, rev |-> NoRevision, work |-> 0, dev |-> 0]

SessionStates == {"Created", "Running", "DeviceLost", "OutOfMemory", "Closed"}
SurfaceStates == {"Active", "ReconfigurePending", "Suspended", "Lost"}
SurfaceConditions == {"Ready", "Occluded", "Timeout"}
Tickets == [rev : Revisions, work : Generations]
SubmissionTokens == [rev : Revisions, work : Generations, dev : Generations]
OptionalRevisions == Revisions \cup {NoRevision}

\* LifecycleOutcome, LoopOutcome, SubmissionOutcome and RuntimeErrorKind.
Errors == {"InvalidInput", "Closed", "InvalidState", "BackendUnavailable",
           "HostLoopMisuse", "DeviceLost", "RecoveryFailed", "OutOfMemory",
           "ResourceInvalid", "Internal"}
Results == Errors \cup
  {"Ok", "LoopEntered", "Created", "Resized", "Suspended", "AlreadySuspended",
   "Resumed", "AlreadyActive", "SurfaceLost", "AlreadyLost", "SurfaceRecreated",
   "DeviceLossRecorded", "AlreadyDeviceLost", "DeviceRebuilt",
   "TerminalOutOfMemory", "AlreadyOutOfMemory", "CloseRequested",
   "AlreadyClosed", "TokenIssued", "Ready", "Reconfigured", "Skipped",
   "StaleDropped"}

TypeOK ==
  /\ state \in SessionStates
  /\ attached \in BOOLEAN
  /\ renderer \in Generations \cup {NoRenderer}
  /\ surf \in [SurfaceIds -> SurfaceStates \cup {"Absent"}]
  /\ size \in [SurfaceIds -> Sizes]
  /\ configured \in [SurfaceIds -> Sizes]
  /\ workGen \in Generations
  /\ devGen \in Generations
  /\ latest \in OptionalRevisions
  /\ highest \in OptionalRevisions
  /\ pending \subseteq Tickets
  /\ retained \in [frame : Frames \cup {NoFrame}, rev : OptionalRevisions]
  /\ nextFence \in 1 .. MaxFence
  /\ cache \in Caches
  /\ tokens \subseteq SubmissionTokens
  /\ presented \in [frame : Frames \cup {NoFrame}, rev : OptionalRevisions,
                    work : Generations, dev : Generations]
  /\ result \in Results

Init ==
  /\ state = "Created"
  /\ attached \in BOOLEAN
  /\ renderer = IF attached THEN 0 ELSE NoRenderer
  /\ surf = [id \in SurfaceIds |-> "Absent"]
  /\ size \in [SurfaceIds -> {CHOOSE s \in Sizes : TRUE}]
  /\ configured = size
  /\ workGen = 0
  /\ devGen = 0
  /\ latest = NoRevision
  /\ highest = NoRevision
  /\ pending = {}
  /\ retained = NoRetained
  /\ nextFence = 1
  /\ cache = EmptyCache(0, 0)
  /\ tokens = {}
  /\ presented = NothingPresented
  /\ result = "Ok"

-----------------------------------------------------------------------------
(* Answers that leave the session as it is. *)
Answer(r) ==
  /\ result' = r
  /\ UNCHANGED <<state, attached, renderer, surf, size, configured, workGen,
                 devGen, latest, highest, pending, retained, nextFence, cache,
                 tokens, presented>>

Live == state \in {"Created", "Running"}

\* ensure_not_terminal and ensure_running: the error of a state that refuses.
StateError == IF state = "Created" THEN "InvalidState" ELSE state

Exists(id) == surf[id] # "Absent"

Refusal(id) == IF Live THEN "ResourceInvalid" ELSE StateError

AllSurfaces(to) ==
  [id \in SurfaceIds |-> IF Exists(id) THEN to ELSE "Absent"]

\* Mutant of CommitWorkGeneration: cancel_except is forgotten.
AdoptWorkGeneration ==
  /\ workGen' = workGen + 1
  /\ pending' = pending

\* commit_work_generation: cancel_except the new generation, then adopt it.
CommitWorkGeneration ==
  /\ workGen' = workGen + 1
  /\ pending' = {t \in pending : t.work = workGen + 1}

-----------------------------------------------------------------------------
(* run_native_loop and pump_once: entering the declared loop boundary. *)
EnterLoop ==
  \/ /\ Live
     /\ state' = "Running"
     /\ result' = "LoopEntered"
     /\ UNCHANGED <<attached, renderer, surf, size, configured, workGen, devGen,
                    latest, highest, pending, retained, nextFence, cache,
                    tokens, presented>>
  \/ /\ ~Live
     /\ Answer(StateError)
  \/ Answer("HostLoopMisuse")    \* the entry of the other loop mode

\* create_surface: identities are handed out once, so id is any unused one.
CreateSurface(id, s) ==
  \/ /\ ~Live
     /\ Answer(StateError)
  \/ /\ Live /\ s = BadSize
     /\ Answer("InvalidInput")
  \/ /\ Live /\ s # BadSize
     /\ \A other \in SurfaceIds : Exists(other)       \* MAX_SURFACES
     /\ Answer("ResourceInvalid")
  \/ /\ Live /\ s # BadSize
     /\ ~Exists(id)
     /\ surf' = [surf EXCEPT ![id] = "Active"]
     /\ size' = [size EXCEPT ![id] = s]
     /\ configured' = [configured EXCEPT ![id] = s]
     /\ result' = "Created"
     /\ UNCHANGED <<state, attached, renderer, workGen, devGen, latest, highest,
                    pending, retained, nextFence, cache, tokens, presented>>

Resize(id, s) ==
  \/ /\ Live /\ s = BadSize
     /\ Answer("InvalidInput")
  \/ /\ ~Live \/ (s # BadSize /\ ~Exists(id))
     /\ Answer(Refusal(id))
  \/ /\ Live /\ s # BadSize /\ Exists(id)
     /\ workGen = MaxGeneration
     /\ Answer("Internal")
  \/ /\ Live /\ s # BadSize /\ Exists(id)
     /\ workGen < MaxGeneration
     /\ CommitWorkGeneration
     /\ size' = [size EXCEPT ![id] = s]
     /\ surf' = IF surf[id] \in {"Suspended", "Lost"}
                THEN surf
                ELSE [surf EXCEPT ![id] = "ReconfigurePending"]
     /\ result' = "Resized"
     /\ UNCHANGED <<state, attached, renderer, configured, devGen, latest,
                    highest, retained, nextFence, cache, tokens, presented>>

(* The common tail of suspend, resume, handle_surface_loss and
   recreate_surface: a real transition starts a new work generation. *)
MoveSurface(id, to, outcome) ==
  \/ /\ workGen = MaxGeneration
     /\ Answer("Internal")
  \/ /\ workGen < MaxGeneration
     /\ CommitWorkGeneration
     /\ surf' = [surf EXCEPT ![id] = to]
     /\ result' = outcome
     /\ UNCHANGED <<state, attached, renderer, size, configured, devGen, latest,
                    highest, retained, nextFence, cache, tokens, presented>>

RefuseSurface(id) ==
  /\ ~Live \/ ~Exists(id)
  /\ Answer(Refusal(id))

Suspend(id) ==
  \/ RefuseSurface(id)
  \/ Live /\ surf[id] = "Suspended" /\ Answer("AlreadySuspended")
  \/ Live /\ surf[id] = "Lost" /\ Answer("ResourceInvalid")
  \/ Live /\ surf[id] \in {"Active", "ReconfigurePending"}
          /\ MoveSurface(id, "Suspended", "Suspended")

Resume(id) ==
  \/ RefuseSurface(id)
  \/ Live /\ surf[id] = "Suspended"
          /\ MoveSurface(id, "ReconfigurePending", "Resumed")
  \/ Live /\ surf[id] = "Lost" /\ Answer("ResourceInvalid")
  \/ Live /\ surf[id] \in {"Active", "ReconfigurePending"} /\ Answer("AlreadyActive")

HandleSurfaceLoss(id) ==
  \/ RefuseSurface(id)
  \/ Live /\ surf[id] = "Lost" /\ Answer("AlreadyLost")
  \/ Live /\ Exists(id) /\ surf[id] # "Lost" /\ MoveSurface(id, "Lost", "SurfaceLost")

RecreateSurface(id) ==
  \/ RefuseSurface(id)
  \/ Live /\ Exists(id) /\ surf[id] # "Lost" /\ Answer("InvalidState")
  \/ Live /\ surf[id] = "Lost"
          /\ MoveSurface(id, "ReconfigurePending", "SurfaceRecreated")

-----------------------------------------------------------------------------
(* What device loss and terminal memory exhaustion do to the session, with  *)
(* c the cache as the operation leaves it.  Callers constrain the rest.    *)
CanLoseDevice == workGen < MaxGeneration /\ devGen < MaxGeneration

LoseDevice(c) ==
  /\ CommitWorkGeneration
  /\ devGen' = devGen + 1
  /\ cache' = InvalidateTo(c, devGen + 1)
  /\ state' = "DeviceLost"
  /\ renderer' = NoRenderer
  /\ surf' = AllSurfaces("Lost")

ExhaustMemory(c) ==
  /\ pending' = {}
  /\ state' = "OutOfMemory"
  /\ renderer' = NoRenderer
  /\ cache' = InvalidateTo(c, devGen)
  /\ surf' = AllSurfaces("Lost")

HandleDeviceLoss ==
  \/ /\ state \in {"Closed", "OutOfMemory"}
     /\ Answer(StateError)
  \/ /\ state = "DeviceLost"
     /\ Answer("AlreadyDeviceLost")
  \/ /\ Live /\ ~CanLoseDevice
     /\ Answer("Internal")
  \/ /\ Live /\ CanLoseDevice
     /\ LoseDevice(cache)
     /\ result' = "DeviceLossRecorded"
     /\ UNCHANGED <<attached, size, configured, latest, highest, retained,
                    nextFence, tokens, presented>>

HandleOutOfMemory ==
  \/ /\ state = "Closed"
     /\ Answer(StateError)
  \/ /\ state = "OutOfMemory"
     /\ Answer("AlreadyOutOfMemory")
  \/ /\ state \in {"Created", "Running", "DeviceLost"}
     /\ ExhaustMemory(cache)
     /\ result' = "TerminalOutOfMemory"
     /\ UNCHANGED <<attached, size, configured, workGen, devGen, latest, highest,
                    retained, nextFence, tokens, presented>>

Close ==
  \/ /\ state = "Closed"
     /\ Answer("AlreadyClosed")
  \/ /\ state # "Closed"
     /\ state' = "Closed"
     /\ pending' = {}
     /\ renderer' = NoRenderer
     /\ surf' = AllSurfaces("Absent")
     /\ result' = "CloseRequested"
     /\ UNCHANGED <<attached, size, configured, workGen, devGen, latest, highest,
                    retained, nextFence, cache, tokens, presented>>

-----------------------------------------------------------------------------
(* The packet owner.  A packet names every resource of its (fixed) resource *)
(* table; it is built and leased for the session's current device.         *)
(* What the environment decides about one publication: whether the packet   *)
(* builds, what the backend answers to the render, and whether the commit  *)
(* finds memory for its completion record.  Kinds that act alike are one:  *)
(* "ResourceInvalid" stands for every packet error but want of memory,     *)
(* "Internal" for every renderer error but device loss and want of memory. *)
Built(error) == [built |-> error, rendered |-> "Ok", allocated |-> TRUE]
Rendered(answer) == [built |-> "Ok", rendered |-> answer, allocated |-> TRUE]
Fates ==
  {Built("ResourceInvalid"), Built("OutOfMemory")}
    \cup {Rendered(a) : a \in {"Ok", "DeviceLost", "OutOfMemory", "Internal"}}
    \cup {[built |-> "Ok", rendered |-> "Ok", allocated |-> FALSE]}

\* The backend rejects a frame it cannot render, or one of another device.
CanRender(frame, bound) == frame \in Renderable /\ bound = devGen

Answers(frame, bound, fate) == fate.rendered = "Ok" => CanRender(frame, bound)

\* map_resource_error
ErrorOf(refusal) ==
  CASE refusal = "Ok" -> "Ok"
    [] refusal = "DeviceGenerationMismatch" -> "DeviceLost"
    [] refusal = "AllocationFailed" -> "OutOfMemory"
    [] OTHER -> "ResourceInvalid"

\* prepare: the fence check, the packet build and the lease, in that order.
PrepareError(built) ==
  IF nextFence = MaxFence THEN "Internal"
  ELSE IF built # "Ok" THEN built
  ELSE ErrorOf(AcquireRefusal(cache, devGen, TRUE, TRUE, Resources))

Leased == AcquireInto(cache, Resources)
Lease == LeaseOf(cache, Resources)
\* Mutant of LeaseDropped: an error path forgets the lease.
LeaseForgotten == Leased

LeaseDropped == DropLease(Leased, Lease)

\* commit: submit the lease under the prepared fence, then complete it.
CommitError(allocated) ==
  LET refusal == SubmitRefusal(Leased, Lease, devGen, nextFence, allocated) IN
  IF refusal # "Ok"
  THEN ErrorOf(refusal)
  ELSE ErrorOf(CompleteRefusal(SubmitInto(Leased, Lease, nextFence), devGen, nextFence))

\* Mutant of Committed: the completion is never signalled.
SubmittedOnly == SubmitInto(Leased, Lease, nextFence)

Committed == CompleteInto(SubmitInto(Leased, Lease, nextFence), nextFence)

Render(frame, rev, work) ==
  presented' = [frame |-> frame, rev |-> rev, work |-> work, dev |-> devGen]

-----------------------------------------------------------------------------
(* recover_device: rebuild the renderer and replay the retained frame.  The *)
(* work generation moves as soon as a replacement renderer exists, whether *)
(* or not the replay succeeds.                                             *)
FailRecovery(error, c) ==
  /\ result' = error
  /\ workGen' = workGen + 1
  /\ UNCHANGED <<devGen, attached, size, configured, latest, highest, retained,
                 nextFence, tokens>>
  /\ \/ /\ error = "OutOfMemory"
        /\ ExhaustMemory(c)
     \/ /\ error # "OutOfMemory"
        /\ CommitWorkGeneration
        /\ cache' = c
        /\ UNCHANGED <<state, renderer, surf>>

FinishRecovery ==
  /\ CommitWorkGeneration
  /\ renderer' = devGen
  /\ state' = "Running"
  /\ surf' = AllSurfaces("ReconfigurePending")
  /\ result' = "DeviceRebuilt"
  /\ UNCHANGED <<attached, size, configured, devGen, latest, highest, retained,
                 tokens>>

ReplayRetained(fate) ==
  \/ /\ PrepareError(fate.built) # "Ok"
     /\ FailRecovery(PrepareError(fate.built), cache)
     /\ UNCHANGED presented
  \/ /\ PrepareError(fate.built) = "Ok"
     /\ Answers(retained.frame, devGen, fate)
     /\ \/ /\ fate.rendered # "Ok"
           /\ FailRecovery(fate.rendered, LeaseDropped)
           /\ UNCHANGED presented
        \/ /\ fate.rendered = "Ok"
           /\ Render(retained.frame, retained.rev, workGen + 1)
           /\ \/ /\ CommitError(fate.allocated) # "Ok"
                 /\ FailRecovery(CommitError(fate.allocated), LeaseDropped)
              \/ /\ CommitError(fate.allocated) = "Ok"
                 /\ FinishRecovery
                 /\ cache' = Committed
                 /\ nextFence' = nextFence + 1

RecoverDevice(made) ==
  \/ /\ state # "DeviceLost"
     /\ Answer(IF Live THEN "InvalidState" ELSE StateError)
  \/ /\ state = "DeviceLost"
     /\ ~attached \/ made = "Failed"
     /\ Answer("RecoveryFailed")
  \/ /\ state = "DeviceLost" /\ attached
     /\ made = "OutOfMemory"
     /\ ExhaustMemory(cache)
     /\ result' = "OutOfMemory"
     /\ UNCHANGED <<attached, size, configured, workGen, devGen, latest, highest,
                    retained, nextFence, tokens, presented>>
  \/ /\ state = "DeviceLost" /\ attached
     /\ made = "Ok" /\ workGen = MaxGeneration
     /\ Answer("Internal")
  \/ /\ state = "DeviceLost" /\ attached
     /\ made = "Ok" /\ workGen < MaxGeneration
     /\ \/ /\ retained = NoRetained
           /\ FinishRecovery
           /\ UNCHANGED <<cache, nextFence, presented>>
        \/ /\ retained # NoRetained
           \* The retained frame has built before, so it builds again.
           /\ \E fate \in Fates \ {Built("ResourceInvalid")} : ReplayRetained(fate)

-----------------------------------------------------------------------------
(* begin_submission: a newer revision moves the watermark and evicts the    *)
(* tickets of older ones; an older revision gets a token but no ticket.    *)
BeginSubmission(rev) ==
  LET ticket == [rev |-> rev, work |-> workGen]
      kept == IF rev > highest THEN {t \in pending : t.rev >= rev} ELSE pending
      full == /\ rev >= highest /\ ticket \notin kept
              /\ Cardinality(kept) >= MaxPendingWork
  IN
  \/ /\ state # "Running"
     /\ Answer(StateError)
  \/ /\ state = "Running"
     /\ pending' = IF rev < highest \/ full THEN kept ELSE kept \cup {ticket}
     /\ highest' = IF rev > highest /\ ~full THEN rev ELSE highest
     /\ tokens' = IF full THEN tokens
                  ELSE tokens \cup {[rev |-> rev, work |-> workGen, dev |-> devGen]}
     /\ result' = IF full THEN "ResourceInvalid" ELSE "TokenIssued"
     /\ UNCHANGED <<state, attached, renderer, surf, size, configured, workGen,
                    devGen, latest, retained, nextFence, cache, presented>>

-----------------------------------------------------------------------------
TicketOf(t) == [rev |-> t.rev, work |-> t.work]

\* Mutant of Stale: only observed revisions, not requested ones, outdate a token.
StaleByObservation(t) == t.work # workGen \/ t.dev # devGen \/ t.rev < latest

Stale(t) == t.work # workGen \/ t.dev # devGen \/ t.rev < highest \/ t.rev < latest

Targetable(id) == surf[id] \notin {"Absent", "Lost"}

\* Mutant of Admissible: the generations alone decide.
AdmissibleByGeneration(id, t) ==
  t.work = workGen /\ t.dev = devGen /\ Targetable(id)

Admissible(id, t) == ~Stale(t) /\ Targetable(id) /\ TicketOf(t) \in pending

Skips(id, condition) == surf[id] = "Suspended" \/ condition # "Ready"

ObserveRevision(t) == latest' = IF t.rev > latest THEN t.rev ELSE latest

\* submit's answer on an accepted attempt, and what it does to the surface.
AcceptOutcome(id) ==
  IF surf[id] = "ReconfigurePending" THEN "Reconfigured" ELSE "Ready"

\* Mutant of Reconfigure: the pending flag is cleared without configuring.
ReconfigureLater(id) == id \in SurfaceIds /\ configured' = configured

Reconfigure(id) ==
  configured' = IF surf[id] = "ReconfigurePending"
                THEN [configured EXCEPT ![id] = size[id]]
                ELSE configured

Activated(id) == [surf EXCEPT ![id] = "Active"]

(* The ways a submission ends without being accepted for the surface. *)
EndWithoutAcceptance(id, t, condition) ==
  \/ /\ state # "Running"
     /\ Answer(StateError)
  \/ /\ state = "Running"
     /\ Stale(t) \/ (Targetable(id) /\ TicketOf(t) \notin pending)
     /\ Answer("StaleDropped")
  \/ /\ state = "Running"
     /\ ~Stale(t) /\ ~Targetable(id)
     /\ Answer("ResourceInvalid")
  \/ /\ state = "Running"
     /\ Admissible(id, t) /\ Skips(id, condition)
     /\ ObserveRevision(t)
     /\ result' = "Skipped"
     /\ UNCHANGED <<state, attached, renderer, surf, size, configured, workGen,
                    devGen, highest, pending, retained, nextFence, cache, tokens,
                    presented>>

Accepts(id, t, condition) ==
  state = "Running" /\ Admissible(id, t) /\ ~Skips(id, condition)

Submit(id, t, condition) ==
  \/ EndWithoutAcceptance(id, t, condition)
  \/ /\ Accepts(id, t, condition)
     /\ ObserveRevision(t)
     /\ surf' = Activated(id)
     /\ Reconfigure(id)
     /\ result' = AcceptOutcome(id)
     /\ UNCHANGED <<state, attached, renderer, size, workGen, devGen, highest,
                    pending, retained, nextFence, cache, tokens, presented>>

-----------------------------------------------------------------------------
(* submit_frame: submit, then prepare, render and commit the packet.  What  *)
(* submit did to the revision and the surface stays, whatever follows.     *)
FailPublication(id, error, c) ==
  /\ result' = error
  /\ UNCHANGED <<workGen, devGen>>
  /\ \/ /\ error = "OutOfMemory"
        /\ ExhaustMemory(c)
     \/ /\ error # "OutOfMemory"
        /\ cache' = c
        /\ surf' = Activated(id)
        /\ UNCHANGED <<state, renderer, pending>>

\* The renderer reports device loss; the result of handling it is ignored.
FailDevice(id, c) ==
  /\ result' = "DeviceLost"
  /\ \/ /\ CanLoseDevice
        /\ LoseDevice(c)
     \/ /\ ~CanLoseDevice
        /\ cache' = c
        /\ surf' = Activated(id)
        /\ UNCHANGED <<state, renderer, pending, workGen, devGen>>

PublishPrepared(id, t, frame, fate) ==
  \/ /\ renderer = NoRenderer
     /\ FailPublication(id, "BackendUnavailable", LeaseDropped)
     /\ UNCHANGED <<nextFence, presented>>
  \/ /\ renderer # NoRenderer
     /\ Answers(frame, renderer, fate)
     /\ \/ /\ fate.rendered = "DeviceLost"
           /\ FailDevice(id, LeaseDropped)
           /\ UNCHANGED <<nextFence, presented>>
        \/ /\ fate.rendered \notin {"Ok", "DeviceLost"}
           /\ FailPublication(id, fate.rendered, LeaseDropped)
           /\ UNCHANGED <<nextFence, presented>>
        \/ /\ fate.rendered = "Ok"
           /\ Render(frame, t.rev, workGen)
           /\ \/ /\ CommitError(fate.allocated) # "Ok"
                 /\ FailPublication(id, CommitError(fate.allocated), LeaseDropped)
                 /\ UNCHANGED nextFence
              \/ /\ CommitError(fate.allocated) = "Ok"
                 /\ cache' = Committed
                 /\ nextFence' = nextFence + 1
                 /\ surf' = Activated(id)
                 /\ result' = AcceptOutcome(id)
                 /\ UNCHANGED <<state, renderer, pending, workGen, devGen>>

Publish(id, t, frame, fate) ==
  \/ /\ PrepareError(fate.built) # "Ok"
     /\ FailPublication(id, PrepareError(fate.built), cache)
     /\ UNCHANGED <<retained, nextFence, presented>>
  \/ /\ PrepareError(fate.built) = "Ok"
     /\ retained' = [frame |-> frame, rev |-> t.rev]
     /\ PublishPrepared(id, t, frame, fate)

SubmitFrame(id, t, condition) ==
  \/ EndWithoutAcceptance(id, t, condition)
  \/ /\ Accepts(id, t, condition)
     /\ ObserveRevision(t)
     /\ Reconfigure(id)
     /\ UNCHANGED <<attached, size, highest, tokens>>
     /\ \E frame \in Frames, fate \in Fates : Publish(id, t, frame, fate)

-----------------------------------------------------------------------------
LifecycleCall ==
  \/ EnterLoop
  \/ HandleDeviceLoss
  \/ HandleOutOfMemory
  \/ Close
  \/ \E made \in {"Ok", "OutOfMemory", "Failed"} : RecoverDevice(made)

SurfaceCall(id) ==
  \/ \E s \in Sizes \cup {BadSize} : CreateSurface(id, s) \/ Resize(id, s)
  \/ Suspend(id)
  \/ Resume(id)
  \/ HandleSurfaceLoss(id)
  \/ RecreateSurface(id)

SubmissionCall ==
  \/ \E rev \in Revisions : BeginSubmission(rev)
  \/ \E id \in SurfaceIds, t \in tokens, condition \in SurfaceConditions :
       Submit(id, t, condition) \/ SubmitFrame(id, t, condition)

Next ==
  \/ LifecycleCall
  \/ \E id \in SurfaceIds : SurfaceCall(id)
  \/ SubmissionCall

Spec == Init /\ [][Next]_vars

-----------------------------------------------------------------------------
(* The queue holds at most the one ticket that can still be published: the *)
(* highest requested revision at the current work generation.  It never    *)
(* grows toward MAX_PENDING_WORK, whatever is requested, resized or lost   *)
(* (cancel_older_than, cancel_except, cancel_all).                         *)
QueueHoldsOnlyNewest ==
  \A t \in pending : t = [rev |-> highest, work |-> workGen]

(* A token that survives the generation and watermark checks of submit     *)
(* still has its ticket: begin_submission never promises work that a later *)
(* queue operation has silently evicted (begin_submission, submit).        *)
FreshTokenHasTicket ==
  \A t \in tokens : state = "Running" /\ ~Stale(t) => TicketOf(t) \in pending

(* The observed, retained and rendered revisions trail the requested one   *)
(* in that order, across device loss, recovery and replay (submit,         *)
(* prepare, recover_device).                                               *)
WatermarksOrdered ==
  /\ latest <= highest
  /\ retained.rev <= latest
  /\ presented.rev <= retained.rev

(* Between operations the cache owns nothing: every lease taken for a      *)
(* render was either completed or dropped, on every error path, and the    *)
(* cache follows the session's device (PacketOwner, submit_frame,          *)
(* recover_device).                                                        *)
NoLeaseOutlivesItsOperation ==
  /\ cache.device = devGen
  /\ cache.pending = {}
  /\ \A k \in Keys : cache.owners[k] = 0

(* The next fence lies above everything the cache has seen, so a commit    *)
(* after a successful render can only fail for want of memory (commit,     *)
(* ResourceCache::submit, complete).                                       *)
CommitIsAdmissible ==
  /\ CommitError(TRUE) = "Ok"
  /\ CommitError(FALSE) = "OutOfMemory"

(* A renderer exists exactly while an attached session is live, and it is  *)
(* bound to the session's device generation: no render can target a lost   *)
(* device, a closed session or an exhausted one.                           *)
RendererFollowsDevice ==
  renderer = IF Live /\ attached THEN devGen ELSE NoRenderer

(* Once the device is lost or memory exhausted no surface can be drawn     *)
(* until it has been rebuilt, and a closed session has no surfaces.        *)
SurfacesFallWithDevice ==
  /\ state \in {"DeviceLost", "OutOfMemory"} =>
       \A id \in SurfaceIds : surf[id] \in {"Absent", "Lost"}
  /\ state = "Closed" => \A id \in SurfaceIds : surf[id] = "Absent"

(* An active surface has been (re)configured at its current size: a resize *)
(* recorded while it was suspended or lost is not forgotten by the resume, *)
(* recreation or recovery that follows (resize, resume, recreate_surface,  *)
(* recover_device, submit).                                                *)
ActiveIsConfigured ==
  \A id \in SurfaceIds : surf[id] = "Active" => configured[id] = size[id]

(* Whoever finds a surface active can draw on it: the session is live, its *)
(* renderer, if it drives one, is bound to the current device, and the     *)
(* surface is configured at its current size, after any sequence of        *)
(* resizes, suspensions, losses, recoveries and failures (resize, resume,  *)
(* handle_device_loss, handle_out_of_memory, recover_device, close).       *)
DrawableIsReady ==
  \A id \in SurfaceIds : surf[id] = "Active" =>
    /\ Live
    /\ attached => renderer = devGen
    /\ configured[id] = size[id]

(* A submission that fails leaves the observed revision alone: an error     *)
(* reported by a session that keeps running has not moved                  *)
(* latest_scene_revision (submit, submit_frame).                           *)
FailedSubmissionKeepsObservedRevision ==
  [][result' \in Errors /\ state' = "Running" => latest' = latest]_vars

-----------------------------------------------------------------------------
(* The inductive invariant: what the properties above need to be preserved  *)
(* by every step from every state that satisfies it.                       *)

\* A cache at rest: it owns nothing and has seen no fence from fence on.
Quiet(c, device, fence) ==
  /\ c \in Caches
  /\ c.device = device
  /\ c.pending = {}
  /\ \A k \in Keys : c.owners[k] = 0
  /\ c.lastSubmitted < fence
  /\ c.lastCompleted < fence

\* No token outruns the session, and the work generation of a token
\* determines its device generation.
TokensBehind ==
  \A t \in tokens :
    /\ t.work <= workGen
    /\ t.work = workGen => t.dev = devGen
    /\ t.rev <= highest

\* FreshTokenHasTicket for the states from which the session can run again.
TicketsKept ==
  \A t \in tokens :
    state \notin {"OutOfMemory", "Closed"} /\ t.work = workGen /\ t.rev = highest
      => TicketOf(t) \in pending

(* Everything the safety theorems rest on, as one invariant: the queue, the *)
(* tokens, the watermarks, the cache, the renderer and the surfaces agree  *)
(* in every reachable state (the whole of EngineSession's operations).     *)
IInv ==
  /\ TypeOK
  /\ QueueHoldsOnlyNewest
  /\ TokensBehind
  /\ TicketsKept
  /\ WatermarksOrdered
  /\ Quiet(cache, devGen, nextFence)
  /\ RendererFollowsDevice
  /\ SurfacesFallWithDevice
  /\ ActiveIsConfigured

-----------------------------------------------------------------------------
(* The session implements PublicationGate. *)
Phase ==
  CASE state = "Created" -> "new"
    [] state = "Running" -> "open"
    [] state = "DeviceLost" -> "lost"
    [] OTHER -> "dead"

Gate == INSTANCE PublicationGate
  WITH phase <- Phase, requested <- highest, shown <- presented.rev

(* What the backend shows never goes back to an older scene revision, is   *)
(* always the newest requested one while the session runs, and nothing is  *)
(* requested or shown after the end -- through every interleaving of       *)
(* submissions, resizes, losses, replays and failures.                     *)
ImplementsGate == Gate!GateSpec
=============================================================================
