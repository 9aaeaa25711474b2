------------------------------ MODULE WindowHost ------------------------------
(***************************************************************************)
(* One window (crates/lumenplot-window): the WindowApp core that owns a     *)
(* runtime session and its single surface, and the two things that drive   *)
(* it: the winit shell, which also owns the physical surface transport,    *)
(* and the headless stub program.                                          *)
(*                                                                         *)
(* The core calls the session of EngineSession, one session operation per  *)
(* step, so a redraw is several steps: begin, submit, present.  The loop   *)
(* is one thread, but the window system is not: it resizes, occludes and   *)
(* closes the window between any two steps, and it queues what it did for  *)
(* later delivery.                                                         *)
(***************************************************************************)
EXTENDS EngineSession, Sequences

CONSTANTS
  Surface,      \* the core's one surface
  WantedSize,   \* the size the window is asked to have
  OverBound,    \* sizes with an area that exceed MAX_WINDOW_DIMENSION
  MaxRevision,  \* the frame counter at which it saturates (u64::MAX)
  MaxEvents     \* bound of the model: events queued and not yet delivered

ASSUME WindowAssumption ==
  /\ SurfaceIds = {Surface}
  /\ WantedSize \in Sizes
  /\ OverBound \cap (Sizes \cup {BadSize}) = {}
  /\ MaxRevision \in Nat \ {0} /\ Revisions = 1 .. MaxRevision
  /\ MaxEvents \in Nat \ {0}

VARIABLES
  driver,     \* "winit" or "stub": who feeds the core
  step,       \* what the loop's thread does next
  exiting,    \* the loop was told to exit
  openError,  \* WinitHost::open_error is set
  closing,    \* WinitHost::close_outcome
  coreSize,   \* WindowApp::size
  condition,  \* WindowApp::pending_condition
  revision,   \* WindowApp::next_revision
  closed,     \* WindowApp::closed
  transport,  \* the size the physical surface is configured for
  pixels,     \* the window's inner size; BadSize when it has no area
  redraw,     \* a redraw the shell asked for and did not get yet
  events,     \* events queued by the window system, or the stub's program
  noted,      \* history: a condition was recorded since the last submission
  answer      \* what run_window returned

sessionVars == vars
coreVars == <<coreSize, condition, revision, closed, noted>>
screenVars == <<transport, pixels>>
hostVars == <<openError, closing, answer>>
windowVars == <<driver, step, exiting, openError, closing, coreSize, condition,
                revision, closed, transport, pixels, redraw, events, noted,
                answer>>
allVars == <<vars, windowVars>>

WindowPixels == Sizes \cup OverBound \cup {BadSize}

Resized(p) == [kind |-> "Resized", size |-> p]
Plain(kind) == [kind |-> kind, size |-> WantedSize]
OsEvents ==
  {Resized(p) : p \in WindowPixels}
    \cup {Plain(k) : k \in {"Occluded", "Visible", "ScaleChanged", "CloseRequested"}}
StubEvents ==
  {Resized(s) : s \in Sizes}
    \cup {Plain(k) : k \in {"Redraw", "Occluded", "Visible", "TimedOut", "CloseRequested"}}

WindowInit ==
  /\ Init /\ ~attached
  /\ driver \in {"winit", "stub"}
  /\ step = "Staged"
  /\ exiting = FALSE /\ openError = FALSE /\ closing = "None"
  /\ coreSize = WantedSize
  /\ condition = "Ready"
  /\ revision = 1
  /\ closed = FALSE
  /\ transport = BadSize /\ pixels = BadSize
  /\ redraw = FALSE
  /\ events = <<>>
  /\ noted = FALSE
  /\ answer = "None"

-----------------------------------------------------------------------------
(* WindowApp::new: enter the native loop, then create the surface. *)
EnterCore ==
  /\ step = "Staged"
  /\ EnterLoop /\ result' = "LoopEntered"
  /\ step' = "Entered"
  /\ UNCHANGED <<driver, exiting, redraw, events, coreVars, screenVars, hostVars>>

OpenCore ==
  /\ step = "Entered"
  /\ CreateSurface(Surface, WantedSize)
  /\ step' = "Core"
  /\ UNCHANGED <<driver, exiting, redraw, events, coreVars, screenVars, hostVars>>

\* The stub program needs no window.
StartStub ==
  /\ step = "Core" /\ driver = "stub"
  /\ step' = "Idle"
  /\ UNCHANGED <<sessionVars, driver, exiting, redraw, events, coreVars, screenVars,
                 hostVars>>

\* SurfaceTransport::create is asked for the window's size, or for the wanted
\* one while the window has no area; a size above the bound is passed on.
TransportSize(p) == IF p = BadSize THEN WantedSize ELSE p

(* The rest of resumed: the window and its transport, either of which may  *)
(* be unavailable.  A redraw is requested as soon as the window exists.    *)
OpenWindow ==
  /\ step = "Core" /\ driver = "winit"
  /\ step' = "Idle"
  /\ \/ /\ pixels' \in WindowPixels
        /\ transport' = TransportSize(pixels')
        /\ redraw' = TRUE
        /\ UNCHANGED <<exiting, openError>>
     \/ /\ openError' = TRUE /\ exiting' = TRUE
        /\ UNCHANGED <<pixels, transport, redraw>>
  /\ UNCHANGED <<sessionVars, driver, events, coreVars, closing, answer>>

-----------------------------------------------------------------------------
(* WindowApp::handle_event.  Each operator is one event's effect on the     *)
(* core and the session; Failed and Succeeded say how it ended.            *)
Failed == result' \in Errors

\* ensure_open fails: nothing is touched.
RefuseClosed == closed /\ Answer("Closed") /\ UNCHANGED coreVars

ApplyResize(s) ==
  \/ RefuseClosed
  \/ /\ ~closed
     /\ Resize(Surface, s)
     /\ coreSize' = IF Failed THEN coreSize ELSE s
     /\ UNCHANGED <<condition, revision, closed, noted>>

ApplyCondition(c) ==
  \/ RefuseClosed
  \/ /\ ~closed
     /\ condition' = c
     /\ noted' = TRUE
     /\ Answer("Ok")
     /\ UNCHANGED <<coreSize, revision, closed>>

\* request_close
RequestClose ==
  \/ closed /\ Answer("AlreadyClosed") /\ UNCHANGED coreVars
  \/ ~closed /\ Close /\ closed' = TRUE /\ UNCHANGED <<coreSize, condition, revision, noted>>

\* The first half of request_frame.
BeginFrame ==
  \/ RefuseClosed
  \/ ~closed /\ BeginSubmission(revision) /\ UNCHANGED coreVars

\* saturating_add(1).max(1)
Following(rev) == IF rev = MaxRevision THEN MaxRevision ELSE rev + 1

FrameToken == [rev |-> revision, work |-> workGen, dev |-> devGen]

\* Mutant of ConsumeCondition: the note outlives the submission it was for.
KeepCondition == noted' = FALSE /\ UNCHANGED condition

\* The pending note is taken before the submission, whatever its outcome.
ConsumeCondition == condition' = "Ready" /\ noted' = FALSE

\* The second half of request_frame.
SubmitFrameOfWindow ==
  /\ ConsumeCondition
  /\ Submit(Surface, FrameToken, condition)
  /\ revision' = IF Failed THEN revision ELSE Following(revision)
  /\ UNCHANGED <<coreSize, closed>>

-----------------------------------------------------------------------------
(* The winit shell. *)
Delivering(kind) ==
  /\ driver = "winit" /\ step = "Idle" /\ ~openError
  /\ events # <<>> /\ Head(events).kind = kind
  /\ events' = Tail(events)

\* translate: an error ends the loop, a close ends it and is remembered.
TranslateEvent ==
  /\ exiting' = (exiting \/ Failed)
  /\ UNCHANGED closing

\* Mutant of TranslateClose: the outcome is kept but the loop goes on.
TranslateCloseQuietly ==
  /\ UNCHANGED exiting
  /\ closing' = IF result' = "AlreadyClosed" THEN "AlreadyClosed" ELSE "Closed"

TranslateClose ==
  /\ exiting' = TRUE
  /\ closing' = IF result' = "AlreadyClosed" THEN "AlreadyClosed" ELSE "Closed"

CloseWindow == RequestClose /\ TranslateClose

\* Mutant of AdoptSize: the new size is recorded but no redraw is asked for.
AdoptSizeSilently(p) ==
  /\ redraw' = redraw
  /\ \/ p \in Sizes /\ ApplyResize(p) /\ TranslateEvent
     \/ p \notin Sizes /\ CloseWindow

\* A size that WindowSize::new rejects, too large or without an area, closes
\* the window.
AdoptSize(p) ==
  /\ redraw' = TRUE
  /\ \/ p \in Sizes /\ ApplyResize(p) /\ TranslateEvent
     \/ p \notin Sizes /\ CloseWindow

OnResized ==
  /\ Delivering("Resized")
  /\ AdoptSize(Head(events).size)
  /\ UNCHANGED <<driver, step, openError, answer, screenVars>>

OnScaleChanged ==
  /\ Delivering("ScaleChanged")
  /\ AdoptSize(pixels)
  /\ UNCHANGED <<driver, step, openError, answer, screenVars>>

OnOccluded ==
  /\ \/ Delivering("Occluded") /\ ApplyCondition("Occluded")
     \/ Delivering("Visible") /\ ApplyCondition("Ready")
  /\ TranslateEvent
  /\ UNCHANGED <<driver, step, openError, answer, redraw, screenVars>>

\* CloseRequested stands for Destroyed too, which is handled by the same arm.
OnClose ==
  /\ Delivering("CloseRequested")
  /\ CloseWindow
  /\ UNCHANGED <<driver, step, openError, answer, redraw, screenVars>>

\* RedrawRequested: the event goes to the core first, whatever it answers
\* the surface is presented after it.
OnRedraw ==
  /\ driver = "winit" /\ step = "Idle" /\ ~openError
  /\ redraw
  /\ redraw' = FALSE
  /\ BeginFrame
  /\ TranslateEvent
  /\ step' = IF Failed THEN "Recorded" ELSE "Begun"
  /\ UNCHANGED <<driver, openError, answer, events, screenVars>>

OnRedrawSubmit ==
  /\ driver = "winit" /\ step = "Begun"
  /\ SubmitFrameOfWindow
  /\ TranslateEvent
  /\ step' = "Recorded"
  /\ UNCHANGED <<driver, openError, answer, redraw, events, screenVars>>

-----------------------------------------------------------------------------
(* present_clear against the answers of the window system: a lost or        *)
(* outdated surface is reconfigured and acquired once more.                *)
Acquisitions == {"Success", "Lost", "Occluded", "Timeout", "Validation"}

PresentOf(first, second) ==
  LET last == IF first = "Lost" THEN second ELSE first IN
  CASE last = "Success" -> "Presented"
    [] last \in {"Occluded", "Timeout"} -> "Skipped"
    [] OTHER -> "Failed"

\* ensure_size
EnsureSize == transport' = pixels

(* present_once: present_surface, and the loop ends when it fails.  The     *)
(* size is the window's at this moment, not the core's; only a size without *)
(* an area is skipped, one above the core's bound reaches the transport.   *)

Presentable == ~closed

OnRedrawPresent ==
  /\ driver = "winit" /\ step = "Recorded"
  /\ step' = "Idle"
  /\ \/ /\ ~Presentable
        /\ exiting' = TRUE
        /\ UNCHANGED transport
     \/ /\ Presentable /\ pixels = BadSize
        /\ UNCHANGED <<exiting, transport>>
     \/ /\ Presentable /\ pixels # BadSize
        /\ EnsureSize
        /\ \E first, second \in Acquisitions :
             exiting' = (exiting \/ PresentOf(first, second) = "Failed")
  /\ UNCHANGED <<sessionVars, driver, redraw, events, coreVars, pixels, hostVars>>

\* run_window: what the loop's end means to the caller.
Finish ==
  /\ driver = "winit" /\ step = "Idle" /\ exiting
  /\ step' = "Done"
  /\ answer' = IF openError THEN "Error"
               ELSE IF closing = "None" THEN "AlreadyClosed" ELSE closing
  /\ UNCHANGED <<sessionVars, driver, exiting, redraw, events, coreVars, screenVars,
                 openError, closing>>

-----------------------------------------------------------------------------
(* The stub program: run_stub feeds the core until it closes, an event      *)
(* fails, or the program is exhausted (which stops nothing: more may come). *)
StubEvent(kind) ==
  /\ driver = "stub" /\ step = "Idle" /\ ~closed
  /\ events # <<>> /\ Head(events).kind = kind
  /\ events' = Tail(events)

StubHandles ==
  \/ \E s \in Sizes :
       StubEvent("Resized") /\ Head(events).size = s /\ ApplyResize(s)
  \/ StubEvent("Occluded") /\ ApplyCondition("Occluded")
  \/ StubEvent("Visible") /\ ApplyCondition("Ready")
  \/ StubEvent("TimedOut") /\ ApplyCondition("Timeout")
  \/ StubEvent("CloseRequested") /\ RequestClose

RunStub ==
  /\ \/ StubHandles /\ step' = IF Failed THEN "Done" ELSE "Idle"
     \/ StubEvent("Redraw") /\ BeginFrame /\ step' = IF Failed THEN "Done" ELSE "Begun"
     \/ /\ driver = "stub" /\ step = "Begun"
        /\ SubmitFrameOfWindow
        /\ step' = IF Failed THEN "Done" ELSE "Idle"
        /\ UNCHANGED events
  /\ UNCHANGED <<driver, exiting, redraw, screenVars, hostVars>>

-----------------------------------------------------------------------------
(* The window system, and whoever writes the stub's program. *)
Queue(e) == Len(events) < MaxEvents /\ events' = Append(events, e)

WindowExists == driver = "winit" /\ transport # BadSize /\ step # "Done"

\* The size changes at once, the event arrives later.
ResizeByUser ==
  /\ WindowExists
  /\ \E p \in WindowPixels \ {pixels} : pixels' = p /\ Queue(Resized(p))
  /\ UNCHANGED <<sessionVars, driver, step, exiting, redraw, coreVars, transport,
                 hostVars>>

Notify ==
  /\ WindowExists
  /\ \E e \in OsEvents : e.kind # "Resized" /\ Queue(e)
  /\ UNCHANGED <<sessionVars, driver, step, exiting, redraw, coreVars, screenVars, hostVars>>

\* A part of the window was uncovered: the system asks for a redraw itself.
Expose ==
  /\ WindowExists /\ redraw' = TRUE
  /\ UNCHANGED <<sessionVars, driver, step, exiting, events, coreVars, screenVars, hostVars>>

WriteStub ==
  /\ driver = "stub" /\ ~closed
  /\ \E e \in StubEvents : Queue(e)
  /\ UNCHANGED <<sessionVars, driver, step, exiting, redraw, coreVars, screenVars, hostVars>>

-----------------------------------------------------------------------------
Deliver == OnResized \/ OnScaleChanged \/ OnOccluded \/ OnClose

HandleRedraw == OnRedraw \/ OnRedrawSubmit \/ OnRedrawPresent

Open == EnterCore \/ OpenCore \/ OpenWindow \/ StartStub

WindowSystem == ResizeByUser \/ Notify \/ Expose \/ WriteStub

WindowNext == Open \/ Deliver \/ HandleRedraw \/ Finish \/ RunStub \/ WindowSystem

(* The event loop runs: every iteration drains what is queued and hands out *)
(* a redraw that was asked for, so neither can starve the other; a handler *)
(* runs to its end and the loop ends after exit.  The window system and    *)
(* the stub's author owe nothing.                                          *)
WindowFairness ==
  /\ WF_allVars(Open)
  /\ SF_allVars(Deliver)
  /\ SF_allVars(HandleRedraw)
  /\ SF_allVars(Finish)

WindowSpec == WindowInit /\ [][WindowNext]_allVars /\ WindowFairness

-----------------------------------------------------------------------------
(* The proofs' inductive invariant. *)
EventKinds == {"Resized", "Occluded", "Visible", "ScaleChanged", "CloseRequested",
               "Redraw", "TimedOut"}

WindowTypeOK ==
  /\ driver \in {"winit", "stub"}
  /\ step \in {"Staged", "Entered", "Core", "Idle", "Begun", "Recorded", "Done"}
  /\ exiting \in BOOLEAN /\ openError \in BOOLEAN
  /\ closing \in {"None", "Closed", "AlreadyClosed"}
  /\ coreSize \in Sizes
  /\ condition \in SurfaceConditions
  /\ revision \in Revisions
  /\ closed \in BOOLEAN
  /\ transport \in WindowPixels /\ pixels \in WindowPixels
  /\ redraw \in BOOLEAN
  /\ events \in Seq([kind : EventKinds, size : WindowPixels])
  /\ noted \in BOOLEAN
  /\ answer \in {"None", "Error", "Closed", "AlreadyClosed"}

\* What is to be skipped was noted, and only the note skips: nobody suspends
\* the core's surface.
OnlyNotesSkip ==
  /\ condition # "Ready" => noted
  /\ surf[Surface] # "Suspended"

\* Between begin and submit the frame's token stays the one that was issued.
BegunHasToken ==
  step = "Begun" => result = "TokenIssued" /\ FrameToken \in tokens

\* The core counts itself closed exactly when its session is.
ClosedTogether == closed <=> state = "Closed"

WindowIInv ==
  /\ IInv
  /\ WindowTypeOK
  /\ OnlyNotesSkip
  /\ BegunHasToken
  /\ ClosedTogether

-----------------------------------------------------------------------------
(* A frame is only ever skipped for a condition noted since the submission  *)
(* before it: an occlusion or a timeout never latches, whatever resizes and *)
(* closes happen between (request_frame).                                  *)
SkipsNeverLatch ==
  [][step = "Begun" /\ result' = "Skipped" => noted]_allVars

(* A size at which the window settles reaches the physical surface and stays *)
(* there, unless the loop ends (window_event, present_once, ensure_size).  *)
SettledSizeReachesSurface ==
  <>[][FALSE]_pixels => <>[](transport = pixels \/ pixels = BadSize \/ exiting)

(* A close that the user asked for ends run_window (window_event).         *)
CloseIsHonoured ==
  (driver = "winit" /\ \E i \in DOMAIN events : events[i].kind = "CloseRequested")
    ~> step = "Done"

(* Only a request to close closes the window: a minimized, zero-area window *)
(* is skipped until it has an area again (present.rs, surface.rs).         *)
MinimizedWindowStaysOpen ==
  [][driver = "winit" /\ ~closed /\ closed' =>
       Head(events).kind = "CloseRequested"]_allVars

=============================================================================
