--------------------------- MODULE CanvasPublication ---------------------------
(***************************************************************************)
(* The canvas of the Matplotlib backend and the calls that print it        *)
(* (python/lumenplot_mpl: backend_state.py, backend_attempt.py,            *)
(* backend_output.py, backend_publication.py, backend_strict.py).          *)
(*                                                                         *)
(* A call spends a generation, renders natively or through Agg, writes the *)
(* bytes and publishes its diagnostics.  The lock covers the generation    *)
(* and the diagnostics only: rendering runs Matplotlib callbacks, writing  *)
(* runs the caller's writer, and either may print the same canvas again.   *)
(* Calls are nested in one thread, or belong to threads that interleave.   *)
(***************************************************************************)
EXTENDS Integers

CONSTANTS
  Calls,          \* concurrent or nested calls, 1 .. n; call n runs inside n - 1
  Hybrid,         \* mode: fall back to Agg, or refuse
  Dpis,           \* resolutions
  OriginalDpi,    \* the figure's own
  FigureDpi,      \* the request for the figure's own, dpi='figure'
  InvalidDpi,     \* a request that cannot be resolved
  MaxGeneration   \* attempts the model makes

ASSUME CanvasAssumption ==
  /\ Calls \subseteq Nat \ {0}
  /\ Hybrid \in BOOLEAN
  /\ OriginalDpi \in Dpis
  /\ FigureDpi \notin Dpis /\ InvalidDpi \notin Dpis
  /\ MaxGeneration \in Nat

VARIABLES
  nested,       \* whether the calls share one thread, or have one each
  generation,   \* _generation
  diagnostics,  \* _last_diagnostics: the generation they name, or None
  figure,       \* figure.dpi and figure.canvas
  output,       \* the file calls write: whose bytes it holds, or None
  call,         \* where each call is, and its local variables
  landed,       \* history: generations whose bytes reached their target
  writer        \* history: the generation that last touched the output

vars == <<nested, generation, diagnostics, figure, output, call, landed, writer>>

None == 0
ThisCanvas == 0

Generations == 1 .. MaxGeneration
Requests == Dpis \cup {FigureDpi, InvalidDpi}

\* The canvas is this one, or the Agg canvas some call made.
Figures == [dpi : Dpis, canvas : Calls \cup {ThisCanvas}]

Places == {"idle", "strict", "native", "fallback", "agg", "deliver", "write",
           "publish", "fail"}

\* Where a call is inside foreign code, which may call the canvas again.
CallbackPlaces == {"native", "agg", "write"}

CallStates ==
  [at : Places, generation : Generations \cup {None}, dpi : Requests,
   target : BOOLEAN, fallback : BOOLEAN, found : Figures]

Idle == [at |-> "idle", generation |-> None, dpi |-> InvalidDpi,
         target |-> FALSE, fallback |-> FALSE,
         found |-> [dpi |-> OriginalDpi, canvas |-> ThisCanvas]]

TypeOK ==
  /\ nested \in BOOLEAN
  /\ generation \in 0 .. MaxGeneration
  /\ diagnostics \in Generations \cup {None}
  /\ figure \in Figures
  /\ output \in Generations \cup {None}
  /\ call \in [Calls -> CallStates]
  /\ landed \subseteq Generations
  /\ writer \in Generations \cup {None}

Init ==
  /\ nested \in BOOLEAN
  /\ generation = 0
  /\ diagnostics = None
  /\ figure = [dpi |-> OriginalDpi, canvas |-> ThisCanvas]
  /\ output = None
  /\ call = [c \in Calls |-> Idle]
  /\ landed = {}
  /\ writer = None

-----------------------------------------------------------------------------
At(c, place) == call[c].at = place

\* Whether call c is the one that runs: nested calls run innermost first.
Running(c) == nested => \A d \in Calls : d > c => At(d, "idle")

\* Whether call c can be made: nested, from a callback of the call around it.
CanStart(c) ==
  /\ At(c, "idle")
  /\ Running(c)
  /\ nested => \A d \in Calls : d < c => call[d].at \in CallbackPlaces

IsCurrent(c) == generation = call[c].generation

Move(c, place) == call' = [call EXCEPT ![c].at = place]
End(c) == call' = [call EXCEPT ![c] = Idle]

\* _resolve_dpi
Resolved(request) == IF request = FigureDpi THEN figure.dpi ELSE request

(* A request the output guards refuse clears the diagnostics, whosever     *)
(* they are (_raise_output_error, print_figure).                           *)
RejectRequest(c) ==
  /\ CanStart(c)
  /\ diagnostics' = None
  /\ UNCHANGED <<generation, figure, output, call, landed, writer>>

(* begin_attempt.  print_figure has resolved the request by then.          *)
BeginAttempt(c, request, target) ==
  /\ CanStart(c)
  /\ generation < MaxGeneration
  /\ generation' = generation + 1
  /\ diagnostics' = None
  /\ \E dpi \in {request, Resolved(request)} :
       call' = [call EXCEPT ![c] = [Idle EXCEPT
                  !.at = "strict", !.generation = generation + 1,
                  !.dpi = dpi, !.target = target]]
  /\ UNCHANGED <<figure, output, landed, writer>>

-----------------------------------------------------------------------------
\* Mutant of Borrow: the figure is looked at after it was changed.
BorrowLate(c, place, canvas) ==
  /\ figure' = [dpi |-> Resolved(call[c].dpi), canvas |-> canvas]
  /\ call' = [call EXCEPT ![c].at = place, ![c].found = figure']

\* The call remembers the figure as it found it, and changes it.
Borrow(c, place, canvas) ==
  /\ figure' = [dpi |-> Resolved(call[c].dpi), canvas |-> canvas]
  /\ call' = [call EXCEPT ![c].at = place, ![c].found = figure]

(* _render_strict up to the first callback *)
EnterStrict(c) ==
  /\ At(c, "strict") /\ Running(c)
  /\ \/ /\ call[c].dpi = InvalidDpi
        /\ Move(c, "fail")
        /\ UNCHANGED figure
     \/ /\ call[c].dpi # InvalidDpi
        /\ Borrow(c, "native", figure.canvas)
  /\ UNCHANGED <<generation, diagnostics, output, landed, writer>>

(* _render_strict returns bytes, meets content it does not support, or     *)
(* fails; only the second falls back, in hybrid mode (_render_attempt_body)*)
LeaveStrict(c) ==
  /\ At(c, "native") /\ Running(c)
  /\ \E place \in {"deliver", "fail"} \cup (IF Hybrid THEN {"fallback"} ELSE {}) :
       Move(c, place)
  /\ figure' = [figure EXCEPT !.dpi = call[c].found.dpi]
  /\ UNCHANGED <<generation, diagnostics, output, landed, writer>>

(* _render_hybrid_fallback up to the first callback: a fresh Agg canvas    *)
(* takes the figure, at the resolution now resolved; Agg may be missing.   *)
EnterFallback(c) ==
  /\ At(c, "fallback") /\ Running(c)
  /\ \/ call[c].dpi # InvalidDpi /\ Borrow(c, "agg", c)
     \/ Move(c, "fail") /\ UNCHANGED figure
  /\ UNCHANGED <<generation, diagnostics, output, landed, writer>>

(* Agg returns bytes or fails; either way the figure is given back. *)
LeaveFallback(c) ==
  /\ At(c, "agg") /\ Running(c)
  /\ \/ call' = [call EXCEPT ![c].at = "deliver", ![c].fallback = TRUE]
     \/ Move(c, "fail")
  /\ figure' = call[c].found
  /\ UNCHANGED <<generation, diagnostics, output, landed, writer>>

-----------------------------------------------------------------------------
(* ensure_current, for a call with a target *)
Deliver(c) ==
  /\ At(c, "deliver") /\ Running(c)
  /\ \/ ~call[c].target /\ Move(c, "publish")
     \/ call[c].target /\ IsCurrent(c) /\ Move(c, "write")
     \/ call[c].target /\ ~IsCurrent(c) /\ Move(c, "fail")
  /\ landed' = IF call[c].target THEN landed ELSE landed \cup {call[c].generation}
  /\ UNCHANGED <<generation, diagnostics, figure, output, writer>>

(* _write_target; a failing write leaves the target as it was or useless.  *)
WriteTarget(c) ==
  /\ At(c, "write") /\ Running(c)
  /\ \/ /\ output' = call[c].generation
        /\ writer' = call[c].generation
        /\ landed' = landed \cup {call[c].generation}
        /\ Move(c, "publish")
     \/ /\ output' = None
        /\ writer' = call[c].generation
        /\ Move(c, "fail")
        /\ UNCHANGED landed
     \/ /\ Move(c, "fail")
        /\ UNCHANGED <<output, writer, landed>>
  /\ UNCHANGED <<generation, diagnostics, figure>>

\* Mutant of MayPublish: diagnostics are published by whoever comes last.
MayPublishAnyway(c) == TRUE

MayPublish(c) == IsCurrent(c)

(* publish; a native result has no diagnostics *)
Publish(c) ==
  /\ At(c, "publish") /\ Running(c)
  /\ \/ /\ MayPublish(c)
        /\ diagnostics' = IF call[c].fallback THEN call[c].generation ELSE None
        /\ End(c)
     \/ /\ ~MayPublish(c)
        /\ Move(c, "fail")
        /\ UNCHANGED diagnostics
  /\ UNCHANGED <<generation, figure, output, landed, writer>>

\* Mutant of MayClear: a failed attempt clears whatever is published.
MayClearAnyway(c) == TRUE

MayClear(c) == IsCurrent(c)

(* clear_if_current, and the exception leaves the call *)
Fail(c) ==
  /\ At(c, "fail") /\ Running(c)
  /\ diagnostics' = IF MayClear(c) THEN None ELSE diagnostics
  /\ End(c)
  /\ UNCHANGED <<generation, figure, output, landed, writer>>

Step(c) ==
  \/ EnterStrict(c) \/ LeaveStrict(c) \/ EnterFallback(c) \/ LeaveFallback(c)
  \/ Deliver(c) \/ WriteTarget(c) \/ Publish(c) \/ Fail(c)

Next ==
  /\ nested' = nested
  /\ \E c \in Calls :
       \/ RejectRequest(c)
       \/ \E request \in Requests, target \in BOOLEAN : BeginAttempt(c, request, target)
       \/ Step(c)

Spec == Init /\ [][Next]_vars
-----------------------------------------------------------------------------
(* Diagnostics are of the newest attempt, which wrote its bytes, if it had *)
(* to, and is over: never of an attempt that was superseded, failed, or    *)
(* may still fail (begin_attempt, publish, clear_if_current).              *)
DiagnosticsOfNewestDelivery ==
  diagnostics # None =>
    /\ diagnostics = generation
    /\ diagnostics \in landed
    /\ \A c \in Calls : call[c].generation # diagnostics

(* What an attempt published is withdrawn by a newer attempt or a refused  *)
(* request, never by the failure of an older attempt (clear_if_current).   *)
OlderFailuresWithdrawNothing ==
  [][diagnostics # None /\ generation' = generation /\ call' # call
       => diagnostics' = diagnostics]_vars

\* The call that has the figure, of nested calls, is the innermost one that
\* renders.
Renders(c) == call[c].at \in {"native", "agg"}
HasFigure(c) == Renders(c) /\ \A d \in Calls : d > c => ~Renders(d)

(* Nested calls give the figure back as they found it, on every path: a    *)
(* call that renders on has the resolution and the canvas it asked for,    *)
(* and when none renders the figure is as it was (_render_strict,          *)
(* _render_hybrid_fallback).                                               *)
FigureIsGivenBack ==
  nested =>
    /\ \A c \in Calls : HasFigure(c) =>
         /\ call[c].dpi \in Dpis => figure.dpi = call[c].dpi
         /\ At(c, "agg") => figure.canvas = c
    /\ (\A c \in Calls : ~Renders(c)) =>
         figure = [dpi |-> OriginalDpi, canvas |-> ThisCanvas]

(* "A stale attempt (generation superseded) must not overwrite newer       *)
(* output": docs/architecture/api-0005, section 2 (_write_target).         *)
StaleNeverOverwritesNewer == [][writer' >= writer]_vars

-----------------------------------------------------------------------------
(* The inductive invariant. *)

\* A running call has an attempt of its own, and one about to publish has
\* delivered its bytes.
CallsAreAttempts ==
  /\ \A c \in Calls : IF At(c, "idle") THEN call[c].generation = None
                                       ELSE call[c].generation \in 1 .. generation
  /\ \A c, d \in Calls :
       c # d /\ ~At(c, "idle") => call[c].generation # call[d].generation
  /\ \A c \in Calls : At(c, "publish") => call[c].generation \in landed

(* Calls, attempts and diagnostics agree in every reachable state, whether *)
(* calls nest or interleave (every operation of the canvas).               *)
IInv == TypeOK /\ CallsAreAttempts /\ DiagnosticsOfNewestDelivery

\* What a rendering call made of the figure it found.
Made(c) ==
  [dpi |-> IF call[c].dpi = FigureDpi THEN call[c].found.dpi ELSE call[c].dpi,
   canvas |-> IF At(c, "agg") THEN c ELSE call[c].found.canvas]

Original == [dpi |-> OriginalDpi, canvas |-> ThisCanvas]

\* The next call around c that renders is d.
NextAround(d, c) ==
  d < c /\ Renders(d) /\ \A e \in Calls : d < e /\ e < c => ~Renders(e)

\* Nested calls are in callbacks of the calls around them, and each found
\* what the next one around had made of the figure.
NestedCalls ==
  /\ \A c, d \in Calls : d < c /\ ~At(c, "idle") => call[d].at \in CallbackPlaces
  /\ \A c \in Calls : Renders(c) =>
       \/ call[c].found = Original /\ \A d \in Calls : d < c => ~Renders(d)
       \/ \E d \in Calls : NextAround(d, c) /\ call[c].found = Made(d)
  /\ \/ figure = Original /\ \A c \in Calls : ~Renders(c)
     \/ \E c \in Calls : HasFigure(c) /\ figure = Made(c)

(* Nested calls and the figure agree in every reachable state (the         *)
(* restoring clauses of _render_strict and _render_hybrid_fallback).       *)
NInv == TypeOK /\ (nested => NestedCalls)
=============================================================================
