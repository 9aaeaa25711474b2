----------------------- MODULE CanvasPublication_proofs -----------------------
(***************************************************************************)
(* Proofs about CanvasPublication, for any number of calls, nested or in   *)
(* threads, resolutions and attempts.                                      *)
(***************************************************************************)
EXTENDS CanvasPublication, TLAPS

(* The initial states satisfy the invariant. *)
LEMMA InitIsSound == Init => IInv
BY CanvasAssumption
DEF Init, IInv, TypeOK, CallsAreAttempts, DiagnosticsOfNewestDelivery, At, Figures,
    CallStates, Idle, Places, Requests, None, ThisCanvas, Generations

\* What a request resolves to is a resolution, unless it is invalid.
LEMMA ResolvedIsDpi ==
  ASSUME TypeOK, NEW request \in Requests, request # InvalidDpi
  PROVE  Resolved(request) \in Dpis
BY DEF Resolved, Requests, TypeOK, Figures

\* The record of a call, field by field.
LEMMA CallFields ==
  ASSUME TypeOK, NEW c \in Calls
  PROVE  /\ call[c] \in CallStates
         /\ call[c].at \in Places
         /\ call[c].generation \in Generations \cup {None}
         /\ call[c].dpi \in Requests
         /\ call[c].found \in Figures
         /\ call[c].target \in BOOLEAN /\ call[c].fallback \in BOOLEAN
BY DEF TypeOK, CallStates

(* A new attempt has a generation beyond all others. *)
LEMMA BeginKeeps ==
  ASSUME nested' = nested, IInv, NEW c \in Calls,
         NEW request \in Requests, NEW target \in BOOLEAN,
         BeginAttempt(c, request, target)
  PROVE  IInv'
<1>1. PICK dpi \in {request, Resolved(request)} :
        call' = [call EXCEPT ![c] = [Idle EXCEPT
                   !.at = "strict", !.generation = generation + 1,
                   !.dpi = dpi, !.target = target]]
  BY DEF BeginAttempt
<1>2. dpi \in Requests
  BY <1>1 DEF IInv, TypeOK, Figures, Resolved, Requests
<1>3. generation + 1 \in Generations /\ generation \in Nat
  BY CanvasAssumption DEF BeginAttempt, IInv, TypeOK, Generations
<1>4. [Idle EXCEPT !.at = "strict", !.generation = generation + 1,
                   !.dpi = dpi, !.target = target] \in CallStates
  BY <1>2, <1>3, CanvasAssumption DEF Idle, CallStates, Places, Figures, ThisCanvas
<1>5. /\ call'[c].at = "strict" /\ call'[c].generation = generation + 1
      /\ \A d \in Calls : d # c => call'[d] = call[d]
  BY <1>1 DEF IInv, TypeOK, Idle
<1>6. TypeOK'
  <2>1. call' \in [Calls -> CallStates]
    BY <1>1, <1>4 DEF IInv, TypeOK
  <2>2. generation' = generation + 1 /\ generation' \in 0 .. MaxGeneration
    BY <1>3 DEF BeginAttempt, Generations
  <2> QED
    BY <2>1, <2>2 DEF BeginAttempt, IInv, TypeOK
<1>7. CallsAreAttempts'
  <2>1. \A d \in Calls : d # c => call[d].generation \in 0 .. generation
    BY <1>3 DEF IInv, CallsAreAttempts, At, None
  <2>2. \A d \in Calls : d # c => ~(call[d].generation = generation + 1)
    BY <1>3, <2>1
  <2>3. \A d \in Calls : IF At(d, "idle")' THEN call'[d].generation = None
                         ELSE call'[d].generation \in 1 .. generation + 1
    BY <1>3, <1>5 DEF IInv, CallsAreAttempts, At
  <2>4. \A d, e \in Calls :
          d # e /\ ~At(d, "idle")' => call'[d].generation # call'[e].generation
    BY <1>5, <2>2 DEF IInv, CallsAreAttempts, At
  <2>5. \A d \in Calls : At(d, "publish")' => call'[d].generation \in landed'
    BY <1>5 DEF BeginAttempt, IInv, CallsAreAttempts, At
  <2>6. generation' = generation + 1
    BY DEF BeginAttempt
  <2> QED
    BY <2>3, <2>4, <2>5, <2>6 DEF CallsAreAttempts, At
<1>8. DiagnosticsOfNewestDelivery'
  BY DEF BeginAttempt, DiagnosticsOfNewestDelivery
<1> QED
  BY <1>6, <1>7, <1>8 DEF IInv

(* A call that moves on without publishing keeps the invariant, as long as *)
(* what it comes to publish has landed.                                    *)
LEMMA MovingKeeps ==
  ASSUME nested' = nested, IInv, TypeOK', NEW c \in Calls, ~At(c, "idle"),
         UNCHANGED <<generation, diagnostics>>, landed \subseteq landed',
         call'[c].generation = call[c].generation, call'[c].at # "idle",
         call'[c].at = "publish" => call[c].generation \in landed',
         \A d \in Calls : d # c => call'[d] = call[d]
  PROVE  IInv'
<1>1. CallsAreAttempts'
  BY DEF IInv, CallsAreAttempts, At
<1>2. DiagnosticsOfNewestDelivery'
  BY DEF IInv, DiagnosticsOfNewestDelivery
<1> QED
  BY <1>1, <1>2 DEF IInv

(* A call that ends keeps the invariant, whatever it leaves published, as  *)
(* long as that is its own newest delivery or nothing new.                 *)
LEMMA EndingKeeps ==
  ASSUME nested' = nested, IInv, TypeOK', NEW c \in Calls, ~At(c, "idle"), End(c),
         UNCHANGED <<generation, landed>>,
         \/ diagnostics' \in {None, diagnostics}
         \/ /\ diagnostics' = call[c].generation
            /\ call[c].generation = generation
            /\ call[c].generation \in landed
  PROVE  IInv'
<1>1. /\ call'[c].at = "idle" /\ call'[c].generation = None
      /\ \A d \in Calls : d # c => call'[d] = call[d]
  BY DEF End, Idle, IInv, TypeOK
<1>2. \A d \in Calls : ~At(d, "idle") => call[d].generation # None
  BY DEF IInv, TypeOK, CallsAreAttempts, None
<1>3. CallsAreAttempts'
  BY <1>1, <1>2 DEF IInv, CallsAreAttempts, At
<1>4. DiagnosticsOfNewestDelivery'
  BY <1>1 DEF IInv, CallsAreAttempts, DiagnosticsOfNewestDelivery, At
<1> QED
  BY <1>3, <1>4 DEF IInv

(* Changing the figure to render, or not getting to render at all. *)
LEMMA EnteringKeeps ==
  ASSUME nested' = nested, IInv, NEW c \in Calls, EnterStrict(c) \/ EnterFallback(c)
  PROVE  IInv'
<1>1. ~At(c, "idle")
  BY DEF EnterStrict, EnterFallback, At
<1>2. /\ call'[c].generation = call[c].generation
      /\ call'[c].at \in {"native", "agg", "fail"}
      /\ \A d \in Calls : d # c => call'[d] = call[d]
      /\ UNCHANGED <<generation, diagnostics, landed, output, writer>>
  BY DEF EnterStrict, EnterFallback, Borrow, Move, IInv, TypeOK, CallStates
<1>3. TypeOK'
  <2>1. CASE Move(c, "fail") /\ UNCHANGED figure
    BY <1>2, <2>1, CallFields DEF IInv, TypeOK, Move, CallStates, Places
  <2>2. ASSUME NEW place \in Places, NEW canvas \in Calls \cup {ThisCanvas},
               Borrow(c, place, canvas), call[c].dpi # InvalidDpi
        PROVE  TypeOK'
    <3>1. figure' \in Figures
      BY <2>2, CallFields, ResolvedIsDpi DEF Borrow, Figures, IInv
    <3>2. call' \in [Calls -> CallStates]
      BY <2>2, CallFields DEF Borrow, IInv, TypeOK, CallStates
    <3> QED
      BY <1>2, <3>1, <3>2 DEF IInv, TypeOK
  <2>3. figure.canvas \in Calls \cup {ThisCanvas}
    BY DEF IInv, TypeOK, Figures
  <2> QED
    BY <2>1, <2>2, <2>3 DEF EnterStrict, EnterFallback, Places
<1> QED
  BY <1>1, <1>2, <1>3, MovingKeeps

(* Giving the figure back after rendering. *)
LEMMA LeavingKeeps ==
  ASSUME nested' = nested, IInv, NEW c \in Calls, LeaveStrict(c) \/ LeaveFallback(c)
  PROVE  IInv'
<1>1. ~At(c, "idle")
  BY DEF LeaveStrict, LeaveFallback, At
<1>2. /\ call'[c].generation = call[c].generation
      /\ call'[c].at \in {"deliver", "fail", "fallback"}
      /\ \A d \in Calls : d # c => call'[d] = call[d]
      /\ UNCHANGED <<generation, diagnostics, landed, output, writer>>
  BY DEF LeaveStrict, LeaveFallback, Move, IInv, TypeOK, CallStates
<1>3. call' \in [Calls -> CallStates]
  BY CallFields DEF LeaveStrict, LeaveFallback, Move, IInv, TypeOK, CallStates, Places
<1>4. figure' \in Figures
  BY CallFields DEF LeaveStrict, LeaveFallback, IInv, TypeOK, Figures
<1>5. TypeOK'
  BY <1>2, <1>3, <1>4 DEF IInv, TypeOK
<1> QED
  BY <1>1, <1>2, <1>5, MovingKeeps

(* Checking for a newer attempt, and writing. *)
LEMMA DeliveringKeeps ==
  ASSUME nested' = nested, IInv, NEW c \in Calls, Deliver(c) \/ WriteTarget(c)
  PROVE  IInv'
<1>1. ~At(c, "idle")
  BY DEF Deliver, WriteTarget, At
<1>2. /\ call'[c].generation = call[c].generation
      /\ call'[c].at \in {"publish", "write", "fail"}
      /\ \A d \in Calls : d # c => call'[d] = call[d]
      /\ UNCHANGED <<generation, diagnostics, figure>>
  BY DEF Deliver, WriteTarget, Move, IInv, TypeOK, CallStates
<1>3. call[c].generation \in Generations
  BY <1>1, CallFields DEF IInv, TypeOK, CallsAreAttempts, None
<1>4. /\ landed \subseteq landed' /\ landed' \subseteq Generations
      /\ call'[c].at = "publish" => call[c].generation \in landed'
  BY <1>3 DEF Deliver, WriteTarget, Move, IInv, TypeOK, CallStates
<1>5. TypeOK'
  BY <1>2, <1>3, <1>4, CallFields
  DEF Deliver, WriteTarget, Move, IInv, TypeOK, CallStates, Places
<1> QED
  BY <1>1, <1>2, <1>4, <1>5, MovingKeeps

\* The record of a call that ended.
LEMMA IdleIsCallState == Idle \in CallStates
BY CanvasAssumption DEF Idle, CallStates, Places, Requests, Figures, ThisCanvas, None

(* Publishing, or finding a newer attempt instead. *)
LEMMA PublishKeeps ==
  ASSUME nested' = nested, IInv, NEW c \in Calls, Publish(c)
  PROVE  IInv'
<1>1. ~At(c, "idle") /\ call[c].generation \in landed
  BY DEF Publish, At, IInv, CallsAreAttempts
<1>2. call[c].generation \in Generations
  BY <1>1 DEF IInv, TypeOK
<1>3. CASE End(c) /\ MayPublish(c)
           /\ diagnostics' = IF call[c].fallback THEN call[c].generation ELSE None
  <2>1. TypeOK'
    BY <1>2, <1>3, IdleIsCallState DEF Publish, End, IInv, TypeOK, None
  <2> QED
    BY <1>1, <1>3, <2>1, EndingKeeps DEF Publish, MayPublish, IsCurrent
<1>4. CASE Move(c, "fail") /\ UNCHANGED diagnostics
  <2>1. /\ call'[c].generation = call[c].generation /\ call'[c].at = "fail"
        /\ \A d \in Calls : d # c => call'[d] = call[d]
    BY <1>4 DEF Move, IInv, TypeOK, CallStates
  <2>2. TypeOK'
    BY <1>4, CallFields DEF Publish, Move, IInv, TypeOK, CallStates, Places
  <2> QED
    BY <1>1, <1>4, <2>1, <2>2, MovingKeeps DEF Publish
<1> QED
  BY <1>3, <1>4 DEF Publish

(* Failing, at the end of a call. *)
LEMMA FailKeeps ==
  ASSUME nested' = nested, IInv, NEW c \in Calls, Fail(c)
  PROVE  IInv'
<1>1. ~At(c, "idle")
  BY DEF Fail, At
<1>2. TypeOK'
  BY IdleIsCallState DEF Fail, End, IInv, TypeOK, None
<1> QED
  BY <1>1, <1>2, EndingKeeps DEF Fail

(* A refused request keeps the invariant: nothing is published any more. *)
LEMMA RejectKeeps ==
  ASSUME nested' = nested, IInv, NEW c \in Calls, RejectRequest(c)
  PROVE  IInv'
BY DEF RejectRequest, IInv, TypeOK, CallsAreAttempts, DiagnosticsOfNewestDelivery, At, None

(* Every step of the canvas keeps the invariant. *)
LEMMA NextIsSound == ASSUME IInv, [Next]_vars PROVE IInv'
<1>1. CASE Next
  BY <1>1, BeginKeeps, EnteringKeeps, LeavingKeeps, DeliveringKeeps, PublishKeeps,
     FailKeeps, RejectKeeps DEF Next, Step
<1>2. CASE UNCHANGED vars
  BY <1>2 DEF vars, IInv, TypeOK, CallsAreAttempts, DiagnosticsOfNewestDelivery, At
<1> QED
  BY <1>1, <1>2

(* Calls, attempts and diagnostics agree in every reachable state, whether *)
(* calls nest or interleave.                                               *)
THEOREM CanvasIsSound == Spec => []IInv
BY InitIsSound, NextIsSound, PTL DEF Spec

(* Every variable of the canvas and of its calls keeps its type. *)
THEOREM CanvasTypeCorrect == Spec => []TypeOK
<1>1. IInv => TypeOK
  BY DEF IInv
<1> QED
  BY <1>1, CanvasIsSound, PTL

(* What last_diagnostics shows is of the newest attempt, which delivered   *)
(* its bytes and is over (begin_attempt, publish, clear_if_current).       *)
THEOREM DiagnosticsAreTrue == Spec => []DiagnosticsOfNewestDelivery
<1>1. IInv => DiagnosticsOfNewestDelivery
  BY DEF IInv
<1> QED
  BY <1>1, CanvasIsSound, PTL

(* The failure of an older attempt withdraws nothing a newer one published *)
(* (clear_if_current).                                                     *)
THEOREM OlderFailuresAreHarmless == Spec => OlderFailuresWithdrawNothing
<1>1. ASSUME IInv, [Next]_vars
      PROVE  [diagnostics # None /\ generation' = generation /\ call' # call
              => diagnostics' = diagnostics]_vars
  <2>1. SUFFICES ASSUME Next, diagnostics # None, generation' = generation, call' # call
                 PROVE  diagnostics' = diagnostics
    BY <1>1
  <2>2. PICK c \in Calls :
          \/ RejectRequest(c)
          \/ \E request \in Requests, target \in BOOLEAN : BeginAttempt(c, request, target)
          \/ Step(c)
    BY <2>1 DEF Next
  <2>3. ~IsCurrent(c)
    BY <1>1, <2>1 DEF IInv, DiagnosticsOfNewestDelivery, IsCurrent
  <2>4. CASE RejectRequest(c)
    BY <2>1, <2>4 DEF RejectRequest
  <2>5. ASSUME NEW request \in Requests, NEW target \in BOOLEAN,
               BeginAttempt(c, request, target)
        PROVE  diagnostics' = diagnostics
    BY <1>1, <2>1, <2>5 DEF BeginAttempt, IInv, TypeOK
  <2>6. CASE Step(c)
    BY <2>3, <2>6 DEF Step, EnterStrict, LeaveStrict, EnterFallback, LeaveFallback,
       Deliver, WriteTarget, Publish, MayPublish, Fail, MayClear
  <2> QED
    BY <2>2, <2>4, <2>5, <2>6
<1> QED
  BY <1>1, CanvasIsSound, PTL DEF Spec, OlderFailuresWithdrawNothing

-----------------------------------------------------------------------------
(* Nested calls and the figure. *)

\* What a step of call c leaves of the other calls.
Others(c) == \A d \in Calls : d # c => call'[d] = call[d]

\* The calls around c are in callbacks, those inside it have ended.
Innermost(c) ==
  /\ \A d \in Calls : d > c => At(d, "idle")
  /\ \A d \in Calls : d < c => call[d].at \in CallbackPlaces

\* Calls are ordered.
LEMMA CallsAreOrdered ==
  ASSUME NEW c \in Calls, NEW d \in Calls
  PROVE  /\ d < c \/ d = c \/ d > c
         /\ d > c => d # c /\ ~(d < c)
         /\ d < c => d # c
BY CanvasAssumption

\* A call that is running, or can start, is the innermost.
LEMMA RunningIsInnermost ==
  ASSUME nested, NestedCalls, NEW c \in Calls,
         CanStart(c) \/ (Running(c) /\ ~At(c, "idle"))
  PROVE  Innermost(c)
BY DEF NestedCalls, CanStart, Running, Innermost

\* Of the calls other than c, a step of c changes nothing the figure depends on.
LEMMA OthersKept ==
  ASSUME NEW c \in Calls, Others(c), NEW d \in Calls, d # c
  PROVE  /\ Renders(d)' <=> Renders(d)
         /\ Made(d)' = Made(d)
         /\ call'[d].found = call[d].found
         /\ At(d, "idle")' <=> At(d, "idle")
         /\ call'[d].at = call[d].at
BY DEF Others, Renders, Made, At

\* The innermost call may move anywhere, as far as nesting is concerned.
LEMMA NestingKept ==
  ASSUME CanvasAssumption, NestedCalls, NEW c \in Calls, Innermost(c), Others(c)
  PROVE  \A e, d \in Calls :
           d < e /\ ~At(e, "idle")' => call'[d].at \in CallbackPlaces
<1>1. SUFFICES ASSUME NEW e \in Calls, NEW d \in Calls, d < e, ~At(e, "idle")'
               PROVE  call'[d].at \in CallbackPlaces
  OBVIOUS
<1>2. e \in Int /\ d \in Int /\ c \in Int
  BY CanvasAssumption
<1>3. ~(e > c)
  BY <1>1, <1>2, OthersKept DEF Innermost
<1>4. d < c
  BY <1>1, <1>2, <1>3
<1> QED
  BY <1>2, <1>4, OthersKept DEF Innermost

\* A step of a call that renders neither before nor after it.
LEMMA QuietStepKeeps ==
  ASSUME CanvasAssumption, NestedCalls, NEW c \in Calls, Innermost(c), Others(c),
         ~Renders(c), ~Renders(c)', UNCHANGED figure
  PROVE  NestedCalls'
<1>1. \A d \in Calls : /\ Renders(d)' <=> Renders(d)
                       /\ Renders(d) => Made(d)' = Made(d) /\ call'[d].found = call[d].found
  BY OthersKept
<1>2. \A d \in Calls : HasFigure(d)' <=> HasFigure(d)
  BY <1>1 DEF HasFigure
<1>3. \A d, e \in Calls : NextAround(d, e)' <=> NextAround(d, e)
  BY <1>1 DEF NextAround
<1>4. \A e \in Calls : Renders(e)' =>
        \/ call'[e].found = Original /\ \A d \in Calls : d < e => ~Renders(d)'
        \/ \E d \in Calls : NextAround(d, e)' /\ call'[e].found = Made(d)'
  <2>1. ASSUME NEW e \in Calls, Renders(e)
        PROVE  \/ call[e].found = Original /\ \A d \in Calls : d < e => ~Renders(d)
               \/ \E d \in Calls : NextAround(d, e) /\ Renders(d) /\ call[e].found = Made(d)
    BY <2>1 DEF NestedCalls, NextAround
  <2> QED
    BY <1>1, <1>3, <2>1
<1>5. \/ figure' = Original /\ \A e \in Calls : ~Renders(e)'
      \/ \E e \in Calls : HasFigure(e)' /\ figure' = Made(e)'
  BY <1>1, <1>2 DEF NestedCalls, HasFigure
<1>6. Original' = Original
  BY DEF Original
<1> QED
  BY <1>4, <1>5, <1>6, NestingKept DEF NestedCalls

\* Borrowing the figure: the call found what the call around it had made.
LEMMA BorrowKeeps ==
  ASSUME CanvasAssumption, TypeOK, NestedCalls, NEW c \in Calls, Innermost(c),
         Others(c), ~Renders(c), Renders(c)',
         call'[c].found = figure, figure' = Made(c)'
  PROVE  NestedCalls'
<1>1. \A d \in Calls : d > c => ~Renders(d) /\ ~Renders(d)'
  BY CallsAreOrdered, OthersKept DEF Innermost, At, Renders
<1>2. HasFigure(c)'
  BY <1>1 DEF HasFigure
<1>3. \A d \in Calls : d < c => (Renders(d)' <=> Renders(d)) /\ Made(d)' = Made(d)
  BY CallsAreOrdered, OthersKept
<1>4. \/ call'[c].found = Original /\ \A d \in Calls : d < c => ~Renders(d)'
      \/ \E d \in Calls : NextAround(d, c)' /\ call'[c].found = Made(d)'
  <2>1. CASE figure = Original /\ \A d \in Calls : ~Renders(d)
    BY <1>3, <2>1
  <2>2. ASSUME NEW d \in Calls, HasFigure(d), figure = Made(d)
        PROVE  NextAround(d, c)' /\ call'[c].found = Made(d)'
    <3>1. d < c
      BY <1>1, <2>2, CanvasAssumption DEF HasFigure
    <3>2. \A e \in Calls : d < e /\ e < c => ~Renders(e)'
      BY <1>3, <2>2, CanvasAssumption DEF HasFigure
    <3> QED
      BY <1>3, <2>2, <3>1, <3>2 DEF NextAround, HasFigure
  <2> QED
    BY <2>1, <2>2 DEF NestedCalls
<1>5. ASSUME NEW e \in Calls, Renders(e)', e # c
      PROVE  \/ call'[e].found = Original /\ \A d \in Calls : d < e => ~Renders(d)'
             \/ \E d \in Calls : NextAround(d, e)' /\ call'[e].found = Made(d)'
  <2>1. e < c /\ Renders(e) /\ call'[e].found = call[e].found
    BY <1>1, <1>5, OthersKept, CallsAreOrdered
  <2>2. CASE call[e].found = Original /\ \A d \in Calls : d < e => ~Renders(d)
    <3>1. \A d \in Calls : d < e => d < c
      BY <2>1, CanvasAssumption
    <3> QED
      BY <1>3, <2>1, <2>2, <3>1
  <2>3. ASSUME NEW d \in Calls, NextAround(d, e), call[e].found = Made(d)
        PROVE  NextAround(d, e)' /\ call'[e].found = Made(d)'
    <3>1. d \in Int /\ e \in Int /\ c \in Int /\ Calls \subseteq Int
      BY CanvasAssumption
    <3>2. d < c /\ \A b \in Calls : b < e => b < c
      BY <2>1, <2>3, <3>1 DEF NextAround
    <3> QED
      BY <1>3, <2>1, <2>3, <3>2 DEF NextAround
  <2>4. \/ call[e].found = Original /\ \A d \in Calls : d < e => ~Renders(d)
        \/ \E d \in Calls : NextAround(d, e) /\ call[e].found = Made(d)
    BY <2>1 DEF NestedCalls
  <2> QED
    BY <2>2, <2>3, <2>4
<1>6. Original' = Original
  BY DEF Original
<1> QED
  BY <1>2, <1>4, <1>5, <1>6, NestingKept DEF NestedCalls

\* Giving it back: the call around it has the figure again.
LEMMA GiveBackKeeps ==
  ASSUME CanvasAssumption, TypeOK, NestedCalls, NEW c \in Calls, Innermost(c),
         Others(c), Renders(c), ~Renders(c)', figure' = call[c].found
  PROVE  NestedCalls'
<1>1. \A d \in Calls : d > c => ~Renders(d) /\ ~Renders(d)'
  BY CallsAreOrdered, OthersKept DEF Innermost, At, Renders
<1>2. \A d \in Calls : d < c => (Renders(d)' <=> Renders(d)) /\ Made(d)' = Made(d)
  BY CallsAreOrdered, OthersKept
<1>3. \A d \in Calls : d < c \/ d = c \/ d > c
  BY CallsAreOrdered
<1>4. \/ figure' = Original /\ \A e \in Calls : ~Renders(e)'
      \/ \E e \in Calls : HasFigure(e)' /\ figure' = Made(e)'
  <2>1. CASE call[c].found = Original /\ \A d \in Calls : d < c => ~Renders(d)
    BY <1>1, <1>2, <1>3, <2>1
  <2>2. ASSUME NEW d \in Calls, NextAround(d, c), call[c].found = Made(d)
        PROVE  HasFigure(d)' /\ figure' = Made(d)'
    <3>1. \A e \in Calls : e > d => ~Renders(e)'
      BY <1>1, <1>2, <1>3, <2>2, CanvasAssumption DEF NextAround
    <3> QED
      BY <1>2, <2>2, <3>1 DEF NextAround, HasFigure
  <2> QED
    BY <2>1, <2>2 DEF NestedCalls
<1>5. ASSUME NEW e \in Calls, Renders(e)'
      PROVE  \/ call'[e].found = Original /\ \A d \in Calls : d < e => ~Renders(d)'
             \/ \E d \in Calls : NextAround(d, e)' /\ call'[e].found = Made(d)'
  <2>1. e < c /\ Renders(e) /\ call'[e].found = call[e].found
    BY <1>1, <1>3, <1>5, OthersKept, CanvasAssumption
  <2>2. CASE call[e].found = Original /\ \A d \in Calls : d < e => ~Renders(d)
    BY <1>2, <2>1, <2>2, CanvasAssumption
  <2>3. ASSUME NEW d \in Calls, NextAround(d, e), call[e].found = Made(d)
        PROVE  NextAround(d, e)' /\ call'[e].found = Made(d)'
    <3>1. d \in Int /\ e \in Int /\ c \in Int /\ Calls \subseteq Int
      BY CanvasAssumption
    <3>2. d < c /\ \A b \in Calls : b < e => b < c
      BY <2>1, <2>3, <3>1 DEF NextAround
    <3> QED
      BY <1>2, <2>1, <2>3, <3>2 DEF NextAround
  <2> QED
    BY <2>1, <2>2, <2>3 DEF NestedCalls
<1>6. Original' = Original
  BY DEF Original
<1> QED
  BY <1>4, <1>5, <1>6, NestingKept DEF NestedCalls

\* Going to render.
LEMMA EnteringNests ==
  ASSUME CanvasAssumption, TypeOK, nested, NestedCalls, NEW c \in Calls,
         EnterStrict(c) \/ EnterFallback(c)
  PROVE  NestedCalls'
<1>1. ~At(c, "idle") /\ ~Renders(c)
  BY DEF EnterStrict, EnterFallback, At, Renders
<1>2. Innermost(c)
  BY <1>1, RunningIsInnermost DEF EnterStrict, EnterFallback
<1>3. Others(c)
  BY DEF EnterStrict, EnterFallback, Borrow, Move, Others, TypeOK
<1>4. CASE Move(c, "fail") /\ UNCHANGED figure
  <2>1. ~Renders(c)'
    BY <1>4 DEF Move, Renders, TypeOK, CallStates
  <2> QED
    BY <1>1, <1>2, <1>3, <1>4, <2>1, QuietStepKeeps
<1>5. ASSUME NEW place \in {"native", "agg"},
             Borrow(c, place, IF place = "agg" THEN c ELSE figure.canvas)
      PROVE  NestedCalls'
  <2>1. /\ call'[c].at = place /\ call'[c].dpi = call[c].dpi /\ call'[c].found = figure
    BY <1>5 DEF Borrow, TypeOK, CallStates
  <2>2. Renders(c)' /\ figure' = Made(c)'
    BY <1>5, <2>1 DEF Borrow, Renders, Made, Resolved, At
  <2> QED
    BY <1>1, <1>2, <1>3, <2>1, <2>2, BorrowKeeps
<1> QED
  BY <1>4, <1>5 DEF EnterStrict, EnterFallback

\* Coming back from rendering.
LEMMA LeavingNests ==
  ASSUME CanvasAssumption, TypeOK, nested, NestedCalls, NEW c \in Calls,
         LeaveStrict(c) \/ LeaveFallback(c)
  PROVE  NestedCalls'
<1>1. ~At(c, "idle") /\ Renders(c)
  BY DEF LeaveStrict, LeaveFallback, At, Renders
<1>2. Innermost(c)
  BY <1>1, RunningIsInnermost DEF LeaveStrict, LeaveFallback
<1>3. Others(c) /\ ~Renders(c)'
  BY DEF LeaveStrict, LeaveFallback, Move, Others, Renders, TypeOK, CallStates
<1>4. figure = Made(c)
  <2>1. HasFigure(c) /\ \A d \in Calls : HasFigure(d) => d = c
    BY <1>1, <1>2, CallsAreOrdered DEF HasFigure, Innermost, At, Renders
  <2> QED
    BY <1>1, <2>1 DEF NestedCalls
<1>5. figure' = call[c].found
  <2>1. CASE LeaveStrict(c)
    <3>1. figure.canvas = call[c].found.canvas
      BY <1>4, <2>1 DEF LeaveStrict, Made, At
    <3>2. figure \in Figures /\ call[c].found \in Figures
      BY CallFields DEF TypeOK
    <3> QED
      BY <2>1, <3>1, <3>2 DEF LeaveStrict, Figures
  <2>2. CASE LeaveFallback(c)
    BY <2>2 DEF LeaveFallback
  <2> QED
    BY <2>1, <2>2
<1> QED
  BY <1>1, <1>2, <1>3, <1>5, GiveBackKeeps

\* Everything else leaves the figure alone.
LEMMA OtherStepsNest ==
  ASSUME CanvasAssumption, TypeOK, nested, NestedCalls, NEW c \in Calls,
         \/ \E request \in Requests, target \in BOOLEAN : BeginAttempt(c, request, target)
         \/ Deliver(c) \/ WriteTarget(c) \/ Publish(c) \/ Fail(c)
  PROVE  NestedCalls'
<1>1. ~Renders(c) /\ UNCHANGED figure
  BY DEF BeginAttempt, CanStart, Deliver, WriteTarget, Publish, Fail, At, Renders
<1>2. CanStart(c) \/ (Running(c) /\ ~At(c, "idle"))
  BY DEF BeginAttempt, Deliver, WriteTarget, Publish, Fail, At
<1>3. PICK state : /\ call' = [call EXCEPT ![c] = state]
                   /\ state.at \notin {"native", "agg"}
  <2>1. ASSUME NEW place \in {"publish", "write", "fail"}, Move(c, place)
        PROVE  /\ call' = [call EXCEPT ![c] = [call[c] EXCEPT !.at = place]]
               /\ [call[c] EXCEPT !.at = place].at \notin {"native", "agg"}
    BY <2>1, CallFields DEF Move, CallStates
  <2>2. ASSUME End(c)
        PROVE  call' = [call EXCEPT ![c] = Idle] /\ Idle.at \notin {"native", "agg"}
    BY <2>2 DEF End, Idle
  <2>3. ASSUME NEW request \in Requests, NEW target \in BOOLEAN,
               BeginAttempt(c, request, target)
        PROVE  \E state : call' = [call EXCEPT ![c] = state]
                          /\ state.at \notin {"native", "agg"}
    <3>1. PICK dpi : call' = [call EXCEPT ![c] = [Idle EXCEPT
                       !.at = "strict", !.generation = generation + 1,
                       !.dpi = dpi, !.target = target]]
      BY <2>3 DEF BeginAttempt
    <3>2. [Idle EXCEPT !.at = "strict", !.generation = generation + 1,
                       !.dpi = dpi, !.target = target].at = "strict"
      BY DEF Idle
    <3> QED
      BY <3>1, <3>2
  <2> QED
    BY <2>1, <2>2, <2>3 DEF Deliver, WriteTarget, Publish, Fail
<1>4. Others(c) /\ ~Renders(c)'
  BY <1>3 DEF Others, Renders, TypeOK
<1> QED
  BY <1>1, <1>2, <1>4, RunningIsInnermost, QuietStepKeeps

(* Nested calls and the figure agree in every reachable state.             *)
THEOREM NestingIsSound == Spec => []NInv
<1>1. Init => NInv
  BY InitIsSound DEF Init, IInv, NInv, NestedCalls, Original, Renders, Idle, At
<1>2. ASSUME IInv, NInv, IInv', [Next]_vars PROVE NInv'
  <2>1. TypeOK /\ TypeOK'
    BY <1>2 DEF IInv
  <2>0. nested' = nested
    BY <1>2 DEF Next, vars
  <2>2. SUFFICES ASSUME nested PROVE NestedCalls'
    BY <2>0, <2>1 DEF NInv
  <2>3. NestedCalls
    BY <1>2, <2>2 DEF NInv
  <2>4. CASE UNCHANGED <<figure, call>>
    BY <2>3, <2>4 DEF NestedCalls, NextAround, HasFigure, Renders, Made, Original, At
  <2>5. ASSUME NEW c \in Calls, Step(c) PROVE NestedCalls'
    BY <2>1, <2>2, <2>3, <2>5, CanvasAssumption, EnteringNests, LeavingNests,
       OtherStepsNest DEF Step
  <2>6. ASSUME NEW c \in Calls, NEW request \in Requests, NEW target \in BOOLEAN,
               BeginAttempt(c, request, target)
        PROVE  NestedCalls'
    BY <2>1, <2>2, <2>3, <2>6, CanvasAssumption, OtherStepsNest
  <2> QED
    BY <1>2, <2>4, <2>5, <2>6 DEF Next, RejectRequest, vars
<1> QED
  BY <1>1, <1>2, CanvasIsSound, PTL DEF Spec

(* Calls that nest give the figure back as they found it, to whatever      *)
(* depth and however they end (_render_strict, _render_hybrid_fallback).   *)
THEOREM FigureIsSafe == Spec => []FigureIsGivenBack
<1>1. NInv => FigureIsGivenBack
  <2>1. SUFFICES ASSUME NInv, nested PROVE FigureIsGivenBack
    BY DEF FigureIsGivenBack
  <2>2. TypeOK /\ NestedCalls
    BY <2>1 DEF NInv
  <2>3. \A c, d \in Calls : HasFigure(c) /\ HasFigure(d) => c = d
    BY CallsAreOrdered DEF HasFigure
  <2>4. ASSUME NEW c \in Calls, HasFigure(c)
        PROVE  /\ call[c].dpi \in Dpis => figure.dpi = call[c].dpi
               /\ At(c, "agg") => figure.canvas = c
    <3>1. figure = Made(c)
      BY <2>2, <2>3, <2>4 DEF NestedCalls, HasFigure
    <3> QED
      BY <3>1, CanvasAssumption DEF Made
  <2>5. (\A c \in Calls : ~Renders(c)) => figure = Original
    BY <2>2 DEF NestedCalls, HasFigure
  <2> QED
    BY <2>4, <2>5 DEF FigureIsGivenBack, Original
<1> QED
  BY <1>1, NestingIsSound, PTL
=============================================================================
