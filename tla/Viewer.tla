-------------------------------- MODULE Viewer --------------------------------
(***************************************************************************)
(* The viewer's view history and pending gesture over a scene it shares    *)
(* with its owner (crates/lumenplot-viewer/src/lib.rs).                    *)
(*                                                                         *)
(* Every view step of the viewer is one transaction on the scene, taken    *)
(* here as one step; SceneTransaction models what happens inside it.       *)
(* scene_mut() lends the scene to a caller whose transactions the viewer   *)
(* never hears of.                                                         *)
(***************************************************************************)
EXTENDS Integers, Sequences

CONSTANTS
  Axes,            \* the axes of a view
  Coordinates,     \* the finite coordinates
  PanParts,        \* a pan moves by the span over PanParts (10)
  HistoryLimit,    \* VIEWER_HISTORY_LIMIT
  NoView,          \* bounds that are no view: empty or not finite
  None

ASSUME ViewerAssumption ==
  /\ Coordinates \subseteq Int
  /\ PanParts \in Nat \ {0}
  /\ HistoryLimit \in Nat \ {0}
  /\ NoView \notin [Axes -> [lo : Coordinates, hi : Coordinates]]

VARIABLES
  scene,      \* the PlotScene, as far as views go
  history,    \* ViewerHistory
  pending,    \* the gesture in progress
  focus,      \* ViewerFocus
  begun,      \* history variable: the view on which the gesture began
  disturbed   \* history variable: what the scene's owner has changed

vars == <<scene, history, pending, focus, begun, disturbed>>

-----------------------------------------------------------------------------
Ranges == {r \in [lo : Coordinates, hi : Coordinates] : r.lo < r.hi}
Views == [Axes -> Ranges]
AxisScales == [Axes -> {"Linear", "Log10"}]

\* spent: the revisions have run out, and no change can be committed.
Scenes ==
  [canonical : Views, viewport : Views, scales : AxisScales, spent : BOOLEAN]

\* AxisScales::validate
Fits(scales, view) ==
  \A a \in Axes : scales[a] = "Log10" => view[a].lo > 0

FittingScenes ==
  {s \in Scenes : Fits(s.scales, s.canonical) /\ Fits(s.scales, s.viewport)}

Histories == [entries : Seq(Views), index : Nat]

TypeOK ==
  /\ scene \in FittingScenes
  /\ history \in Histories
  /\ pending \in Views \cup {NoView, None}
  /\ focus \in {"None", "Plot", "Legend"}
  /\ begun \in Views \cup {None}
  /\ disturbed \subseteq {"views", "scales", "revisions"}

Init ==
  /\ scene \in {s \in FittingScenes : ~s.spent}
  /\ history = [entries |-> <<scene.viewport>>, index |-> 1]
  /\ pending = None
  /\ focus = "None"
  /\ begun = None
  /\ disturbed = {}

-----------------------------------------------------------------------------
(* bounds_to_viewport: bounds that overflow, or that rounding has emptied,  *)
(* are no view.                                                            *)
ViewOf(bounds) == IF bounds \in Views THEN bounds ELSE NoView

Shift(r, distance) == [lo |-> r.lo + distance, hi |-> r.hi + distance]

Shifted(view, axes, way) ==
  [a \in Axes |->
     IF a \in axes
     THEN Shift(view[a], way * ((view[a].hi - view[a].lo) \div PanParts))
     ELSE view[a]]

Around(r, half) ==
  LET center == (r.lo + r.hi) \div 2
  IN [lo |-> center - half, hi |-> center + half]

\* Only a gesture is panned further before anyone looks whether it is a view.
PanBounds(view, axes) ==
  IF view = NoView THEN NoView ELSE ViewOf(Shifted(view, axes, 1))

ZoomBounds(view, axes) ==
  ViewOf([a \in Axes |->
            IF a \in axes
            THEN Around(view[a], ((view[a].hi - view[a].lo) * 4) \div 10)
            ELSE view[a]])

BoxBounds(view, axes) ==
  ViewOf([a \in Axes |->
            IF a \in axes
            THEN Around(view[a], (view[a].hi - view[a].lo) \div 4)
            ELSE view[a]])

NavigateBounds(view, axis, way) == ViewOf(Shifted(view, {axis}, way))

-----------------------------------------------------------------------------
\* Mutant of Push: what was undone stays ahead of the new entry.
PushKeepingTail(h, view) ==
  IF h.entries[h.index] = view
  THEN h
  ELSE [entries |-> SubSeq(h.entries, 1, h.index) \o <<view>>
                      \o SubSeq(h.entries, h.index + 2, Len(h.entries)),
        index |-> h.index + 1]

\* ViewerHistory::push
Push(h, view) ==
  LET kept == Append(SubSeq(h.entries, 1, h.index), view)
  IN IF h.entries[h.index] = view
     THEN h
     ELSE IF Len(kept) > HistoryLimit
          THEN [entries |-> Tail(kept), index |-> h.index]
          ELSE [entries |-> kept, index |-> h.index + 1]

\* Transaction, set_viewport and commit succeed and change the scene.
Commits(view) ==
  /\ view # NoView
  /\ Fits(scene.scales, view)
  /\ view # scene.viewport
  /\ ~scene.spent

EndGesture == pending' = None /\ begun' = None

\* Mutant of Display: a gesture survives the change of view under it.
DisplayKeepingGesture(view) ==
  /\ scene' = [scene EXCEPT !.viewport = view]
  /\ UNCHANGED <<pending, begun>>

Display(view) ==
  /\ scene' = [scene EXCEPT !.viewport = view]
  /\ EndGesture

(* apply_bounds: refused bounds and the view on display leave all as it was *)
ApplyBounds(view) ==
  /\ Commits(view)
  /\ Display(view)
  /\ history' = Push(history, view)
  /\ UNCHANGED <<focus, disturbed>>

ApplyPan(axes) == ApplyBounds(PanBounds(scene.viewport, axes))
ApplyZoom(axes) == ApplyBounds(ZoomBounds(scene.viewport, axes))
ApplyBox(axes) == ApplyBounds(BoxBounds(scene.viewport, axes))
ApplyNavigate(axis, way) == ApplyBounds(NavigateBounds(scene.viewport, axis, way))
ApplyHome == ApplyBounds(scene.canonical)

(* apply_bounds_without_history_push, after the index has already moved.   *)
ApplyHistory(index) ==
  /\ history' = [history EXCEPT !.index = index]
  /\ LET view == history.entries[index]
     IN \/ Commits(view) /\ Display(view)
        \/ ~Commits(view) /\ UNCHANGED <<scene, pending, begun>>
  /\ UNCHANGED <<focus, disturbed>>

ApplyHistoryPrevious ==
  /\ history.index > 1
  /\ ApplyHistory(history.index - 1)

ApplyHistoryNext ==
  /\ history.index < Len(history.entries)
  /\ ApplyHistory(history.index + 1)

-----------------------------------------------------------------------------
BufferPan(axes) ==
  /\ \/ pending = None /\ pending' = PanBounds(scene.viewport, axes)
                       /\ begun' = scene.viewport
     \/ pending # None /\ pending' = PanBounds(pending, axes)
                       /\ UNCHANGED begun
  /\ UNCHANGED <<scene, history, focus, disturbed>>

(* commit_pending: a gesture that cannot be committed stays pending.       *)
CommitPending ==
  /\ pending # None
  /\ ApplyBounds(pending)

CancelPending ==
  /\ EndGesture
  /\ UNCHANGED <<scene, history, focus, disturbed>>

\* With two stops the focus moves alike in both directions, but from nowhere.
MoveFocus ==
  /\ focus' \in CASE focus = "None"   -> {"Plot", "Legend"}
                  [] focus = "Plot"   -> {"Legend"}
                  [] focus = "Legend" -> {"Plot"}
  /\ UNCHANGED <<scene, history, pending, begun, disturbed>>

-----------------------------------------------------------------------------
ViewStep ==
  \/ \E axes \in (SUBSET Axes) \ {{}} : ApplyPan(axes) \/ ApplyZoom(axes) \/ ApplyBox(axes)
  \/ \E axis \in Axes, way \in {1, -1} : ApplyNavigate(axis, way)
  \/ ApplyHome
  \/ ApplyHistoryPrevious
  \/ ApplyHistoryNext

GestureStep ==
  \/ \E axes \in (SUBSET Axes) \ {{}} : BufferPan(axes)
  \/ CommitPending
  \/ CancelPending

ViewerNext == ViewStep \/ GestureStep \/ MoveFocus

(* scene_mut: the scene's owner commits a transaction of its own, on any    *)
(* of the scene's parts, or has spent the last revision.                   *)
SceneMut ==
  /\ scene' \in FittingScenes
  /\ ~scene.spent
  /\ disturbed' = disturbed
       \cup (IF scene'.viewport # scene.viewport THEN {"views"} ELSE {})
       \cup (IF scene'.scales # scene.scales THEN {"scales"} ELSE {})
       \cup (IF scene'.spent THEN {"revisions"} ELSE {})
  /\ UNCHANGED <<history, pending, focus, begun>>

Next == ViewerNext \/ SceneMut

Spec == Init /\ [][Next]_vars

\* A viewer whose owner leaves the scene to it.
AloneSpec == Init /\ [][ViewerNext]_vars

-----------------------------------------------------------------------------
(* The history is usable whatever the owner of the scene does: it points at *)
(* an entry, keeps no more than its limit, and no step along it is idle,    *)
(* which truncating, dropping the oldest and skipping unchanged views       *)
(* (push) must establish together.                                         *)
HistoryUsable ==
  /\ Len(history.entries) \in 1 .. HistoryLimit
  /\ history.index \in 1 .. Len(history.entries)
  /\ \A i \in 1 .. Len(history.entries) - 1 :
       history.entries[i] # history.entries[i + 1]

(* The entry the history points at is the view on display: the two are kept *)
(* by separate calls (push, previous and next against the transaction), so  *)
(* only a scene nobody else edits keeps them together.                     *)
HistoryFollowsScene ==
  disturbed = {} => history.entries[history.index] = scene.viewport

(* A gesture in progress began on the view still on display: no view step   *)
(* of the viewer leaves one behind that would jump when it is committed.    *)
GestureBeganHere ==
  "views" \notin disturbed /\ pending # None => begun = scene.viewport

\* Undisturbed, nothing stands in the way of a step along the history.
EntriesFit ==
  disturbed = {} =>
    /\ ~scene.spent
    /\ \A i \in 1 .. Len(history.entries) : Fits(scene.scales, history.entries[i])

(* What every step keeps, the proofs' inductive invariant: the view shown   *)
(* and the entry pointed at agree because every remembered view would still *)
(* be accepted.                                                            *)
IInv ==
  /\ TypeOK
  /\ HistoryUsable
  /\ EntriesFit
  /\ HistoryFollowsScene
  /\ GestureBeganHere

Undo == INSTANCE ViewUndo WITH
  Shown <- Views,
  PastLimit <- HistoryLimit - 1,
  past <- SubSeq(history.entries, 1, history.index - 1),
  present <- scene.viewport,
  future <- SubSeq(history.entries, history.index + 1, Len(history.entries))

(* As long as nobody else changes view or scales, the viewer goes back and  *)
(* forward through the views its user saw, losing only the oldest, however  *)
(* steps that change nothing, fail, or commit a gesture come in between.    *)
UndoUndisturbed ==
  /\ Undo!UndoInit
  /\ [][disturbed' = {} => Undo!UndoNext \/ UNCHANGED Undo!undoVars]_vars
=============================================================================
