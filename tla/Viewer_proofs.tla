----------------------------- MODULE Viewer_proofs -----------------------------
(***************************************************************************)
(* Proofs about Viewer, for every set of axes and coordinates and every     *)
(* history limit; then about InputRouting, for every host code and key:     *)
(* what is routed is a step of the viewer, so everything proved of the      *)
(* viewer holds under the hosts' input, and the runtime's history is the    *)
(* viewer's.                                                               *)
(***************************************************************************)
EXTENDS InputRouting, SequenceTheorems, TLAPS

-----------------------------------------------------------------------------
(* A view step yields a view, or no view.                                  *)
LEMMA StepsYieldViews ==
  ASSUME NEW view, NEW axes, NEW axis, NEW way
  PROVE  /\ PanBounds(view, axes) \in Views \cup {NoView}
         /\ NavigateBounds(view, axis, way) \in Views \cup {NoView}
         /\ ZoomBounds(view, axes) \in Views \cup {NoView}
         /\ BoxBounds(view, axes) \in Views \cup {NoView}
<1>1. \A bounds : ViewOf(bounds) \in Views \cup {NoView}
  BY DEF ViewOf
<1> QED
  BY <1>1 DEF PanBounds, NavigateBounds, ZoomBounds, BoxBounds

(* Pushing a view onto h yields g: the entries up to the index, then the    *)
(* view, with the oldest dropped when there are too many.                  *)
Appends(h, view, g) ==
  /\ h.index + 1 <= HistoryLimit
  /\ g = [entries |-> Append(SubSeq(h.entries, 1, h.index), view),
          index |-> h.index + 1]
  /\ g.index = h.index + 1
  /\ g.entries \in Seq(Views)
  /\ Len(g.entries) = h.index + 1
  /\ \A i \in 1 .. h.index : g.entries[i] = h.entries[i]
  /\ g.entries[h.index + 1] = view

Rolls(h, view, g) ==
  /\ h.index + 1 > HistoryLimit
  /\ g = [entries |-> Tail(Append(SubSeq(h.entries, 1, h.index), view)),
          index |-> h.index]
  /\ g.index = h.index
  /\ g.entries \in Seq(Views)
  /\ Len(g.entries) = h.index
  /\ \A i \in 1 .. h.index - 1 : g.entries[i] = h.entries[i + 1]
  /\ g.entries[h.index] = view

(* What push returns for a view that is not the one pointed at.            *)
LEMMA PushedHistory ==
  ASSUME NEW h \in Histories, NEW view \in Views,
         h.index \in 1 .. Len(h.entries), h.entries[h.index] # view
  PROVE  Appends(h, view, Push(h, view)) \/ Rolls(h, view, Push(h, view))
<1> DEFINE shown == SubSeq(h.entries, 1, h.index)
           kept == Append(shown, view)
<1>1. h.entries \in Seq(Views) /\ h.index \in Nat /\ h.index >= 1 /\ h.index <= Len(h.entries)
  BY DEF Histories
<1>2. /\ shown \in Seq(Views) /\ Len(shown) = h.index
      /\ \A i \in 1 .. h.index : shown[i] = h.entries[i]
  BY <1>1
<1>3. /\ kept \in Seq(Views) /\ Len(kept) = h.index + 1
      /\ \A i \in 1 .. h.index : kept[i] = h.entries[i]
      /\ kept[h.index + 1] = view
  BY <1>1, <1>2
<1>4. /\ Tail(kept) \in Seq(Views) /\ Len(Tail(kept)) = h.index
      /\ \A i \in 1 .. h.index : Tail(kept)[i] = kept[i + 1]
  BY <1>1, <1>3
<1>5. HistoryLimit \in Nat
  BY ViewerAssumption
<1>6. Push(h, view) = IF Len(kept) > HistoryLimit
                      THEN [entries |-> Tail(kept), index |-> h.index]
                      ELSE [entries |-> kept, index |-> h.index + 1]
  BY DEF Push
<1>7. CASE Len(kept) > HistoryLimit
  <2>1. Push(h, view) = [entries |-> Tail(kept), index |-> h.index]
    BY <1>6, <1>7
  <2>2. \A i \in 1 .. h.index - 1 : Tail(kept)[i] = h.entries[i + 1]
    BY <1>1, <1>3, <1>4
  <2>3. Tail(kept)[h.index] = view
    BY <1>1, <1>3, <1>4
  <2>4. Push(h, view).index = h.index /\ Push(h, view).entries = Tail(kept)
    BY <2>1
  <2>5. h.index + 1 > HistoryLimit
    BY <1>1, <1>3, <1>5, <1>7
  <2> QED
    BY <1>4, <2>1, <2>2, <2>3, <2>4, <2>5 DEF Rolls
<1>8. CASE ~(Len(kept) > HistoryLimit)
  <2>1. Push(h, view) = [entries |-> kept, index |-> h.index + 1]
    BY <1>6, <1>8
  <2>2. Push(h, view).index = h.index + 1 /\ Push(h, view).entries = kept
    BY <2>1
  <2>3. h.index + 1 <= HistoryLimit
    BY <1>1, <1>3, <1>5, <1>8
  <2> QED
    BY <1>3, <2>1, <2>2, <2>3 DEF Appends
<1> QED
  BY <1>7, <1>8

-----------------------------------------------------------------------------
(* The history after a push is usable, and its entries are old ones or the  *)
(* view pushed.                                                            *)
LEMMA PushKeepsHistoryUsable ==
  ASSUME TypeOK, HistoryUsable, NEW view \in Views,
         history.entries[history.index] # view,
         history' = Push(history, view)
  PROVE  /\ history' \in Histories
         /\ HistoryUsable'
         /\ history'.entries[history'.index] = view
         /\ \A i \in 1 .. Len(history'.entries) :
              \/ history'.entries[i] = view
              \/ \E j \in 1 .. Len(history.entries) :
                   history'.entries[i] = history.entries[j]
<1>1. /\ history \in Histories
      /\ history.index \in 1 .. Len(history.entries)
      /\ Len(history.entries) \in 1 .. HistoryLimit
      /\ \A i \in 1 .. Len(history.entries) - 1 :
           history.entries[i] # history.entries[i + 1]
  BY DEF TypeOK, HistoryUsable
<1>2. history.index \in Nat /\ Len(history.entries) \in Nat /\ HistoryLimit \in Nat
  BY <1>1, ViewerAssumption DEF Histories
<1>3. CASE Appends(history, view, history')
  <2>1. history' \in Histories
    BY <1>2, <1>3 DEF Histories, Appends
  <2>2. \A i \in 1 .. Len(history'.entries) - 1 :
          history'.entries[i] # history'.entries[i + 1]
    BY <1>1, <1>2, <1>3 DEF Appends
  <2>3. HistoryUsable'
    BY <1>2, <1>3, <2>2 DEF HistoryUsable, Appends
  <2>4. \A i \in 1 .. Len(history'.entries) :
          \/ history'.entries[i] = view
          \/ \E j \in 1 .. Len(history.entries) :
               history'.entries[i] = history.entries[j]
    BY <1>1, <1>2, <1>3 DEF Appends
  <2> QED
    BY <1>3, <2>1, <2>3, <2>4 DEF Appends
<1>4. CASE Rolls(history, view, history')
  <2>1. history' \in Histories
    BY <1>2, <1>4 DEF Histories, Rolls
  <2>2. \A i \in 1 .. Len(history'.entries) - 1 :
          history'.entries[i] # history'.entries[i + 1]
    BY <1>1, <1>2, <1>4 DEF Rolls
  <2>3. HistoryUsable'
    BY <1>1, <1>2, <1>4, <2>2 DEF HistoryUsable, Rolls
  <2>4. \A i \in 1 .. Len(history'.entries) :
          \/ history'.entries[i] = view
          \/ \E j \in 1 .. Len(history.entries) :
               history'.entries[i] = history.entries[j]
    BY <1>1, <1>2, <1>4 DEF Rolls
  <2> QED
    BY <1>4, <2>1, <2>3, <2>4 DEF Rolls
<1>5. /\ history \in Histories /\ view \in Views /\ history.index \in 1 .. Len(history.entries)
      /\ history.entries[history.index] # view
  BY <1>1
<1>6. Appends(history, view, history') \/ Rolls(history, view, history')
  BY <1>5, PushedHistory
<1> QED
  BY <1>3, <1>4, <1>6

(* A view step of the viewer keeps the invariant.                          *)
LEMMA ApplyBoundsIsSound ==
  ASSUME IInv, NEW view \in Views \cup {NoView}, ApplyBounds(view)
  PROVE  IInv'
<1>1. /\ view \in Views /\ Fits(scene.scales, view)
      /\ view # scene.viewport /\ ~scene.spent
      /\ scene' = [scene EXCEPT !.viewport = view]
      /\ pending' = None /\ begun' = None
      /\ history' = Push(history, view)
      /\ UNCHANGED <<focus, disturbed>>
  BY DEF ApplyBounds, Commits, Display, EndGesture
<1>2. scene \in FittingScenes
  BY DEF IInv, TypeOK
<1>3. /\ scene' \in FittingScenes
      /\ scene'.scales = scene.scales /\ scene'.spent = scene.spent
      /\ scene'.viewport = view
  BY <1>1, <1>2 DEF FittingScenes, Scenes
<1>4. /\ history.entries \in Seq(Views) /\ history.index \in 1 .. Len(history.entries)
      /\ HistoryUsable /\ TypeOK
  BY DEF IInv, TypeOK, HistoryUsable, Histories
<1>5. CASE history.entries[history.index] # view
  <2>1. /\ history' \in Histories
        /\ HistoryUsable'
        /\ history'.entries[history'.index] = view
        /\ \A i \in 1 .. Len(history'.entries) :
             \/ history'.entries[i] = view
             \/ \E j \in 1 .. Len(history.entries) :
                  history'.entries[i] = history.entries[j]
    BY <1>1, <1>4, <1>5, PushKeepsHistoryUsable
  <2>2. TypeOK'
    BY <1>1, <1>3, <1>4, <2>1 DEF TypeOK
  <2>3. EntriesFit'
    BY <1>1, <1>3, <2>1 DEF IInv, EntriesFit
  <2>4. HistoryFollowsScene' /\ GestureBeganHere'
    BY <1>1, <1>3, <2>1 DEF HistoryFollowsScene, GestureBeganHere
  <2> QED
    BY <2>1, <2>2, <2>3, <2>4 DEF IInv
<1>6. CASE history.entries[history.index] = view
  <2>1. history' = history
    BY <1>1, <1>6 DEF Push
  <2>2. TypeOK'
    BY <1>1, <1>3, <1>4, <2>1 DEF TypeOK
  <2>3. EntriesFit' /\ HistoryUsable'
    BY <1>1, <1>3, <2>1 DEF IInv, EntriesFit, HistoryUsable
  <2>4. HistoryFollowsScene' /\ GestureBeganHere'
    BY <1>1, <1>3, <1>6, <2>1 DEF HistoryFollowsScene, GestureBeganHere
  <2> QED
    BY <2>2, <2>3, <2>4 DEF IInv
<1> QED
  BY <1>5, <1>6

(* A step along the history keeps the invariant: undisturbed, the entry it  *)
(* comes to differs from the view on display and is accepted.              *)
LEMMA ApplyHistoryIsSound ==
  ASSUME IInv, NEW i \in 1 .. Len(history.entries), ApplyHistory(i),
         i = history.index - 1 \/ i = history.index + 1
  PROVE  IInv'
<1> DEFINE view == history.entries[i]
<1>1. /\ history' = [history EXCEPT !.index = i]
      /\ \/ Commits(view) /\ Display(view)
         \/ ~Commits(view) /\ UNCHANGED <<scene, pending, begun>>
      /\ UNCHANGED <<focus, disturbed>>
  BY DEF ApplyHistory
<1>2. /\ TypeOK /\ HistoryUsable /\ EntriesFit /\ HistoryFollowsScene
      /\ GestureBeganHere
  BY DEF IInv
<1>3. /\ history.entries \in Seq(Views) /\ history.index \in Nat
      /\ history.index \in 1 .. Len(history.entries) /\ view \in Views
      /\ \A j \in 1 .. Len(history.entries) - 1 :
           history.entries[j] # history.entries[j + 1]
  BY <1>2 DEF TypeOK, HistoryUsable, Histories
<1>4. /\ history' \in Histories /\ history'.entries = history.entries
      /\ history'.index = i
  <2>1. history \in Histories /\ i \in Nat
    BY <1>2, <1>3 DEF TypeOK
  <2> QED
    BY <1>1, <2>1 DEF Histories
<1>5. HistoryUsable'
  BY <1>2, <1>4 DEF HistoryUsable
<1>6. view # history.entries[history.index]
  <2>1. history.index \in Nat /\ i \in Nat /\ Len(history.entries) \in Nat
    BY <1>3
  <2>2. CASE i = history.index - 1
    <3>1. i \in 1 .. Len(history.entries) - 1 /\ history.index = i + 1
      BY <1>3, <2>1, <2>2
    <3> QED
      BY <1>3, <3>1
  <2>3. CASE i = history.index + 1
    <3>1. history.index \in 1 .. Len(history.entries) - 1
      BY <1>3, <2>1, <2>3
    <3> QED
      BY <1>3, <2>3, <3>1
  <2> QED
    BY <2>2, <2>3
<1>7. CASE Commits(view) /\ Display(view)
  <2>1. /\ scene' = [scene EXCEPT !.viewport = view]
        /\ pending' = None /\ begun' = None /\ Fits(scene.scales, view)
    BY <1>7 DEF Commits, Display, EndGesture
  <2>2. /\ scene' \in FittingScenes
        /\ scene'.scales = scene.scales /\ scene'.spent = scene.spent
        /\ scene'.viewport = view
    BY <1>2, <1>3, <2>1 DEF TypeOK, FittingScenes, Scenes
  <2>3. TypeOK'
    BY <1>1, <1>2, <1>4, <2>1, <2>2 DEF TypeOK
  <2>4. EntriesFit'
    BY <1>1, <1>2, <1>4, <2>2 DEF EntriesFit
  <2>5. HistoryFollowsScene' /\ GestureBeganHere'
    BY <1>4, <2>1, <2>2 DEF HistoryFollowsScene, GestureBeganHere
  <2> QED
    BY <1>5, <2>3, <2>4, <2>5 DEF IInv
<1>8. CASE ~Commits(view) /\ UNCHANGED <<scene, pending, begun>>
  <2>1. disturbed # {}
    <3>1. SUFFICES ASSUME disturbed = {} PROVE FALSE
      OBVIOUS
    <3>2. view # scene.viewport
      BY <1>2, <1>6, <3>1 DEF HistoryFollowsScene
    <3>3. Fits(scene.scales, view) /\ ~scene.spent
      BY <1>2, <3>1 DEF EntriesFit
    <3>4. view # NoView
      BY <1>3, ViewerAssumption DEF Views, Ranges
    <3> QED
      BY <1>8, <3>2, <3>3, <3>4 DEF Commits
  <2>2. TypeOK'
    BY <1>1, <1>2, <1>4, <1>8 DEF TypeOK
  <2>3. EntriesFit' /\ HistoryFollowsScene'
    BY <1>1, <2>1 DEF EntriesFit, HistoryFollowsScene
  <2>4. GestureBeganHere'
    BY <1>1, <1>2, <1>8 DEF GestureBeganHere
  <2> QED
    BY <1>5, <2>2, <2>3, <2>4 DEF IInv
<1> QED
  BY <1>1, <1>7, <1>8

(* Gestures and the focus keep the invariant.                              *)
LEMMA TransientStepsAreSound ==
  ASSUME IInv, CancelPending \/ MoveFocus \/ \E axes \in (SUBSET Axes) \ {{}} : BufferPan(axes)
  PROVE  IInv'
<1>1. UNCHANGED <<scene, history, disturbed>>
  BY DEF CancelPending, MoveFocus, BufferPan
<1>2. (HistoryUsable /\ EntriesFit /\ HistoryFollowsScene)'
  BY <1>1 DEF IInv, HistoryUsable, EntriesFit, HistoryFollowsScene
<1>3. scene.viewport \in Views
  BY DEF IInv, TypeOK, FittingScenes, Scenes
<1>4. CASE CancelPending
  BY <1>1, <1>2, <1>4 DEF IInv, TypeOK, GestureBeganHere, CancelPending, EndGesture
<1>5. CASE MoveFocus
  <2>1. focus' \in {"None", "Plot", "Legend"}
    BY <1>5 DEF IInv, TypeOK, MoveFocus
  <2> QED
    BY <1>1, <1>2, <1>5, <2>1 DEF IInv, TypeOK, GestureBeganHere, MoveFocus
<1>6. ASSUME NEW axes \in (SUBSET Axes) \ {{}}, BufferPan(axes)
      PROVE  IInv'
  <2>1. pending' \in Views \cup {NoView}
    BY <1>6, StepsYieldViews DEF BufferPan
  <2>2. TypeOK' /\ GestureBeganHere'
    BY <1>1, <1>3, <1>6, <2>1 DEF IInv, TypeOK, GestureBeganHere, BufferPan
  <2> QED
    BY <1>2, <2>2 DEF IInv
<1> QED
  BY <1>4, <1>5, <1>6

(* The scene's owner keeps the invariant by being noticed.                 *)
LEMMA SceneMutIsSound ==
  ASSUME IInv, SceneMut
  PROVE  IInv'
<1>1. /\ scene' \in FittingScenes /\ UNCHANGED <<history, pending, focus, begun>>
      /\ disturbed \subseteq disturbed'
      /\ disturbed' \subseteq {"views", "scales", "revisions"}
      /\ scene'.viewport # scene.viewport => "views" \in disturbed'
      /\ scene'.scales # scene.scales => "scales" \in disturbed'
      /\ scene'.spent => "revisions" \in disturbed'
  BY DEF SceneMut, IInv, TypeOK
<1>2. TypeOK'
  BY <1>1 DEF IInv, TypeOK
<1>3. HistoryUsable'
  BY <1>1 DEF IInv, HistoryUsable
<1>4. EntriesFit' /\ HistoryFollowsScene'
  BY <1>1 DEF IInv, EntriesFit, HistoryFollowsScene
<1>5. GestureBeganHere'
  BY <1>1 DEF IInv, GestureBeganHere
<1> QED
  BY <1>2, <1>3, <1>4, <1>5 DEF IInv

-----------------------------------------------------------------------------
LEMMA InitIsSound ==
  ASSUME Init
  PROVE  IInv
<1>1. /\ scene \in FittingScenes /\ ~scene.spent
      /\ history = [entries |-> <<scene.viewport>>, index |-> 1]
  BY DEF Init
<1>2. scene.viewport \in Views /\ Fits(scene.scales, scene.viewport)
  BY <1>1 DEF FittingScenes, Scenes
<1>3. /\ history.entries = <<scene.viewport>> /\ history.index = 1
      /\ history.entries \in Seq(Views) /\ Len(history.entries) = 1
      /\ history.entries[1] = scene.viewport
  BY <1>1, <1>2
<1>4. TypeOK
  BY <1>1, <1>3 DEF Init, TypeOK, Histories
<1>5. HistoryUsable
  BY <1>3, ViewerAssumption DEF HistoryUsable
<1>6. EntriesFit
  BY <1>1, <1>2, <1>3 DEF EntriesFit
<1>7. HistoryFollowsScene /\ GestureBeganHere
  BY <1>3 DEF Init, HistoryFollowsScene, GestureBeganHere
<1> QED
  BY <1>4, <1>5, <1>6, <1>7 DEF IInv

(* Every step of the viewer keeps the invariant.                           *)
LEMMA ViewerNextIsSound ==
  ASSUME IInv, ViewerNext
  PROVE  IInv'
<1>1. /\ scene.viewport \in Views /\ scene.canonical \in Views
      /\ pending \in Views \cup {NoView, None}
      /\ history.index \in 1 .. Len(history.entries)
      /\ history.index \in Nat /\ Len(history.entries) \in Nat
  BY DEF IInv, TypeOK, HistoryUsable, FittingScenes, Scenes, Histories
<1>2. CASE ViewStep
  <2>1. ASSUME NEW axes \in (SUBSET Axes) \ {{}},
               ApplyPan(axes) \/ ApplyZoom(axes) \/ ApplyBox(axes)
        PROVE  IInv'
    BY <2>1, ApplyBoundsIsSound, StepsYieldViews DEF ApplyPan, ApplyZoom, ApplyBox
  <2>2. ASSUME NEW axis \in Axes, NEW way \in {1, -1}, ApplyNavigate(axis, way)
        PROVE  IInv'
    BY <2>2, ApplyBoundsIsSound, StepsYieldViews DEF ApplyNavigate
  <2>3. ASSUME ApplyHome
        PROVE  IInv'
    BY <1>1, <2>3, ApplyBoundsIsSound DEF ApplyHome
  <2>4. ASSUME ApplyHistoryPrevious
        PROVE  IInv'
    BY <1>1, <2>4, ApplyHistoryIsSound DEF ApplyHistoryPrevious
  <2>5. ASSUME ApplyHistoryNext
        PROVE  IInv'
    BY <1>1, <2>5, ApplyHistoryIsSound DEF ApplyHistoryNext
  <2> QED
    BY <1>2, <2>1, <2>2, <2>3, <2>4, <2>5 DEF ViewStep
<1>3. CASE CommitPending
  BY <1>1, <1>3, ApplyBoundsIsSound DEF CommitPending
<1> QED
  BY <1>2, <1>3, TransientStepsAreSound DEF ViewerNext, GestureStep

(* The inductive invariant holds whatever the viewer and the scene's owner  *)
(* do.                                                                     *)
THEOREM ViewerIsSound == Spec => []IInv
<1>1. Init => IInv
  BY InitIsSound
<1>2. IInv /\ [Next]_vars => IInv'
  <2> SUFFICES ASSUME IInv, [Next]_vars PROVE IInv'
    OBVIOUS
  <2>1. CASE UNCHANGED vars
    BY <2>1 DEF vars, IInv, TypeOK, HistoryUsable, EntriesFit, HistoryFollowsScene,
                GestureBeganHere
  <2> QED
    BY <2>1, ViewerNextIsSound, SceneMutIsSound DEF Next
<1> QED
  BY <1>1, <1>2, PTL DEF Spec

(* The history stays usable: it points at an entry, keeps to its limit, and *)
(* neighbouring entries differ.                                            *)
THEOREM HistoryStaysUsable == Spec => []HistoryUsable
<1>1. IInv => HistoryUsable
  BY DEF IInv
<1> QED
  BY <1>1, ViewerIsSound, PTL

(* Undisturbed, the entry the history points at is the view on display.    *)
THEOREM HistoryStaysWithScene == Spec => []HistoryFollowsScene
<1>1. IInv => HistoryFollowsScene
  BY DEF IInv
<1> QED
  BY <1>1, ViewerIsSound, PTL

(* A gesture in progress began on the view still on display.               *)
THEOREM GesturesBeginHere == Spec => []GestureBeganHere
<1>1. IInv => GestureBeganHere
  BY DEF IInv
<1> QED
  BY <1>1, ViewerIsSound, PTL

-----------------------------------------------------------------------------
(* The views before and after the entry a history points at.               *)
Past(h) == SubSeq(h.entries, 1, h.index - 1)
Future(h) == SubSeq(h.entries, h.index + 1, Len(h.entries))

Usable(h) == h \in Histories /\ h.index \in 1 .. Len(h.entries)

(* Past and future are the two ends of the entries.                        *)
Ends(h) ==
  /\ h.index \in Nat /\ h.index >= 1 /\ Len(h.entries) \in Nat
  /\ h.index <= Len(h.entries) /\ h.entries[h.index] \in Views
  /\ Past(h) \in Seq(Views) /\ Len(Past(h)) = h.index - 1
  /\ \A i \in 1 .. h.index - 1 : Past(h)[i] = h.entries[i]
  /\ Future(h) \in Seq(Views) /\ Len(Future(h)) = Len(h.entries) - h.index
  /\ \A i \in 1 .. Len(h.entries) - h.index :
       Future(h)[i] = h.entries[h.index + i]

(* They are so for every usable history.                                   *)
LEMMA PastAndFuture ==
  ASSUME NEW h, Usable(h)
  PROVE  Ends(h)
<1>1. /\ h.entries \in Seq(Views) /\ h.index \in Nat /\ h.index >= 1
      /\ Len(h.entries) \in Nat /\ h.index <= Len(h.entries)
  BY DEF Usable, Histories
<1>2. \A i \in 1 .. Len(h.entries) : h.entries[i] \in Views
  BY <1>1
<1>3. /\ Past(h) \in Seq(Views) /\ Len(Past(h)) = h.index - 1
      /\ \A i \in 1 .. h.index - 1 : Past(h)[i] = h.entries[i]
  BY <1>1 DEF Past
<1>4. /\ Future(h) \in Seq(Views) /\ Len(Future(h)) = Len(h.entries) - h.index
      /\ \A i \in 1 .. Len(h.entries) - h.index :
           Future(h)[i] = h.entries[h.index + i]
  BY <1>1 DEF Future
<1> QED
  BY <1>1, <1>2, <1>3, <1>4 DEF Ends

(* A past of n - 1 entries and the n-th entry.                             *)
LEMMA LongerPast ==
  ASSUME NEW n \in Nat, n >= 1, NEW p \in Seq(Views), Len(p) = n - 1, NEW e,
         \A i \in 1 .. n - 1 : p[i] = e[i], e[n] \in Views
  PROVE  /\ Append(p, e[n]) \in Seq(Views) /\ Len(Append(p, e[n])) = n
         /\ \A i \in 1 .. n : Append(p, e[n])[i] = e[i]
<1>1. /\ Append(p, e[n]) \in Seq(Views) /\ Len(Append(p, e[n])) = n
      /\ \A i \in 1 .. n - 1 : Append(p, e[n])[i] = p[i]
      /\ Append(p, e[n])[n] = e[n]
  BY AppendProperties
<1> QED
  BY <1>1

(* A push that keeps every entry makes the present the newest past.        *)
LEMMA AppendingIsVisiting ==
  ASSUME NEW h, NEW g, NEW view, Usable(h), Usable(g), Appends(h, view, g)
  PROVE  /\ Past(g) = Undo!Newest(Append(Past(h), h.entries[h.index]))
         /\ Future(g) = <<>>
<1>0. Ends(h) /\ Ends(g)
  BY PastAndFuture
<1> DEFINE longer == Append(Past(h), h.entries[h.index])
<1>1. /\ longer \in Seq(Views) /\ Len(longer) = h.index
      /\ \A i \in 1 .. h.index : longer[i] = h.entries[i]
  <2>1. /\ h.index \in Nat /\ h.index >= 1 /\ h.entries[h.index] \in Views
        /\ Past(h) \in Seq(Views) /\ Len(Past(h)) = h.index - 1
        /\ \A i \in 1 .. h.index - 1 : Past(h)[i] = h.entries[i]
    BY <1>0 DEF Ends
  <2> QED
    BY <2>1, LongerPast
<1>2. /\ Past(g) \in Seq(Views) /\ Len(Past(g)) = h.index
      /\ \A i \in 1 .. h.index : Past(g)[i] = h.entries[i]
  <2>1. g.index - 1 = h.index
    BY <1>0 DEF Appends, Ends
  <2>2. /\ Past(g) \in Seq(Views) /\ Len(Past(g)) = h.index
        /\ \A i \in 1 .. h.index : Past(g)[i] = g.entries[i]
    BY <1>0, <2>1 DEF Ends
  <2> QED
    BY <2>2 DEF Appends
<1>3. Past(g) = longer
  <2> HIDE DEF longer
  <2> QED
    BY <1>1, <1>2, SeqEqual
<1>4. Undo!Newest(longer) = longer
  <2>1. ~(Len(longer) > HistoryLimit - 1)
    BY <1>1, <1>0, ViewerAssumption DEF Appends, Ends
  <2> QED
    BY <2>1 DEF Undo!Newest
<1>5. Future(g) = <<>>
  BY <1>0 DEF Appends, Ends
<1> QED
  BY <1>3, <1>4, <1>5

(* A push beyond the limit does the same, and forgets the oldest past.     *)
LEMMA RollingIsVisiting ==
  ASSUME NEW h, NEW g, NEW view, Usable(h), Usable(g), Rolls(h, view, g)
  PROVE  /\ Past(g) = Undo!Newest(Append(Past(h), h.entries[h.index]))
         /\ Future(g) = <<>>
<1>0. Ends(h) /\ Ends(g)
  BY PastAndFuture
<1> DEFINE longer == Append(Past(h), h.entries[h.index])
<1>1. /\ longer \in Seq(Views) /\ Len(longer) = h.index
      /\ \A i \in 1 .. h.index : longer[i] = h.entries[i]
  <2>1. /\ h.index \in Nat /\ h.index >= 1 /\ h.entries[h.index] \in Views
        /\ Past(h) \in Seq(Views) /\ Len(Past(h)) = h.index - 1
        /\ \A i \in 1 .. h.index - 1 : Past(h)[i] = h.entries[i]
    BY <1>0 DEF Ends
  <2> QED
    BY <2>1, LongerPast
<1>2. /\ Past(g) \in Seq(Views) /\ Len(Past(g)) = h.index - 1
      /\ \A i \in 1 .. h.index - 1 : Past(g)[i] = h.entries[i + 1]
  BY <1>0 DEF Rolls, Ends
<1>3. /\ Tail(longer) \in Seq(Views) /\ Len(Tail(longer)) = h.index - 1
      /\ \A i \in 1 .. h.index - 1 : Tail(longer)[i] = h.entries[i + 1]
  <2>1. h.index \in Nat /\ h.index >= 1
    BY <1>0 DEF Ends
  <2> HIDE DEF longer
  <2> QED
    BY <1>1, <2>1
<1>4. Past(g) = Tail(longer)
  <2> HIDE DEF longer
  <2> QED
    BY <1>2, <1>3, SeqEqual
<1>5. Undo!Newest(longer) = Tail(longer)
  <2>1. Len(longer) > HistoryLimit - 1
    BY <1>1, <1>0, ViewerAssumption DEF Rolls, Ends
  <2> QED
    BY <2>1 DEF Undo!Newest
<1>6. Future(g) = <<>>
  BY <1>0 DEF Rolls, Ends
<1> QED
  BY <1>4, <1>5, <1>6

(* An index that moves back turns the newest past into the present.        *)
LEMMA MovingBack ==
  ASSUME NEW h, NEW g, Usable(h), Usable(g), g.entries = h.entries,
         g.index = h.index - 1
  PROVE  /\ Past(h) # <<>>
         /\ g.entries[g.index] = Past(h)[Len(Past(h))]
         /\ Past(g) = SubSeq(Past(h), 1, Len(Past(h)) - 1)
         /\ Future(g) = <<h.entries[h.index]>> \o Future(h)
<1>0. Ends(h) /\ Ends(g)
  BY PastAndFuture
<1>1. /\ h.index \in Nat /\ h.index > 1 /\ Len(h.entries) \in Nat
      /\ h.index <= Len(h.entries)
  BY <1>0 DEF Ends
<1>2. Past(h) # <<>> /\ g.entries[g.index] = Past(h)[Len(Past(h))]
  <2>1. h.index - 1 \in 1 .. h.index - 1 /\ Len(Past(h)) = h.index - 1
    BY <1>1, <1>0 DEF Ends
  <2>2. Past(h)[h.index - 1] = h.entries[h.index - 1]
    BY <1>0, <2>1 DEF Ends
  <2> QED
    BY <1>1, <2>1, <2>2
<1>3. Past(g) = SubSeq(Past(h), 1, Len(Past(h)) - 1)
  <2> DEFINE older == SubSeq(Past(h), 1, Len(Past(h)) - 1)
  <2>1. /\ older \in Seq(Views) /\ Len(older) = h.index - 2
        /\ \A i \in 1 .. h.index - 2 : older[i] = h.entries[i]
    BY <1>1, <1>0 DEF Ends
  <2>2. /\ Past(g) \in Seq(Views) /\ Len(Past(g)) = h.index - 2
        /\ \A i \in 1 .. h.index - 2 : Past(g)[i] = h.entries[i]
    BY <1>1, <1>0 DEF Ends
  <2> HIDE DEF older
  <2>3. Past(g) = older
    BY <2>1, <2>2, SeqEqual
  <2> QED
    BY <2>3 DEF older
<1>4. Future(g) = <<h.entries[h.index]>> \o Future(h)
  <2> DEFINE undone == <<h.entries[h.index]>> \o Future(h)
  <2>1. /\ undone \in Seq(Views) /\ Len(undone) = Len(h.entries) - h.index + 1
        /\ \A i \in 1 .. Len(h.entries) - h.index + 1 :
             undone[i] = h.entries[h.index - 1 + i]
    <3>1. <<h.entries[h.index]>> \in Seq(Views) /\ Len(<<h.entries[h.index]>>) = 1
          /\ <<h.entries[h.index]>>[1] = h.entries[h.index]
      BY <1>0 DEF Ends
    <3>2. /\ Future(h) \in Seq(Views) /\ Len(Future(h)) = Len(h.entries) - h.index
          /\ \A i \in 1 .. Len(h.entries) - h.index :
               Future(h)[i] = h.entries[h.index + i]
      BY <1>0 DEF Ends
    <3>3. /\ undone \in Seq(Views) /\ Len(undone) = 1 + (Len(h.entries) - h.index)
          /\ \A i \in 1 .. 1 + (Len(h.entries) - h.index) :
               undone[i] = IF i <= 1 THEN <<h.entries[h.index]>>[i] ELSE Future(h)[i - 1]
      BY <1>1, <3>1, <3>2, ConcatProperties
    <3>4. ASSUME NEW i \in 1 .. Len(h.entries) - h.index + 1
          PROVE  undone[i] = h.entries[h.index - 1 + i]
      <4> HIDE DEF undone
      <4>1. CASE i = 1
        BY <1>1, <3>1, <3>3, <4>1
      <4>2. CASE i # 1
        <5>1. i - 1 \in 1 .. Len(h.entries) - h.index /\ ~(i <= 1)
          BY <1>1, <4>2
        <5>2. undone[i] = Future(h)[i - 1] /\ Future(h)[i - 1] = h.entries[h.index + (i - 1)]
          BY <1>1, <3>2, <3>3, <5>1
        <5>3. h.index + (i - 1) = h.index - 1 + i
          BY <1>1, <5>1
        <5> QED
          BY <5>2, <5>3
      <4> QED
        BY <4>1, <4>2
    <3>5. 1 + (Len(h.entries) - h.index) = Len(h.entries) - h.index + 1
      BY <1>1
    <3> HIDE DEF undone
    <3> QED
      BY <3>3, <3>4, <3>5
  <2>2. /\ Future(g) \in Seq(Views) /\ Len(Future(g)) = Len(h.entries) - h.index + 1
        /\ \A i \in 1 .. Len(h.entries) - h.index + 1 :
             Future(g)[i] = h.entries[h.index - 1 + i]
    <3>1. Len(h.entries) - g.index = Len(h.entries) - h.index + 1
      BY <1>1
    <3> QED
      BY <1>0, <3>1 DEF Ends
  <2> HIDE DEF undone
  <2>3. Future(g) = undone
    BY <2>1, <2>2, SeqEqual
  <2> QED
    BY <2>3 DEF undone
<1> QED
  BY <1>2, <1>3, <1>4

(* An index that moves forward turns the next future into the present.     *)
LEMMA MovingForward ==
  ASSUME NEW h, NEW g, Usable(h), Usable(g), g.entries = h.entries,
         g.index = h.index + 1
  PROVE  /\ Future(h) # <<>>
         /\ g.entries[g.index] = Head(Future(h))
         /\ Future(g) = Tail(Future(h))
         /\ Past(g) = Append(Past(h), h.entries[h.index])
<1>0. Ends(h) /\ Ends(g)
  BY PastAndFuture
<1>1. /\ h.index \in Nat /\ h.index >= 1 /\ Len(h.entries) \in Nat
      /\ h.index < Len(h.entries)
  BY <1>0 DEF Ends
<1>2. /\ Future(h) \in Seq(Views) /\ Len(Future(h)) = Len(h.entries) - h.index
      /\ \A i \in 1 .. Len(h.entries) - h.index :
           Future(h)[i] = h.entries[h.index + i]
  BY <1>0 DEF Ends
<1>3. Future(h) # <<>> /\ g.entries[g.index] = Head(Future(h))
  BY <1>1, <1>2
<1>4. Future(g) = Tail(Future(h))
  <2>1. /\ Tail(Future(h)) \in Seq(Views)
        /\ Len(Tail(Future(h))) = Len(h.entries) - h.index - 1
        /\ \A i \in 1 .. Len(h.entries) - h.index - 1 :
             Tail(Future(h))[i] = h.entries[h.index + 1 + i]
    <3>1. /\ Tail(Future(h)) \in Seq(Views)
          /\ Len(Tail(Future(h))) = Len(h.entries) - h.index - 1
          /\ \A i \in 1 .. Len(h.entries) - h.index - 1 :
               Tail(Future(h))[i] = Future(h)[i + 1]
      BY <1>2, <1>3, HeadTailProperties
    <3>2. ASSUME NEW i \in 1 .. Len(h.entries) - h.index - 1
          PROVE  Tail(Future(h))[i] = h.entries[h.index + 1 + i]
      <4>1. i + 1 \in 1 .. Len(h.entries) - h.index /\ h.index + (i + 1) = h.index + 1 + i
        BY <1>1
      <4>2. Future(h)[i + 1] = h.entries[h.index + (i + 1)]
        BY <1>2, <4>1
      <4> QED
        BY <3>1, <4>1, <4>2
    <3> QED
      BY <3>1, <3>2
  <2>2. /\ Future(g) \in Seq(Views) /\ Len(Future(g)) = Len(h.entries) - h.index - 1
        /\ \A i \in 1 .. Len(h.entries) - h.index - 1 :
             Future(g)[i] = h.entries[h.index + 1 + i]
    <3>1. Len(h.entries) - g.index = Len(h.entries) - h.index - 1
      BY <1>1
    <3> QED
      BY <1>0, <3>1 DEF Ends
  <2> QED
    BY <2>1, <2>2, SeqEqual
<1>5. Past(g) = Append(Past(h), h.entries[h.index])
  <2> DEFINE longer == Append(Past(h), h.entries[h.index])
  <2>1. /\ longer \in Seq(Views) /\ Len(longer) = h.index
        /\ \A i \in 1 .. h.index : longer[i] = h.entries[i]
    <3>1. /\ h.index \in Nat /\ h.index >= 1 /\ h.entries[h.index] \in Views
          /\ Past(h) \in Seq(Views) /\ Len(Past(h)) = h.index - 1
          /\ \A i \in 1 .. h.index - 1 : Past(h)[i] = h.entries[i]
      BY <1>0 DEF Ends
    <3> QED
      BY <3>1, LongerPast
  <2>2. /\ Past(g) \in Seq(Views) /\ Len(Past(g)) = h.index
        /\ \A i \in 1 .. h.index : Past(g)[i] = h.entries[i]
    <3>1. g.index - 1 = h.index
      BY <1>1
    <3> QED
      BY <1>0, <3>1 DEF Ends
  <2> HIDE DEF longer
  <2>3. Past(g) = longer
    BY <2>1, <2>2, SeqEqual
  <2> QED
    BY <2>3 DEF longer
<1> QED
  BY <1>3, <1>4, <1>5

-----------------------------------------------------------------------------
(* No step of the viewer itself counts as a disturbance.                    *)
LEMMA ViewerDisturbsNothing == ViewerNext => disturbed' = disturbed
BY DEF ViewerNext, ViewStep, GestureStep, ApplyPan, ApplyZoom, ApplyBox, ApplyNavigate,
       ApplyHome, ApplyHistoryPrevious, ApplyHistoryNext, ApplyHistory, ApplyBounds,
       CommitPending, CancelPending, BufferPan, MoveFocus

(* Alone with its scene, the viewer keeps the invariant and is undisturbed. *)
LEMMA AloneIsSound == AloneSpec => [](IInv /\ disturbed = {})
<1>1. Init => IInv /\ disturbed = {}
  BY InitIsSound DEF Init
<1>2. IInv /\ disturbed = {} /\ [ViewerNext]_vars => (IInv /\ disturbed = {})'
  <2> SUFFICES ASSUME IInv, disturbed = {}, [ViewerNext]_vars
               PROVE  (IInv /\ disturbed = {})'
    OBVIOUS
  <2>1. CASE UNCHANGED vars
    BY <2>1 DEF vars, IInv, TypeOK, HistoryUsable, EntriesFit, HistoryFollowsScene,
                GestureBeganHere
  <2>2. CASE ViewerNext
    BY <2>2, ViewerNextIsSound, ViewerDisturbsNothing
  <2> QED
    BY <2>1, <2>2
<1> QED
  BY <1>1, <1>2, PTL DEF AloneSpec

(* A step that displays a new view visits it.                              *)
LEMMA ApplyBoundsVisits ==
  ASSUME IInv, disturbed = {}, IInv', NEW view, view \in Views \cup {NoView},
         ApplyBounds(view)
  PROVE  Undo!Visit
<1>1. /\ view \in Views /\ view # scene.viewport
      /\ scene' = [scene EXCEPT !.viewport = view]
      /\ history' = Push(history, view)
  BY DEF ApplyBounds, Commits, Display
<1>2. Usable(history) /\ Usable(history')
  BY DEF IInv, TypeOK, HistoryUsable, Usable
<1>3. history.entries[history.index] = scene.viewport
  BY DEF IInv, HistoryFollowsScene
<1>4. scene'.viewport = view
  BY <1>1 DEF IInv, TypeOK, FittingScenes, Scenes
<1>5. Appends(history, view, history') \/ Rolls(history, view, history')
  BY <1>1, <1>2, <1>3, PushedHistory DEF Usable
<1>6. /\ Past(history') = Undo!Newest(Append(Past(history), history.entries[history.index]))
      /\ Future(history') = <<>>
  BY <1>2, <1>5, AppendingIsVisiting, RollingIsVisiting
<1> QED
  BY <1>1, <1>3, <1>4, <1>6 DEF Undo!Visit, Past, Future

(* A step along the history goes back or forward by one view.              *)
LEMMA ApplyHistoryMoves ==
  ASSUME IInv, disturbed = {}, IInv', NEW i \in 1 .. Len(history.entries),
         ApplyHistory(i)
  PROVE  /\ i = history.index - 1 => Undo!Back
         /\ i = history.index + 1 => Undo!Forward
<1>1. history' = [history EXCEPT !.index = i] /\ disturbed' = disturbed
  BY DEF ApplyHistory
<1>2. history'.entries = history.entries /\ history'.index = i
  BY <1>1 DEF IInv, TypeOK, Histories
<1>3. Usable(history) /\ Usable(history')
  BY DEF IInv, TypeOK, HistoryUsable, Usable
<1>4. /\ scene.viewport = history.entries[history.index]
      /\ scene'.viewport = history'.entries[history'.index]
  BY <1>1 DEF IInv, HistoryFollowsScene
<1>5. ASSUME i = history.index - 1
      PROVE  Undo!Back
  <2>1. /\ Past(history) # <<>>
        /\ history'.entries[history'.index] = Past(history)[Len(Past(history))]
        /\ Past(history') = SubSeq(Past(history), 1, Len(Past(history)) - 1)
        /\ Future(history') = <<history.entries[history.index]>> \o Future(history)
    BY <1>2, <1>3, <1>5, MovingBack
  <2> QED
    BY <1>4, <2>1 DEF Undo!Back, Past, Future
<1>6. ASSUME i = history.index + 1
      PROVE  Undo!Forward
  <2>1. /\ Future(history) # <<>>
        /\ history'.entries[history'.index] = Head(Future(history))
        /\ Future(history') = Tail(Future(history))
        /\ Past(history') = Append(Past(history), history.entries[history.index])
    BY <1>2, <1>3, <1>6, MovingForward
  <2> QED
    BY <1>4, <2>1 DEF Undo!Forward, Past, Future
<1> QED
  BY <1>5, <1>6

(* Initial states map to initial states.                                    *)
LEMMA InitIsUndoInit == Init => Undo!UndoInit
<1> SUFFICES ASSUME Init PROVE Undo!UndoInit
  OBVIOUS
<1>1. /\ history.entries = <<scene.viewport>> /\ history.index = 1
      /\ scene.viewport \in Views
  BY DEF Init, FittingScenes, Scenes
<1>2. /\ SubSeq(history.entries, 1, history.index - 1) = <<>>
      /\ SubSeq(history.entries, history.index + 1, Len(history.entries)) = <<>>
  BY <1>1
<1> QED
  BY <1>1, <1>2 DEF Undo!UndoInit

(* Each step of an undisturbed viewer visits a view, goes back, goes        *)
(* forward, or shows what it showed.                                        *)
LEMMA ViewerStepIsUndoStep ==
  ASSUME IInv, disturbed = {}, IInv', ViewerNext
  PROVE  Undo!UndoNext \/ UNCHANGED Undo!undoVars
<1>1. /\ scene.viewport \in Views /\ scene.canonical \in Views
      /\ pending \in Views \cup {NoView, None}
      /\ history.index \in 1 .. Len(history.entries)
      /\ history.index \in Nat /\ Len(history.entries) \in Nat
  BY DEF IInv, TypeOK, HistoryUsable, FittingScenes, Scenes, Histories
<1>2. ASSUME UNCHANGED <<scene, history>>
      PROVE  UNCHANGED Undo!undoVars
  BY <1>2 DEF Undo!undoVars
<1>3. CASE ViewStep
  <2>1. ASSUME NEW axes \in (SUBSET Axes) \ {{}},
               ApplyPan(axes) \/ ApplyZoom(axes) \/ ApplyBox(axes)
        PROVE  Undo!Visit
    BY <2>1, ApplyBoundsVisits, StepsYieldViews DEF ApplyPan, ApplyZoom, ApplyBox
  <2>2. ASSUME NEW axis \in Axes, NEW way \in {1, -1}, ApplyNavigate(axis, way)
        PROVE  Undo!Visit
    BY <2>2, ApplyBoundsVisits, StepsYieldViews DEF ApplyNavigate
  <2>3. ASSUME ApplyHome
        PROVE  Undo!Visit
    BY <1>1, <2>3, ApplyBoundsVisits DEF ApplyHome
  <2>4. ASSUME ApplyHistoryPrevious
        PROVE  Undo!Back
    BY <1>1, <2>4, ApplyHistoryMoves DEF ApplyHistoryPrevious
  <2>5. ASSUME ApplyHistoryNext
        PROVE  Undo!Forward
    BY <1>1, <2>5, ApplyHistoryMoves DEF ApplyHistoryNext
  <2> QED
    BY <1>3, <2>1, <2>2, <2>3, <2>4, <2>5 DEF ViewStep, Undo!UndoNext
<1>4. CASE CommitPending
  BY <1>1, <1>4, ApplyBoundsVisits DEF CommitPending, Undo!UndoNext
<1>5. CASE CancelPending \/ MoveFocus \/ \E axes \in (SUBSET Axes) \ {{}} : BufferPan(axes)
  BY <1>2, <1>5 DEF CancelPending, MoveFocus, BufferPan
<1> QED
  BY <1>3, <1>4, <1>5 DEF ViewerNext, GestureStep, Undo!UndoNext

(* As long as nobody else changes view or scales, the viewer implements     *)
(* undo and redo: initial states map to initial states, view steps to       *)
(* visits, steps along the history to moves back and forward, and the rest, *)
(* the owner's harmless edits included, to stutters.                        *)
THEOREM UndisturbedViewerUndoes == Spec => UndoUndisturbed
<1>1. Init => Undo!UndoInit
  BY InitIsUndoInit
<1>2. IInv /\ IInv' /\ [Next]_vars
      => [disturbed' = {} => Undo!UndoNext \/ UNCHANGED Undo!undoVars]_vars
  <2> SUFFICES ASSUME IInv, IInv', [Next]_vars, disturbed' = {}
               PROVE  Undo!UndoNext \/ UNCHANGED Undo!undoVars
    OBVIOUS
  <2>1. CASE UNCHANGED vars
    BY <2>1 DEF vars, Undo!undoVars
  <2>2. CASE SceneMut
    BY <2>2 DEF SceneMut, Undo!undoVars
  <2>3. CASE ViewerNext
    <3>1. disturbed = {}
      BY <2>3, ViewerDisturbsNothing
    <3> QED
      BY <2>3, <3>1, ViewerStepIsUndoStep
  <2> QED
    BY <2>1, <2>2, <2>3 DEF Next
<1> QED
  BY <1>1, <1>2, ViewerIsSound, PTL DEF Spec, UndoUndisturbed

(* A viewer left alone with its scene implements undo and redo.             *)
THEOREM AloneImplementsUndo == AloneSpec => Undo!UndoSpec
<1>1. Init => Undo!UndoInit
  BY InitIsUndoInit
<1>2. /\ IInv /\ disturbed = {} /\ (IInv /\ disturbed = {})' /\ [ViewerNext]_vars
      => [Undo!UndoNext]_(Undo!undoVars)
  BY ViewerStepIsUndoStep DEF vars, Undo!undoVars
<1> QED
  BY <1>1, <1>2, AloneIsSound, PTL DEF AloneSpec, Undo!UndoSpec

-----------------------------------------------------------------------------
(* Routed input *)

Gestures == {"Pan", "Zoom", "BoxZoom"}
Restrictions == {"Both", "X", "Y"}

-----------------------------------------------------------------------------
(* Only what has an axis is dragged or scrolled.                           *)
LEMMA GesturesHaveAnAxis ==
  ASSUME NEW target
  PROVE  GestureAxis(target) \in Restrictions \cup {None}
BY DEF GestureAxis, Restrictions

LEMMA PointerGesturesHaveAnAxis ==
  ASSUME NEW e, RoutePointer(e).op \in Gestures
  PROVE  RoutePointer(e).axis \in Restrictions
<1>1. GestureAxis(e.target) \in Restrictions \cup {None}
  BY GesturesHaveAnAxis
<1>2. RouteHover(e).op \notin Gestures /\ RouteCancel(e).op \notin Gestures
  BY DEF RouteHover, RouteCancel, Upon, Plain, Refused, Gestures
<1>3. RouteLeftClick(e.target).op \notin Gestures
  BY DEF RouteLeftClick, Upon, Plain, Refused, Gestures
<1>4. RouteClick(e).op \notin Gestures /\ RouteDoubleClick(e).op \notin Gestures
  BY <1>3 DEF RouteClick, RouteDoubleClick, Upon, Plain, Refused, Gestures
<1>5. RouteDrag(e).op \in Gestures => RouteDrag(e).axis \in Restrictions
  BY <1>1 DEF RouteDrag, OnAxis, Refused, Gestures
<1>6. RouteScroll(e).op \in Gestures => RouteScroll(e).axis \in Restrictions
  BY <1>1 DEF RouteScroll, OnAxis, Refused, Gestures
<1>7. Refused.op \notin Gestures
  BY DEF Refused, Gestures
<1> QED
  BY <1>2, <1>4, <1>5, <1>6, <1>7 DEF RoutePointer

(* No key pans or zooms.                                                   *)
LEMMA KeysAreNoGestures ==
  ASSUME NEW r, NEW focused
  PROVE  KeyAction(r, focused).op \notin Gestures
<1>1. \A key : RouteFocused(key, focused).op \notin Gestures
  BY DEF RouteFocused, Upon, Plain, Refused, Gestures
<1>2. \A modifiers : RouteTab(modifiers).op \notin Gestures
  BY DEF RouteTab, Toward, Refused, Gestures
<1>3. \A key, modifiers : RouteKeyboard(key, modifiers, focused).op \notin Gestures
  BY <1>1, <1>2 DEF RouteKeyboard, Toward, Plain, Refused, Gestures
<1> QED
  BY <1>3 DEF KeyAction, Refused, Gestures

(* Whatever is routed, from any report, a gesture names its axes.          *)
Routed == PointerActions \cup UNION {KeyActionsFrom[f] : f \in DOMAIN KeyActionsFrom}

LEMMA RoutedGesturesHaveAnAxis ==
  ASSUME NEW a \in Routed, a.op \in Gestures
  PROVE  a.axis \in Restrictions
<1>1. ASSUME NEW r, a = PointerAction(r)
      PROVE  a.axis \in Restrictions
  <2>1. Refused.op \notin Gestures
    BY DEF Refused, Gestures
  <2> QED
    BY <1>1, <2>1, PointerGesturesHaveAnAxis DEF PointerAction
<1>2. ASSUME NEW f \in DOMAIN KeyActionsFrom, a \in KeyActionsFrom[f]
      PROVE  FALSE
  <2>1. PICK r : a = KeyAction(r, FocusTarget(f))
    BY <1>2 DEF KeyActionsFrom
  <2> QED
    BY <2>1, KeysAreNoGestures
<1> QED
  BY <1>1, <1>2 DEF Routed, PointerActions

-----------------------------------------------------------------------------
(* A gesture on an axis the plot has not changes nothing.                  *)
LEMMA NoAxesNoBounds ==
  ASSUME NEW view \in Views
  PROVE  /\ PanBounds(view, {}) \in {view, NoView}
         /\ ZoomBounds(view, {}) = view
         /\ BoxBounds(view, {}) = view
<1>1. view = [a \in Axes |-> view[a]]
  BY DEF Views
<1>2. Shifted(view, {}, 1) = view
  BY <1>1 DEF Shifted
<1> QED
  BY <1>1, <1>2 DEF PanBounds, ZoomBounds, BoxBounds, ViewOf

LEMMA RoutedGestureIsViewStep ==
  ASSUME TypeOK, NEW a \in Routed, a.op \in Gestures,
         \/ ApplyPan(AxesOf(a.axis))
         \/ ApplyZoom(AxesOf(a.axis))
         \/ ApplyBox(AxesOf(a.axis))
  PROVE  ViewStep
<1>1. a.axis \in Restrictions
  BY RoutedGesturesHaveAnAxis
<1>2. AxesOf(a.axis) \in SUBSET Axes
  BY <1>1 DEF AxesOf, Restrictions
<1>3. AxesOf(a.axis) # {}
  <2> SUFFICES ASSUME AxesOf(a.axis) = {}
               PROVE  FALSE
    OBVIOUS
  <2>1. scene.viewport \in Views
    BY DEF TypeOK, FittingScenes, Scenes
  <2> QED
    BY <2>1, NoAxesNoBounds DEF ApplyPan, ApplyZoom, ApplyBox, ApplyBounds, Commits
<1> QED
  BY <1>2, <1>3 DEF ViewStep

LEMMA MovingFocusIsViewerStep ==
  ASSUME TypeOK, NEW direction, ApplyMoveFocus(direction)
  PROVE  MoveFocus
BY DEF TypeOK, ApplyMoveFocus, MoveFocus, NextFocus, PreviousFocus

(* What the viewer does with a routed action is one of its own steps.      *)
LEMMA PerformedIsViewerStep ==
  ASSUME TypeOK, NEW a \in Routed, Perform(a)
  PROVE  ViewerNext
<1>1. CASE \/ a.op = "Pan" /\ ApplyPan(AxesOf(a.axis))
           \/ a.op = "Zoom" /\ ApplyZoom(AxesOf(a.axis))
           \/ a.op = "BoxZoom" /\ ApplyBox(AxesOf(a.axis))
  BY <1>1, RoutedGestureIsViewStep DEF Gestures, ViewerNext
<1>2. CASE ApplyNavigation(a.direction)
  <2>1. NavigationWay(a.direction) \in {1, -1}
    BY DEF NavigationWay
  <2> QED
    BY <1>2, <2>1 DEF ApplyNavigation, ViewerNext, ViewStep
<1>3. CASE ApplyHome \/ ApplyHistoryPrevious \/ ApplyHistoryNext
  BY <1>3 DEF ViewerNext, ViewStep
<1>4. CASE CancelPending
  BY <1>4 DEF ViewerNext, GestureStep
<1>5. CASE ApplyMoveFocus(a.direction)
  BY <1>5, MovingFocusIsViewerStep DEF ViewerNext
<1> QED
  BY <1>1, <1>2, <1>3, <1>4, <1>5 DEF Perform

LEMMA InputStepIsViewerStep ==
  ASSUME TypeOK, InputNext
  PROVE  Next
<1>1. CASE HandleAction
  BY <1>1, PerformedIsViewerStep DEF HandleAction, Routed, Next
<1>2. CASE HandleKey
  <2>1. PICK a \in KeyActionsFrom[focus] : Perform(a)
    BY <1>2 DEF HandleKey
  <2>2. focus \in DOMAIN KeyActionsFrom
    BY DEF TypeOK, KeyActionsFrom
  <2>3. a \in Routed
    BY <2>1, <2>2 DEF Routed
  <2> QED
    BY <2>1, <2>3, PerformedIsViewerStep DEF Next
<1>3. CASE BufferedPan
  BY <1>3 DEF BufferedPan, Next, ViewerNext, GestureStep
<1>4. CASE CommitPending \/ SceneMut
  BY <1>4 DEF Next, ViewerNext, GestureStep
<1> QED
  BY <1>1, <1>2, <1>3, <1>4 DEF InputNext

-----------------------------------------------------------------------------
(* The viewer's invariant holds under any input a host may send.           *)
THEOREM InputKeepsViewerSound == InputSpec => []IInv
<1>1. Init => IInv
  BY InitIsSound
<1>2. IInv /\ [InputNext]_vars => IInv'
  <2> SUFFICES ASSUME IInv, [InputNext]_vars PROVE IInv'
    OBVIOUS
  <2>1. CASE UNCHANGED vars
    BY <2>1 DEF vars, IInv, TypeOK, HistoryUsable, EntriesFit, HistoryFollowsScene,
                GestureBeganHere
  <2>2. CASE InputNext
    <3>1. Next
      BY <2>2, InputStepIsViewerStep DEF IInv
    <3> QED
      BY <3>1, ViewerNextIsSound, SceneMutIsSound DEF Next
  <2> QED
    BY <2>1, <2>2
<1> QED
  BY <1>1, <1>2, PTL DEF InputSpec

(* Routing implements the viewer: every report, whatever its codes, its     *)
(* target and the focus, is a step the viewer takes of its own or none.     *)
THEOREM InputImplementsViewer == InputSpec => Spec
<1>1. IInv /\ [InputNext]_vars => [Next]_vars
  BY InputStepIsViewerStep DEF IInv
<1> QED
  BY <1>1, InputKeepsViewerSound, PTL DEF InputSpec, Spec

(* Input never leaves a gesture behind that would jump when committed.      *)
THEOREM RoutedGesturesBeginHere == InputSpec => []GestureBeganHere
BY InputImplementsViewer, GesturesBeginHere, PTL

(* Whatever is clicked, dragged or typed, previous and next walk the views  *)
(* the user saw.                                                           *)
THEOREM RoutedInputUndoes == InputSpec => UndoUndisturbed
BY InputImplementsViewer, UndisturbedViewerUndoes, PTL
=============================================================================
