------------------------------- MODULE ViewUndo -------------------------------
(***************************************************************************)
(* What view history promises its user: going back and forward through the *)
(* views shown before, and forgetting the future when a new view is shown. *)
(* Only the oldest views are ever forgotten.  Viewer implements it as long *)
(* as nobody else edits the scene.                                         *)
(***************************************************************************)
EXTENDS Integers, Sequences

CONSTANTS
  Shown,       \* the views there are
  PastLimit    \* how many past views are kept

VARIABLES
  past,      \* the views before the present one, the oldest first
  present,   \* the view on display
  future     \* the views that were undone, the next one first

undoVars == <<past, present, future>>

UndoInit ==
  /\ past = <<>>
  /\ present \in Shown
  /\ future = <<>>

Newest(views) ==
  IF Len(views) > PastLimit THEN Tail(views) ELSE views

Visit ==
  /\ present' \in Shown \ {present}
  /\ past' = Newest(Append(past, present))
  /\ future' = <<>>

Back ==
  /\ past # <<>>
  /\ present' = past[Len(past)]
  /\ past' = SubSeq(past, 1, Len(past) - 1)
  /\ future' = <<present>> \o future

Forward ==
  /\ future # <<>>
  /\ present' = Head(future)
  /\ future' = Tail(future)
  /\ past' = Append(past, present)

UndoNext == Visit \/ Back \/ Forward

UndoSpec == UndoInit /\ [][UndoNext]_undoVars
=============================================================================
