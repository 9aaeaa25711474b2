--------------------------- MODULE SceneTransaction ---------------------------
(***************************************************************************)
(* The scene and its transactions (crates/lumenplot-engine/src/scene:      *)
(* state.rs, transaction.rs, ids.rs, revision.rs).                         *)
(*                                                                         *)
(* A transaction borrows the scene exclusively, stages edits that may each *)
(* fail and be retried, and either commits one new immutable state or      *)
(* leaves the old one.  Readers keep snapshots of any committed state and  *)
(* compare revisions to decide what they may reuse.                        *)
(***************************************************************************)
EXTENDS Integers, FiniteSets

CONSTANTS
  Axes,              \* the axes of a view
  Ranges,            \* valid axis ranges
  PositiveRanges,    \* the ranges a logarithmic axis accepts
  AnnotationValues,  \* valid annotations (space, shape, clip, style, order)
  NoAnnotation,
  NoSeries,
  NoTransaction,
  LastSeriesId,      \* the last identity of each kind (u64::MAX)
  LastEpoch,
  LastAnnotationId,
  MaxAnnotations,    \* MAX_RETAINED_ANNOTATIONS
  MaxRevision,       \* the last revision (u64::MAX)
  MaxSourceLen       \* samples a series can hold (u64::MAX)

ASSUME SceneAssumption ==
  /\ PositiveRanges \subseteq Ranges
  /\ LastSeriesId \in Nat \ {0}
  /\ LastEpoch \in Nat \ {0}
  /\ LastAnnotationId \in Nat \ {0}
  /\ MaxAnnotations \in Nat
  /\ MaxRevision \in Nat
  /\ MaxSourceLen \in Nat
  /\ NoAnnotation \notin AnnotationValues

VARIABLES
  scene,     \* PlotScene.state
  counters,  \* next_series_id, next_epoch, next_annotation_id
  staged,    \* the open SceneTransaction, or NoTransaction
  snapshot,  \* a SceneSnapshot some reader holds
  granted,   \* history: how often each identity was allocated
  result     \* what the last operation returned

vars == <<scene, counters, staged, snapshot, granted, result>>

SeriesIds == 1 .. LastSeriesId
Epochs == 1 .. LastEpoch
AnnotationIds == 1 .. LastAnnotationId
ComponentRevisions == 0 .. MaxRevision

Views == [Axes -> Ranges]
AxisScales == [Axes -> {"Linear", "Log10"}]

\* SeriesStorage, as far as transactions tell series apart.
Storages == [epoch : Epochs, len : 0 .. MaxSourceLen]
SeriesMaps == [SeriesIds -> Storages \cup {NoSeries}]
AnnotationMaps == [AnnotationIds -> AnnotationValues \cup {NoAnnotation}]

SceneStates ==
  [rev : ComponentRevisions, canonical : Views, viewport : Views,
   scales : AxisScales, grid : BOOLEAN, series : SeriesMaps,
   annotations : AnnotationMaps, dataRev : ComponentRevisions,
   viewRev : ComponentRevisions, layoutRev : ComponentRevisions,
   annotationRev : ComponentRevisions, gridRev : ComponentRevisions]

\* A counter at 0 is exhausted.
Counters == [series : 0 .. LastSeriesId, epoch : 0 .. LastEpoch,
             annotation : 0 .. LastAnnotationId]

\* SceneTransaction: its base is the scene, which it borrows exclusively.
Transactions ==
  [canonical : Views, viewport : Views, scales : AxisScales, grid : BOOLEAN,
   changes : SeriesMaps, upserts : AnnotationMaps, deletes : SUBSET AnnotationIds]

Grants == [series : [SeriesIds -> Nat], epoch : [Epochs -> Nat],
           annotation : [AnnotationIds -> Nat]]

Results == {"Ok", "Unchanged", "InvalidInput", "SeriesNotFound", "Refused",
            "CapacityExceeded", "IdentityExhausted", "RevisionExhausted"}

TypeOK ==
  /\ scene \in SceneStates
  /\ counters \in Counters
  /\ staged \in Transactions \cup {NoTransaction}
  /\ snapshot \in SceneStates
  /\ granted \in Grants
  /\ result \in Results

\* AxisScales::validate
Fits(scales, view) ==
  \A a \in Axes : scales[a] = "Log10" => view[a] \in PositiveRanges

EmptyScene(view, scales) ==
  [rev |-> 0, canonical |-> view, viewport |-> view, scales |-> scales,
   grid |-> TRUE, series |-> [id \in SeriesIds |-> NoSeries],
   annotations |-> [id \in AnnotationIds |-> NoAnnotation],
   dataRev |-> 0, viewRev |-> 0, layoutRev |-> 0, annotationRev |-> 0,
   gridRev |-> 0]

Init ==
  /\ \E view \in Views, scales \in AxisScales :
       Fits(scales, view) /\ scene = EmptyScene(view, scales)
  /\ counters = [series |-> 1, epoch |-> 1, annotation |-> 1]
  /\ staged = NoTransaction
  /\ snapshot = scene
  /\ granted = [series |-> [id \in SeriesIds |-> 0],
                epoch |-> [e \in Epochs |-> 0],
                annotation |-> [id \in AnnotationIds |-> 0]]
  /\ result = "Ok"

-----------------------------------------------------------------------------
InTransaction == staged # NoTransaction

Begin ==
  /\ ~InTransaction
  /\ staged' = [canonical |-> scene.canonical, viewport |-> scene.viewport,
                scales |-> scene.scales, grid |-> scene.grid,
                changes |-> [id \in SeriesIds |-> NoSeries],
                upserts |-> [id \in AnnotationIds |-> NoAnnotation],
                deletes |-> {}]
  /\ result' = "Ok"
  /\ UNCHANGED <<scene, counters, snapshot, granted>>

\* An edit that leaves the transaction usable and as it was.
Refuse(error) ==
  /\ result' = error
  /\ UNCHANGED <<scene, counters, staged, snapshot, granted>>

Stage(transaction) ==
  /\ staged' = transaction
  /\ result' = "Ok"
  /\ UNCHANGED <<scene, counters, snapshot, granted>>

ReplaceCanonicalView(view) ==
  /\ InTransaction
  /\ \/ ~Fits(staged.scales, view) /\ Refuse("InvalidInput")
     \/ /\ Fits(staged.scales, view)
        /\ Stage([staged EXCEPT !.canonical = view, !.viewport = view])

SetViewport(view) ==
  /\ InTransaction
  /\ \/ ~Fits(staged.scales, view) /\ Refuse("InvalidInput")
     \/ Fits(staged.scales, view) /\ Stage([staged EXCEPT !.viewport = view])

ScalesFit(scales) ==
  Fits(scales, staged.canonical) /\ Fits(scales, staged.viewport)

SetAxisScales(scales) ==
  /\ InTransaction
  /\ \/ ~ScalesFit(scales) /\ Refuse("InvalidInput")
     \/ ScalesFit(scales) /\ Stage([staged EXCEPT !.scales = scales])

SetGridVisible(visible) ==
  /\ InTransaction
  /\ Stage([staged EXCEPT !.grid = visible])

-----------------------------------------------------------------------------
\* Mutant of Successor: an exhausted counter starts over.
SuccessorWrapping(id, last) == IF id = last THEN 1 ELSE id + 1

\* allocate_identity: checked_add, 0 once the identities have run out.
Successor(id, last) == IF id = last THEN 0 ELSE id + 1

AllocateSeriesId ==
  /\ counters' = [counters EXCEPT !.series = Successor(@, LastSeriesId)]
  /\ granted' = [granted EXCEPT !.series[counters.series] = @ + 1]

AllocateSeriesIdAndEpoch ==
  /\ counters' = [counters EXCEPT !.series = Successor(@, LastSeriesId),
                                  !.epoch = Successor(@, LastEpoch)]
  /\ granted' = [granted EXCEPT !.series[counters.series] = @ + 1,
                                !.epoch[counters.epoch] = @ + 1]

(* add_series: identity, then epoch, then the storage, each of which may    *)
(* fail after the earlier ones were allocated; what was allocated stays    *)
(* burned.                                                                 *)
AddSeries(len, stored) ==
  /\ InTransaction
  /\ \/ /\ counters.series = 0
        /\ Refuse("IdentityExhausted")
     \/ /\ counters.series # 0 /\ counters.epoch = 0
        /\ AllocateSeriesId
        /\ result' = "IdentityExhausted"
        /\ UNCHANGED <<scene, staged, snapshot>>
     \/ /\ counters.series # 0 /\ counters.epoch # 0
        /\ AllocateSeriesIdAndEpoch
        /\ \/ /\ ~stored
              /\ result' = "Refused"
              /\ UNCHANGED staged
           \/ /\ stored
              /\ result' = "Ok"
              /\ staged' = [staged EXCEPT !.changes[counters.series] =
                              [epoch |-> counters.epoch, len |-> len]]
        /\ UNCHANGED <<scene, snapshot>>

CurrentSeries(id) ==
  IF staged.changes[id] # NoSeries THEN staged.changes[id] ELSE scene.series[id]

(* append_series: an empty input appends nothing; the storage refuses the   *)
(* wrong topology, a reversal, or want of room or memory.                  *)
AppendSeries(id, len, stored) ==
  LET old == CurrentSeries(id) IN
  /\ InTransaction
  /\ \/ old = NoSeries /\ Refuse("SeriesNotFound")
     \/ old # NoSeries /\ len = 0 /\ stored /\ Refuse("Ok")
     \/ /\ old # NoSeries
        /\ (~stored \/ old.len + len > MaxSourceLen)
        /\ Refuse("Refused")
     \/ /\ old # NoSeries /\ len > 0 /\ stored /\ old.len + len <= MaxSourceLen
        /\ Stage([staged EXCEPT !.changes[id] =
                    [epoch |-> old.epoch, len |-> old.len + len]])

-----------------------------------------------------------------------------
Staged(id) == staged.upserts[id] # NoAnnotation
Committed(id) == scene.annotations[id] # NoAnnotation

(* add_annotation: a rejected annotation allocates nothing. *)
AddAnnotation(value, valid) ==
  /\ InTransaction
  /\ \/ ~valid /\ Refuse("InvalidInput")
     \/ valid /\ counters.annotation = 0 /\ Refuse("IdentityExhausted")
     \/ /\ valid /\ counters.annotation # 0
        /\ counters' = [counters EXCEPT !.annotation = Successor(@, LastAnnotationId)]
        /\ granted' = [granted EXCEPT !.annotation[counters.annotation] = @ + 1]
        /\ staged' = [staged EXCEPT !.upserts[counters.annotation] = value]
        /\ result' = "Ok"
        /\ UNCHANGED <<scene, snapshot>>

Editable(id) == id \notin staged.deletes /\ (Staged(id) \/ Committed(id))

EditAnnotation(id, value, valid) ==
  /\ InTransaction
  /\ \/ /\ ~Editable(id) \/ ~valid
        /\ Refuse("InvalidInput")
     \/ /\ Editable(id) /\ valid
        /\ Stage([staged EXCEPT !.upserts[id] = value])

(* delete_annotation: an annotation added in this transaction just vanishes,*)
(* a committed one is recorded as deleted, edited before or not.           *)
DeleteAnnotation(id) ==
  /\ InTransaction
  /\ \/ /\ Staged(id)
        /\ Stage([staged EXCEPT
                    !.upserts[id] = NoAnnotation,
                    !.deletes = IF Committed(id) THEN @ \cup {id} ELSE @])
     \/ /\ ~Staged(id) /\ Committed(id) /\ id \notin staged.deletes
        /\ Stage([staged EXCEPT !.deletes = @ \cup {id}])
     \/ /\ ~Staged(id) /\ (~Committed(id) \/ id \in staged.deletes)
        /\ Refuse("InvalidInput")

-----------------------------------------------------------------------------
MergedSeries ==
  [id \in SeriesIds |->
     IF staged.changes[id] # NoSeries THEN staged.changes[id] ELSE scene.series[id]]

\* The deletes are applied first, the upserts over them.
MergedAnnotations ==
  [id \in AnnotationIds |->
     IF Staged(id) THEN staged.upserts[id]
     ELSE IF id \in staged.deletes THEN NoAnnotation
     ELSE scene.annotations[id]]

DataChanged == \E id \in SeriesIds : staged.changes[id] # NoSeries

\* Mutant of ViewChanged: the canonical view is not compared.
ViewportChanged ==
  \/ staged.viewport # scene.viewport
  \/ staged.scales # scene.scales

ViewChanged ==
  \/ staged.canonical # scene.canonical
  \/ staged.viewport # scene.viewport
  \/ staged.scales # scene.scales

\* Mutant of AnnotationChanged: every staged annotation counts as a change.
AnnotationsStaged == staged.deletes # {} \/ \E id \in AnnotationIds : Staged(id)

AnnotationChanged == MergedAnnotations # scene.annotations
GridChanged == staged.grid # scene.grid

Changed == DataChanged \/ ViewChanged \/ AnnotationChanged \/ GridChanged

Bump(changed, revision) == IF changed THEN revision + 1 ELSE revision

\* SceneState::publish: the layout follows the data and the views.
LayoutChanged == DataChanged \/ ViewChanged

Published ==
  [rev |-> scene.rev + 1,
   canonical |-> staged.canonical, viewport |-> staged.viewport,
   scales |-> staged.scales, grid |-> staged.grid,
   series |-> MergedSeries, annotations |-> MergedAnnotations,
   dataRev |-> Bump(DataChanged, scene.dataRev),
   viewRev |-> Bump(ViewChanged, scene.viewRev),
   layoutRev |-> Bump(LayoutChanged, scene.layoutRev),
   annotationRev |-> Bump(AnnotationChanged, scene.annotationRev),
   gridRev |-> Bump(GridChanged, scene.gridRev)]

\* checked_next of the scene revision and of every component that changes.
Exhausted ==
  \/ scene.rev = MaxRevision
  \/ DataChanged /\ scene.dataRev = MaxRevision
  \/ ViewChanged /\ scene.viewRev = MaxRevision
  \/ LayoutChanged /\ scene.layoutRev = MaxRevision
  \/ AnnotationChanged /\ scene.annotationRev = MaxRevision
  \/ GridChanged /\ scene.gridRev = MaxRevision

TooMany ==
  Cardinality({id \in AnnotationIds : MergedAnnotations[id] # NoAnnotation})
    > MaxAnnotations

(* commit takes the transaction by value: it is over whatever the outcome. *)
Commit ==
  /\ InTransaction
  /\ staged' = NoTransaction
  /\ UNCHANGED <<counters, snapshot, granted>>
  /\ \/ TooMany /\ result' = "CapacityExceeded" /\ UNCHANGED scene
     \/ ~TooMany /\ ~Changed /\ result' = "Unchanged" /\ UNCHANGED scene
     \/ /\ ~TooMany /\ Changed /\ Exhausted
        /\ result' = "RevisionExhausted" /\ UNCHANGED scene
     \/ /\ ~TooMany /\ Changed /\ ~Exhausted
        /\ scene' = Published
        /\ result' = "Ok"

(* abort, or dropping the transaction. *)
Abort ==
  /\ InTransaction
  /\ staged' = NoTransaction
  /\ result' = "Ok"
  /\ UNCHANGED <<scene, counters, snapshot, granted>>

(* PlotScene::snapshot, which the borrow keeps out of a transaction. *)
TakeSnapshot ==
  /\ ~InTransaction
  /\ snapshot' = scene
  /\ result' = "Ok"
  /\ UNCHANGED <<scene, counters, staged, granted>>

StageView ==
  \/ \E view \in Views : ReplaceCanonicalView(view) \/ SetViewport(view)
  \/ \E scales \in AxisScales : SetAxisScales(scales)
  \/ \E visible \in BOOLEAN : SetGridVisible(visible)

StageSeries ==
  \E len \in 0 .. MaxSourceLen, stored \in BOOLEAN :
    \/ AddSeries(len, stored)
    \/ \E id \in SeriesIds : AppendSeries(id, len, stored)

StageAnnotation ==
  \E id \in AnnotationIds, value \in AnnotationValues, valid \in BOOLEAN :
    \/ AddAnnotation(value, valid)
    \/ EditAnnotation(id, value, valid)
    \/ DeleteAnnotation(id)

Next ==
  \/ Begin \/ Commit \/ Abort \/ TakeSnapshot
  \/ StageView \/ StageSeries \/ StageAnnotation

Spec == Init /\ [][Next]_vars

-----------------------------------------------------------------------------
(* A logarithmic axis never meets a range it cannot show, in whatever      *)
(* order views and scales are replaced, staged or committed, and however   *)
(* many of the edits fail (replace_canonical_view, set_viewport,           *)
(* set_axis_scales).                                                       *)
ScalesFitViews ==
  /\ Fits(scene.scales, scene.canonical) /\ Fits(scene.scales, scene.viewport)
  /\ InTransaction => /\ Fits(staged.scales, staged.canonical)
                      /\ Fits(staged.scales, staged.viewport)

(* A reader that compares revisions never reuses something stale: if a     *)
(* component revision of its snapshot is still the scene's, then that      *)
(* component is, and if the scene revision is, everything is (commit,      *)
(* SceneState::publish).                                                   *)
RevisionsNameContents ==
  /\ snapshot.rev = scene.rev => snapshot = scene
  /\ snapshot.dataRev = scene.dataRev => snapshot.series = scene.series
  /\ snapshot.viewRev = scene.viewRev =>
       /\ snapshot.canonical = scene.canonical
       /\ snapshot.viewport = scene.viewport
       /\ snapshot.scales = scene.scales
  /\ snapshot.layoutRev = scene.layoutRev =>
       snapshot.dataRev = scene.dataRev /\ snapshot.viewRev = scene.viewRev
  /\ snapshot.annotationRev = scene.annotationRev =>
       snapshot.annotations = scene.annotations
  /\ snapshot.gridRev = scene.gridRev => snapshot.grid = scene.grid

(* No component runs ahead of the scene, so once the scene revision was    *)
(* advanced no component can refuse the publication; and the scene         *)
(* revision advances for some component only (commit, publish).            *)
ComponentsFollowScene ==
  /\ scene.layoutRev <= scene.rev
  /\ scene.annotationRev <= scene.rev
  /\ scene.gridRev <= scene.rev
  /\ scene.dataRev <= scene.layoutRev /\ scene.viewRev <= scene.layoutRev
  /\ scene.rev <= scene.dataRev + scene.viewRev + scene.annotationRev + scene.gridRev

(* No identity is ever granted twice, across aborts, failed additions,     *)
(* failed commits and exhaustion (allocate_identity, add_series,           *)
(* add_annotation).                                                        *)
IdentitiesNeverReused ==
  /\ \A id \in SeriesIds : granted.series[id] <= 1
  /\ \A e \in Epochs : granted.epoch[e] <= 1
  /\ \A id \in AnnotationIds : granted.annotation[id] <= 1

(* What a transaction deletes is committed and not staged again, so commit *)
(* may apply deletes before upserts: no annotation survives its deletion   *)
(* (edit_annotation, delete_annotation).                                   *)
DeletesAreFinal ==
  InTransaction => \A id \in staged.deletes : Committed(id) /\ ~Staged(id)

\* An annotation identity that was allocated and is neither committed nor
\* staged any more.
Dead(id) ==
  /\ granted.annotation[id] > 0
  /\ scene.annotations[id] = NoAnnotation
  /\ InTransaction => ~Staged(id)

(* An identity that died, by an abort, a deletion or a failed commit,      *)
(* stays dead: no edit and no addition brings another annotation back      *)
(* under it (edit_annotation, delete_annotation, commit).                  *)
DeadIdentitiesStayDead == [][\A id \in AnnotationIds : Dead(id) => Dead(id)']_vars

-----------------------------------------------------------------------------
(* The inductive invariant. *)

\* An identity at or beyond its counter has not been granted, one below has
\* been granted at most once; a counter at 0 lies beyond every identity.
GrantedBelow(counter, grants, ids) ==
  \A id \in ids :
    grants[id] <= IF counter = 0 \/ id < counter THEN 1 ELSE 0

GrantsFollowCounters ==
  /\ GrantedBelow(counters.series, granted.series, SeriesIds)
  /\ GrantedBelow(counters.epoch, granted.epoch, Epochs)
  /\ GrantedBelow(counters.annotation, granted.annotation, AnnotationIds)

\* Only granted identities are committed or staged.
AnnotationsGranted ==
  \A id \in AnnotationIds :
    granted.annotation[id] = 0 => ~Committed(id) /\ (InTransaction => ~Staged(id))

\* Only granted series are committed or staged, and staging one makes it
\* longer than it is in the scene.
StagedSeriesGrow ==
  /\ \A id \in SeriesIds : granted.series[id] = 0 => scene.series[id] = NoSeries
  /\ InTransaction =>
       \A id \in SeriesIds :
         staged.changes[id] # NoSeries =>
           /\ granted.series[id] # 0
           /\ \/ scene.series[id] = NoSeries
              \/ scene.series[id].len < staged.changes[id].len

SnapshotBehindScene ==
  /\ snapshot.rev <= scene.rev
  /\ snapshot.dataRev <= scene.dataRev
  /\ snapshot.viewRev <= scene.viewRev
  /\ snapshot.layoutRev <= scene.layoutRev
  /\ snapshot.annotationRev <= scene.annotationRev
  /\ snapshot.gridRev <= scene.gridRev

(* Everything the theorems about scenes rest on, as one invariant: the      *)
(* counters, the staged edits, the snapshot and the revisions of the scene *)
(* agree in every reachable state (all operations of SceneTransaction).    *)
IInv ==
  /\ TypeOK
  /\ ScalesFitViews
  /\ GrantsFollowCounters
  /\ AnnotationsGranted
  /\ StagedSeriesGrow
  /\ DeletesAreFinal
  /\ SnapshotBehindScene
  /\ RevisionsNameContents
  /\ ComponentsFollowScene

-----------------------------------------------------------------------------
(* The scene implements VersionedScene: what readers can see is a value    *)
(* with a version. *)
Versioned == INSTANCE VersionedScene
  WITH version <- scene.rev,
       contents <- [canonical |-> scene.canonical, viewport |-> scene.viewport,
                    scales |-> scene.scales, grid |-> scene.grid,
                    series |-> scene.series, annotations |-> scene.annotations],
       seen <- snapshot.rev

(* The version moves by one exactly when the contents change, whatever was *)
(* staged, and never goes back for a reader (commit, publish, snapshot).   *)
ImplementsVersionedScene == Versioned!VersionedSpec
=============================================================================
