----------------------- MODULE SceneTransaction_proofs -----------------------
(***************************************************************************)
(* Proofs about SceneTransaction, for every number of identities, axes,    *)
(* ranges, annotations and revisions: the inductive invariant, what it     *)
(* implies, and the refinement of VersionedScene.                          *)
(***************************************************************************)
EXTENDS SceneTransaction, TLAPS

-----------------------------------------------------------------------------
(* Allocating one identity keeps the counter in range and the grants below *)
(* it (allocate_identity).                                                 *)
LEMMA AllocationKeepsGrants ==
  ASSUME NEW last \in Nat \ {0}, NEW counter \in 1 .. last,
         NEW grants \in [1 .. last -> Nat],
         GrantedBelow(counter, grants, 1 .. last)
  PROVE  /\ Successor(counter, last) \in 0 .. last
         /\ [grants EXCEPT ![counter] = @ + 1] \in [1 .. last -> Nat]
         /\ GrantedBelow(Successor(counter, last),
                         [grants EXCEPT ![counter] = @ + 1], 1 .. last)
  BY DEF GrantedBelow, Successor

(* Granted at most once follows from the position of the counter. *)
LEMMA GrantedOnce ==
  ASSUME NEW last \in Nat, NEW counter \in 0 .. last,
         NEW grants \in [1 .. last -> Nat],
         GrantedBelow(counter, grants, 1 .. last)
  PROVE  \A id \in 1 .. last : grants[id] <= 1
  BY DEF GrantedBelow

-----------------------------------------------------------------------------
(* The initial states satisfy the invariant. *)
LEMMA InitIsSound == Init => IInv
<1> SUFFICES ASSUME Init PROVE IInv
  OBVIOUS
<1> USE SceneAssumption
<1>1. PICK view \in Views, scales \in AxisScales :
        Fits(scales, view) /\ scene = EmptyScene(view, scales)
  BY DEF Init
<1>2. TypeOK
  <2>1. scene \in SceneStates /\ snapshot \in SceneStates
    BY <1>1 DEF Init, EmptyScene, SceneStates, ComponentRevisions, SeriesMaps,
                AnnotationMaps
  <2>2. counters \in Counters /\ granted \in Grants
    BY DEF Init, Counters, Grants
  <2> QED
    BY <2>1, <2>2 DEF Init, TypeOK, Results
<1>3. ScalesFitViews
  BY <1>1 DEF Init, ScalesFitViews, EmptyScene, InTransaction
<1>4. GrantsFollowCounters
  BY DEF Init, GrantsFollowCounters, GrantedBelow, SeriesIds, Epochs, AnnotationIds
<1>5. DeletesAreFinal /\ AnnotationsGranted /\ StagedSeriesGrow
  BY <1>1 DEF Init, DeletesAreFinal, InTransaction, AnnotationsGranted, Committed,
              StagedSeriesGrow, EmptyScene
<1>6. SnapshotBehindScene /\ RevisionsNameContents /\ ComponentsFollowScene
  BY <1>1 DEF Init, SnapshotBehindScene, RevisionsNameContents,
              ComponentsFollowScene, EmptyScene
<1> QED
  BY <1>2, <1>3, <1>4, <1>5, <1>6 DEF IInv

-----------------------------------------------------------------------------
(* A refused edit changes nothing the invariant speaks of. *)
LEMMA RefusalKeeps ==
  ASSUME IInv, NEW error \in Results, Refuse(error)
  PROVE  IInv'
  BY DEF IInv, Refuse, TypeOK, ScalesFitViews, InTransaction, GrantsFollowCounters,
         AnnotationsGranted, StagedSeriesGrow, DeletesAreFinal, Committed, Staged,
         SnapshotBehindScene, RevisionsNameContents, ComponentsFollowScene

(* What a transaction must look like for the invariant to hold of it. *)
Sound(t) ==
  /\ t \in Transactions
  /\ Fits(t.scales, t.canonical)
  /\ Fits(t.scales, t.viewport)
  /\ \A id \in t.deletes : Committed(id) /\ t.upserts[id] = NoAnnotation
  /\ \A id \in AnnotationIds :
       t.upserts[id] # NoAnnotation => granted.annotation[id] # 0
  /\ \A id \in SeriesIds :
       t.changes[id] # NoSeries =>
         /\ granted.series[id] # 0
         /\ scene.series[id] = NoSeries \/ scene.series[id].len < t.changes[id].len

(* The open transaction of a sound state is sound. *)
LEMMA StagedIsSound ==
  ASSUME IInv, InTransaction
  PROVE  Sound(staged)
  BY DEF IInv, TypeOK, InTransaction, Sound, ScalesFitViews, DeletesAreFinal,
         AnnotationsGranted, StagedSeriesGrow, Staged

(* An operation that only replaces the staged edits by sound ones. *)
LEMMA StagingKeeps ==
  ASSUME IInv, staged' = NoTransaction \/ Sound(staged'), result' \in Results,
         UNCHANGED <<scene, counters, snapshot, granted>>
  PROVE  IInv'
<1>1. TypeOK'
  BY DEF IInv, TypeOK, Sound
<1>2. ScalesFitViews'
  BY DEF IInv, ScalesFitViews, InTransaction, Sound
<1>3. GrantsFollowCounters' /\ AnnotationsGranted' /\ StagedSeriesGrow'
  BY DEF IInv, GrantsFollowCounters, AnnotationsGranted, StagedSeriesGrow,
         Committed, Staged, InTransaction, Sound
<1>4. DeletesAreFinal'
  BY DEF DeletesAreFinal, InTransaction, Sound, Committed, Staged
<1>5. (SnapshotBehindScene /\ RevisionsNameContents /\ ComponentsFollowScene)'
  BY DEF IInv, SnapshotBehindScene, RevisionsNameContents, ComponentsFollowScene
<1> QED
  BY <1>1, <1>2, <1>3, <1>4, <1>5 DEF IInv

(* An operation that allocates identities and may stage sound edits. *)
LEMMA AllocatingKeeps ==
  ASSUME IInv, TypeOK', GrantsFollowCounters', Sound(staged)',
         \A id \in AnnotationIds :
           granted'.annotation[id] = 0 => granted.annotation[id] = 0,
         \A id \in SeriesIds :
           granted'.series[id] = 0 => granted.series[id] = 0,
         UNCHANGED <<scene, snapshot>>
  PROVE  IInv'
<1>1. ScalesFitViews'
  BY DEF IInv, ScalesFitViews, InTransaction, Sound
<1>2. DeletesAreFinal' /\ AnnotationsGranted'
  BY DEF IInv, DeletesAreFinal, AnnotationsGranted, InTransaction, Sound, Committed, Staged
<1>3. (SnapshotBehindScene /\ RevisionsNameContents /\ ComponentsFollowScene)'
  BY DEF IInv, SnapshotBehindScene, RevisionsNameContents, ComponentsFollowScene
<1>4. StagedSeriesGrow'
  BY DEF IInv, StagedSeriesGrow, InTransaction, Sound
<1> QED
  BY <1>1, <1>2, <1>3, <1>4 DEF IInv

(* Beginning a transaction stages the scene as it is. *)
LEMMA BeginKeeps ==
  ASSUME IInv, Begin
  PROVE  IInv'
<1>1. Sound(staged')
  BY DEF IInv, Begin, Sound, Transactions, TypeOK, SceneStates, SeriesMaps,
         AnnotationMaps, ScalesFitViews
<1> QED
  BY <1>1, StagingKeeps DEF Begin, Results

(* Every edit of the views keeps the scales fitting them. *)
LEMMA ViewEditsKeep ==
  ASSUME IInv, StageView
  PROVE  IInv'
<1>0. InTransaction
  BY DEF StageView, ReplaceCanonicalView, SetViewport, SetAxisScales, SetGridVisible
<1>t. Sound(staged)
  BY <1>0, StagedIsSound
<1>1. ASSUME NEW view \in Views, ReplaceCanonicalView(view) PROVE IInv'
  <2>1. CASE Fits(staged.scales, view)
    <3>1. Sound([staged EXCEPT !.canonical = view, !.viewport = view])
      BY <1>t, <2>1 DEF Sound, Transactions
    <3> QED
      BY <1>1, <2>1, <3>1, StagingKeeps, RefusalKeeps
      DEF ReplaceCanonicalView, Stage, Results
  <2>2. CASE ~Fits(staged.scales, view)
    BY <1>1, <2>2, RefusalKeeps DEF ReplaceCanonicalView, Results
  <2> QED
    BY <2>1, <2>2
<1>2. ASSUME NEW view \in Views, SetViewport(view) PROVE IInv'
  <2>1. CASE Fits(staged.scales, view)
    <3>1. Sound([staged EXCEPT !.viewport = view])
      BY <1>t, <2>1 DEF Sound, Transactions
    <3> QED
      BY <1>2, <2>1, <3>1, StagingKeeps DEF SetViewport, Stage, Results
  <2>2. CASE ~Fits(staged.scales, view)
    BY <1>2, <2>2, RefusalKeeps DEF SetViewport, Results
  <2> QED
    BY <2>1, <2>2
<1>3. ASSUME NEW scales \in AxisScales, SetAxisScales(scales) PROVE IInv'
  <2>1. CASE ScalesFit(scales)
    <3>1. Sound([staged EXCEPT !.scales = scales])
      BY <1>t, <2>1 DEF Sound, Transactions, ScalesFit
    <3> QED
      BY <1>3, <2>1, <3>1, StagingKeeps DEF SetAxisScales, Stage, Results
  <2>2. CASE ~ScalesFit(scales)
    BY <1>3, <2>2, RefusalKeeps DEF SetAxisScales, Results
  <2> QED
    BY <2>1, <2>2
<1>4. ASSUME NEW visible \in BOOLEAN, SetGridVisible(visible) PROVE IInv'
  <2>1. Sound([staged EXCEPT !.grid = visible])
    BY <1>t DEF Sound, Transactions
  <2> QED
    BY <1>4, <2>1, StagingKeeps DEF SetGridVisible, Stage, Results
<1> QED
  BY <1>1, <1>2, <1>3, <1>4 DEF StageView

-----------------------------------------------------------------------------
(* Adding and appending series: whatever fails, only fresh identities are  *)
(* granted, and the staged edits stay sound.                               *)
LEMMA SeriesEditsKeep ==
  ASSUME IInv, StageSeries
  PROVE  IInv'
<1> USE SceneAssumption
<1>0. InTransaction
  BY DEF StageSeries, AddSeries, AppendSeries
<1>t. Sound(staged)
  BY <1>0, StagedIsSound
<1>c. /\ counters \in Counters /\ granted \in Grants
      /\ GrantsFollowCounters
  BY DEF IInv, TypeOK
<1>g. ASSUME counters.series # 0,
             granted'.series = [granted.series EXCEPT ![counters.series] = @ + 1]
      PROVE  /\ counters.series \in SeriesIds
             /\ granted'.series[counters.series] # 0
             /\ scene.series[counters.series] = NoSeries
             /\ \A id \in SeriesIds : granted.series[id] # 0 => granted'.series[id] # 0
  <2>1. counters.series \in SeriesIds /\ granted.series \in [SeriesIds -> Nat]
    BY <1>c, <1>g DEF Counters, Grants, SeriesIds
  <2>2. granted.series[counters.series] = 0
    BY <1>c, <1>g, <2>1 DEF GrantsFollowCounters, GrantedBelow, SeriesIds
  <2>3. scene.series[counters.series] = NoSeries
    BY <2>1, <2>2 DEF IInv, StagedSeriesGrow
  <2> QED
    BY <1>g, <2>1, <2>3
<1>1. ASSUME NEW len \in 0 .. MaxSourceLen, NEW stored \in BOOLEAN,
             AddSeries(len, stored)
      PROVE  IInv'
  <2>1. CASE counters.series = 0
    BY <1>1, <2>1, RefusalKeeps DEF AddSeries, Results
  <2>2. ASSUME counters.series # 0, AllocateSeriesId, staged' = staged,
               result' \in Results, UNCHANGED <<scene, snapshot>>
        PROVE  IInv'
    <3>1. /\ counters.series \in 1 .. LastSeriesId
          /\ granted.series \in [1 .. LastSeriesId -> Nat]
          /\ GrantedBelow(counters.series, granted.series, 1 .. LastSeriesId)
      BY <1>c, <2>2 DEF Counters, Grants, SeriesIds, GrantsFollowCounters
    <3>2. /\ counters'.series = Successor(counters.series, LastSeriesId)
          /\ counters'.epoch = counters.epoch
          /\ counters'.annotation = counters.annotation
          /\ granted'.series = [granted.series EXCEPT ![counters.series] = @ + 1]
          /\ granted'.epoch = granted.epoch
          /\ granted'.annotation = granted.annotation
      BY <1>c, <2>2 DEF AllocateSeriesId, Counters, Grants
    <3>a. /\ Successor(counters.series, LastSeriesId) \in 0 .. LastSeriesId
          /\ [granted.series EXCEPT ![counters.series] = @ + 1] \in [1 .. LastSeriesId -> Nat]
          /\ GrantedBelow(Successor(counters.series, LastSeriesId),
                          [granted.series EXCEPT ![counters.series] = @ + 1],
                          1 .. LastSeriesId)
      BY <3>1, AllocationKeepsGrants
    <3>3. /\ counters'.series \in 0 .. LastSeriesId
          /\ granted'.series \in [1 .. LastSeriesId -> Nat]
          /\ GrantedBelow(counters'.series, granted'.series, 1 .. LastSeriesId)
      BY <3>2, <3>a
    <3>4. counters' \in Counters /\ granted' \in Grants
      BY <1>c, <2>2, <3>2, <3>3 DEF AllocateSeriesId, Counters, Grants, SeriesIds
    <3>5. GrantsFollowCounters'
      BY <1>c, <3>2, <3>3 DEF GrantsFollowCounters, SeriesIds
    <3>6. TypeOK'
      BY <2>2, <3>4 DEF IInv, TypeOK
    <3> QED
      <4>1. Sound(staged)'
        BY <1>t, <1>g, <2>2, <3>2 DEF Sound, Committed
      <4> QED
        BY <1>g, <2>2, <3>2, <3>5, <3>6, <4>1, AllocatingKeeps
  <2>3. ASSUME counters.series # 0, counters.epoch # 0, AllocateSeriesIdAndEpoch,
               Sound(staged)', result' \in Results, UNCHANGED <<scene, snapshot>>
        PROVE  IInv'
    <3>1. /\ counters.series \in 1 .. LastSeriesId
          /\ granted.series \in [1 .. LastSeriesId -> Nat]
          /\ GrantedBelow(counters.series, granted.series, 1 .. LastSeriesId)
          /\ counters.epoch \in 1 .. LastEpoch
          /\ granted.epoch \in [1 .. LastEpoch -> Nat]
          /\ GrantedBelow(counters.epoch, granted.epoch, 1 .. LastEpoch)
      BY <1>c, <2>3 DEF Counters, Grants, SeriesIds, Epochs, GrantsFollowCounters
    <3>2. /\ counters'.series = Successor(counters.series, LastSeriesId)
          /\ counters'.epoch = Successor(counters.epoch, LastEpoch)
          /\ counters'.annotation = counters.annotation
          /\ granted'.series = [granted.series EXCEPT ![counters.series] = @ + 1]
          /\ granted'.epoch = [granted.epoch EXCEPT ![counters.epoch] = @ + 1]
          /\ granted'.annotation = granted.annotation
      BY <1>c, <2>3 DEF AllocateSeriesIdAndEpoch, Counters, Grants
    <3>a. /\ Successor(counters.series, LastSeriesId) \in 0 .. LastSeriesId
          /\ [granted.series EXCEPT ![counters.series] = @ + 1] \in [1 .. LastSeriesId -> Nat]
          /\ GrantedBelow(Successor(counters.series, LastSeriesId),
                          [granted.series EXCEPT ![counters.series] = @ + 1],
                          1 .. LastSeriesId)
      BY <3>1, AllocationKeepsGrants
    <3>3. /\ counters'.series \in 0 .. LastSeriesId
          /\ granted'.series \in [1 .. LastSeriesId -> Nat]
          /\ GrantedBelow(counters'.series, granted'.series, 1 .. LastSeriesId)
      BY <3>2, <3>a
    <3>b. /\ Successor(counters.epoch, LastEpoch) \in 0 .. LastEpoch
          /\ [granted.epoch EXCEPT ![counters.epoch] = @ + 1] \in [1 .. LastEpoch -> Nat]
          /\ GrantedBelow(Successor(counters.epoch, LastEpoch),
                          [granted.epoch EXCEPT ![counters.epoch] = @ + 1],
                          1 .. LastEpoch)
      BY <3>1, AllocationKeepsGrants
    <3>4. /\ counters'.epoch \in 0 .. LastEpoch
          /\ granted'.epoch \in [1 .. LastEpoch -> Nat]
          /\ GrantedBelow(counters'.epoch, granted'.epoch, 1 .. LastEpoch)
      BY <3>2, <3>b
    <3>5. counters' \in Counters /\ granted' \in Grants
      BY <1>c, <2>3, <3>2, <3>3, <3>4
      DEF AllocateSeriesIdAndEpoch, Counters, Grants, SeriesIds, Epochs
    <3>6. GrantsFollowCounters'
      BY <1>c, <3>2, <3>3, <3>4 DEF GrantsFollowCounters, SeriesIds, Epochs
    <3>7. TypeOK'
      BY <2>3, <3>5 DEF IInv, TypeOK, Sound
    <3> QED
      BY <1>g, <2>3, <3>2, <3>6, <3>7, AllocatingKeeps
  <2>4. CASE counters.series # 0 /\ counters.epoch = 0
    <3>1. /\ AllocateSeriesId
          /\ result' = "IdentityExhausted"
          /\ UNCHANGED <<scene, staged, snapshot>>
      BY <1>1, <2>4 DEF AddSeries
    <3> QED
      BY <2>2, <2>4, <3>1 DEF Results
  <2>5. CASE counters.series # 0 /\ counters.epoch # 0 /\ ~stored
    <3>1. /\ AllocateSeriesIdAndEpoch
          /\ result' = "Refused"
          /\ UNCHANGED <<scene, staged, snapshot>>
      BY <1>1, <2>5 DEF AddSeries
    <3>2. granted'.series = [granted.series EXCEPT ![counters.series] = @ + 1]
          /\ granted'.annotation = granted.annotation
      BY <1>c, <3>1 DEF AllocateSeriesIdAndEpoch, Grants
    <3>3. Sound(staged)'
      BY <1>t, <1>g, <2>5, <3>1, <3>2 DEF Sound, Committed
    <3> QED
      BY <2>3, <2>5, <3>1, <3>3 DEF Results
  <2>6. CASE counters.series # 0 /\ counters.epoch # 0 /\ stored
    <3> DEFINE t == [staged EXCEPT !.changes[counters.series] =
                       [epoch |-> counters.epoch, len |-> len]]
    <3>1. staged' = t /\ AllocateSeriesIdAndEpoch /\ result' = "Ok"
          /\ UNCHANGED <<scene, snapshot>>
      BY <1>1, <2>6 DEF AddSeries, Refuse
    <3>2. /\ granted'.series = [granted.series EXCEPT ![counters.series] = @ + 1]
          /\ granted'.annotation = granted.annotation
      BY <1>c, <3>1 DEF AllocateSeriesIdAndEpoch, Grants
    <3>3. [epoch |-> counters.epoch, len |-> len] \in Storages
      BY <1>c, <2>6 DEF Counters, Epochs, Storages
    <3>4. /\ t \in Transactions
          /\ t.deletes = staged.deletes /\ t.upserts = staged.upserts
          /\ t.canonical = staged.canonical /\ t.viewport = staged.viewport
          /\ t.scales = staged.scales
          /\ \A id \in SeriesIds :
               id # counters.series => t.changes[id] = staged.changes[id]
      BY <1>t, <1>g, <2>6, <3>2, <3>3 DEF Sound, Transactions, SeriesMaps
    <3> HIDE DEF t
    <3>5. Sound(staged)'
      BY <1>t, <1>g, <2>6, <3>1, <3>2, <3>4 DEF Sound, Committed
    <3> QED
      BY <2>3, <2>6, <3>1, <3>5 DEF Results
  <2> QED
    BY <2>1, <2>4, <2>5, <2>6
<1>2. ASSUME NEW len \in 0 .. MaxSourceLen, NEW stored \in BOOLEAN,
             NEW id \in SeriesIds, AppendSeries(id, len, stored)
      PROVE  IInv'
  <2> DEFINE old == CurrentSeries(id)
             t == [staged EXCEPT !.changes[id] =
                     [epoch |-> old.epoch, len |-> old.len + len]]
  <2>1. CASE Refuse("SeriesNotFound") \/ Refuse("Ok") \/ Refuse("Refused")
    BY <2>1, RefusalKeeps DEF Results
  <2>2. CASE old # NoSeries /\ len > 0 /\ old.len + len <= MaxSourceLen /\ Stage(t)
    <3>1. scene.series \in SeriesMaps /\ staged.changes \in SeriesMaps
      BY <1>t DEF IInv, TypeOK, SceneStates, Sound, Transactions
    <3>2. old \in Storages
      BY <2>2, <3>1 DEF CurrentSeries, SeriesMaps
    <3>3. [epoch |-> old.epoch, len |-> old.len + len] \in Storages
      BY <2>2, <3>2 DEF Storages
    <3>4. granted.series[id] # 0
      BY <1>t, <2>2 DEF IInv, StagedSeriesGrow, CurrentSeries, Sound
    <3>5. scene.series[id] = NoSeries \/ scene.series[id].len < old.len + len
      <4>1. CASE staged.changes[id] # NoSeries
        <5>1. scene.series[id] = NoSeries \/ scene.series[id] \in Storages
          BY <3>1 DEF SeriesMaps
        <5>2. old = staged.changes[id]
          BY <4>1 DEF CurrentSeries
        <5> QED
          BY <1>t, <2>2, <3>2, <4>1, <5>1, <5>2 DEF Sound, Storages
      <4>2. CASE staged.changes[id] = NoSeries
        BY <2>2, <3>2, <4>2 DEF CurrentSeries, Storages
      <4> QED
        BY <4>1, <4>2
    <3> DEFINE v == [epoch |-> old.epoch, len |-> old.len + len]
    <3>6. v.len = old.len + len
      OBVIOUS
    <3>7. /\ t \in Transactions
          /\ t.deletes = staged.deletes /\ t.upserts = staged.upserts
          /\ t.canonical = staged.canonical /\ t.viewport = staged.viewport
          /\ t.scales = staged.scales
          /\ t.changes[id] = v
          /\ \A other \in SeriesIds : other # id => t.changes[other] = staged.changes[other]
      <4> HIDE DEF old
      <4> QED
        BY <1>t, <3>3 DEF Sound, Transactions, SeriesMaps
    <3> HIDE DEF t, v, old
    <3>8. Sound(t)
      BY <1>t, <3>4, <3>5, <3>6, <3>7 DEF Sound
    <3>9. Sound(staged')
      BY <2>2, <3>8 DEF Stage
    <3> QED
      BY <2>2, <3>9, StagingKeeps DEF Stage, Results
  <2> QED
    BY <1>2, <2>1, <2>2 DEF AppendSeries
<1> QED
  BY <1>1, <1>2 DEF StageSeries

-----------------------------------------------------------------------------
(* Adding an annotation grants a fresh identity, which no staged delete     *)
(* can name: what is deleted is committed, so it was granted before.       *)
LEMMA AddAnnotationKeeps ==
  ASSUME IInv, NEW value \in AnnotationValues, NEW valid \in BOOLEAN,
         AddAnnotation(value, valid)
  PROVE  IInv'
<1> USE SceneAssumption
<1> DEFINE id == counters.annotation
<1>t. Sound(staged)
  BY StagedIsSound DEF AddAnnotation
<1>1. CASE Refuse("InvalidInput") \/ Refuse("IdentityExhausted")
  BY <1>1, RefusalKeeps DEF Results
<1>2. ASSUME id # 0,
             counters' = [counters EXCEPT !.annotation = Successor(id, LastAnnotationId)],
             granted' = [granted EXCEPT !.annotation[id] = @ + 1],
             staged' = [staged EXCEPT !.upserts[id] = value],
             result' = "Ok", UNCHANGED <<scene, snapshot>>
      PROVE  IInv'
  <2>c. counters \in Counters /\ granted \in Grants /\ GrantsFollowCounters
    BY DEF IInv, TypeOK
  <2>1. /\ id \in 1 .. LastAnnotationId
        /\ granted.annotation \in [1 .. LastAnnotationId -> Nat]
        /\ GrantedBelow(id, granted.annotation, 1 .. LastAnnotationId)
    BY <1>2, <2>c DEF Counters, Grants, AnnotationIds, GrantsFollowCounters
  <2>2. /\ counters'.series = counters.series
        /\ counters'.epoch = counters.epoch
        /\ counters'.annotation = Successor(id, LastAnnotationId)
        /\ granted'.series = granted.series
        /\ granted'.epoch = granted.epoch
        /\ granted'.annotation = [granted.annotation EXCEPT ![id] = @ + 1]
    BY <1>2, <2>c DEF Counters, Grants
  <2>3. /\ Successor(id, LastAnnotationId) \in 0 .. LastAnnotationId
        /\ [granted.annotation EXCEPT ![id] = @ + 1] \in [1 .. LastAnnotationId -> Nat]
        /\ GrantedBelow(Successor(id, LastAnnotationId),
                        [granted.annotation EXCEPT ![id] = @ + 1],
                        1 .. LastAnnotationId)
    BY <2>1, AllocationKeepsGrants
  <2>4. counters' \in Counters /\ granted' \in Grants
    BY <1>2, <2>c, <2>2, <2>3 DEF Counters, Grants, AnnotationIds
  <2>5. GrantsFollowCounters'
    BY <2>c, <2>2, <2>3 DEF GrantsFollowCounters, AnnotationIds
  <2>6. granted.annotation[id] = 0
    BY <2>1 DEF GrantedBelow
  <2>7. ~Committed(id)
    BY <2>1, <2>6 DEF IInv, AnnotationsGranted, AnnotationIds
  <2>8. id \notin staged.deletes
    BY <1>t, <2>7 DEF Sound
  <2>9. \A other \in AnnotationIds :
          /\ granted'.annotation[other] = 0 => granted.annotation[other] = 0
          /\ granted.annotation[other] # 0 => granted'.annotation[other] # 0
          /\ granted'.annotation[id] # 0
    BY <2>1, <2>2 DEF AnnotationIds
  <2>10. /\ staged' \in Transactions
         /\ staged'.deletes = staged.deletes
         /\ staged'.canonical = staged.canonical
         /\ staged'.viewport = staged.viewport
         /\ staged'.scales = staged.scales
         /\ \A other \in AnnotationIds :
              staged'.upserts[other] = IF other = id THEN value ELSE staged.upserts[other]
    BY <1>2, <1>t, <2>1 DEF Sound, Transactions, AnnotationMaps, AnnotationIds
  <2>11. Sound(staged)'
    <3>1. \A other \in staged'.deletes :
            Committed(other)' /\ staged'.upserts[other] = NoAnnotation
      BY <1>2, <1>t, <2>8, <2>10 DEF Sound, Committed, Transactions
    <3>2. \A other \in AnnotationIds :
            staged'.upserts[other] # NoAnnotation => granted'.annotation[other] # 0
      BY <1>t, <2>9, <2>10 DEF Sound
    <3> QED
      BY <1>2, <1>t, <2>10, <3>1, <3>2 DEF Sound
  <2>12. TypeOK'
    BY <1>2, <2>4, <2>10 DEF IInv, TypeOK, Results
  <2> QED
    BY <1>2, <2>5, <2>9, <2>11, <2>12, AllocatingKeeps
<1> QED
  BY <1>1, <1>2 DEF AddAnnotation

(* An edit keeps the identity it edits, which is granted and not deleted.   *)
LEMMA EditAnnotationKeeps ==
  ASSUME IInv, NEW id \in AnnotationIds, NEW value \in AnnotationValues,
         NEW valid \in BOOLEAN, EditAnnotation(id, value, valid)
  PROVE  IInv'
<1> DEFINE t == [staged EXCEPT !.upserts[id] = value]
<1>t. InTransaction /\ Sound(staged)
  BY StagedIsSound DEF EditAnnotation
<1>1. CASE Refuse("InvalidInput")
  BY <1>1, RefusalKeeps DEF Results
<1>2. CASE Editable(id) /\ Stage(t)
  <2>1. granted.annotation[id] # 0
    BY <1>t, <1>2 DEF IInv, AnnotationsGranted, Editable
  <2>2. Sound(t)
    BY <1>t, <1>2, <2>1 DEF Sound, Editable, Transactions, AnnotationMaps
  <2>3. Sound(staged')
    BY <1>2, <2>2 DEF Stage
  <2> QED
    BY <1>2, <2>3, StagingKeeps DEF Stage, Results
<1> QED
  BY <1>1, <1>2 DEF EditAnnotation

(* A delete takes the staged value away and names a committed annotation.   *)
LEMMA DeleteAnnotationKeeps ==
  ASSUME IInv, NEW id \in AnnotationIds, DeleteAnnotation(id)
  PROVE  IInv'
<1> USE SceneAssumption
<1>t. Sound(staged)
  BY StagedIsSound DEF DeleteAnnotation
<1>1. CASE Refuse("InvalidInput")
  BY <1>1, RefusalKeeps DEF Results
<1>2. CASE Stage([staged EXCEPT
                    !.upserts[id] = NoAnnotation,
                    !.deletes = IF Committed(id) THEN @ \cup {id} ELSE @])
  <2>1. Sound([staged EXCEPT
                 !.upserts[id] = NoAnnotation,
                 !.deletes = IF Committed(id) THEN @ \cup {id} ELSE @])
    BY <1>t DEF Sound, Transactions, AnnotationMaps
  <2>2. Sound(staged')
    BY <1>2, <2>1 DEF Stage
  <2> QED
    BY <1>2, <2>2, StagingKeeps DEF Stage, Results
<1>3. CASE ~Staged(id) /\ Committed(id) /\ Stage([staged EXCEPT !.deletes = @ \cup {id}])
  <2>1. Sound([staged EXCEPT !.deletes = @ \cup {id}])
    BY <1>t, <1>3 DEF Sound, Transactions, Staged
  <2>2. Sound(staged')
    BY <1>3, <2>1 DEF Stage
  <2> QED
    BY <1>3, <2>2, StagingKeeps DEF Stage, Results
<1> QED
  BY <1>1, <1>2, <1>3 DEF DeleteAnnotation

(* Every staged change of annotations keeps the invariant. *)
LEMMA AnnotationEditsKeep ==
  ASSUME IInv, StageAnnotation
  PROVE  IInv'
  BY AddAnnotationKeeps, EditAnnotationKeeps, DeleteAnnotationKeeps DEF StageAnnotation

-----------------------------------------------------------------------------
(* What commit merges is again a scene's series and annotations. *)
LEMMA MergedTypes ==
  ASSUME IInv, InTransaction
  PROVE  MergedSeries \in SeriesMaps /\ MergedAnnotations \in AnnotationMaps
<1>1. Sound(staged)
  BY StagedIsSound
<1> QED
  BY <1>1 DEF IInv, TypeOK, SceneStates, Sound, Transactions, MergedSeries,
     MergedAnnotations, SeriesMaps, AnnotationMaps

(* The revisions of a scene are natural numbers. *)
LEMMA RevisionsAreNatural ==
  ASSUME IInv
  PROVE  /\ scene.rev \in 0 .. MaxRevision
         /\ scene.dataRev \in 0 .. MaxRevision
         /\ scene.viewRev \in 0 .. MaxRevision
         /\ scene.layoutRev \in 0 .. MaxRevision
         /\ scene.annotationRev \in 0 .. MaxRevision
         /\ scene.gridRev \in 0 .. MaxRevision
         /\ snapshot.rev \in 0 .. MaxRevision
         /\ snapshot.dataRev \in 0 .. MaxRevision
         /\ snapshot.viewRev \in 0 .. MaxRevision
         /\ snapshot.layoutRev \in 0 .. MaxRevision
         /\ snapshot.annotationRev \in 0 .. MaxRevision
         /\ snapshot.gridRev \in 0 .. MaxRevision
  BY DEF IInv, TypeOK, SceneStates, ComponentRevisions

(* The publication of the staged edits, component by component. *)
LEMMA PublicationKeeps ==
  ASSUME IInv, InTransaction, Changed, ~Exhausted, scene' = Published,
         staged' = NoTransaction, result' \in Results,
         UNCHANGED <<counters, snapshot, granted>>
  PROVE  IInv'
<1> USE SceneAssumption
<1>t. Sound(staged)
  BY StagedIsSound
<1>r. /\ scene'.rev = scene.rev + 1
      /\ scene'.canonical = staged.canonical
      /\ scene'.viewport = staged.viewport
      /\ scene'.scales = staged.scales
      /\ scene'.grid = staged.grid
      /\ scene'.series = MergedSeries
      /\ scene'.annotations = MergedAnnotations
      /\ scene'.dataRev = Bump(DataChanged, scene.dataRev)
      /\ scene'.viewRev = Bump(ViewChanged, scene.viewRev)
      /\ scene'.layoutRev = Bump(LayoutChanged, scene.layoutRev)
      /\ scene'.annotationRev = Bump(AnnotationChanged, scene.annotationRev)
      /\ scene'.gridRev = Bump(GridChanged, scene.gridRev)
  BY DEF Published
<1>1. TypeOK'
  <2>1. /\ scene.rev + 1 \in ComponentRevisions
        /\ Bump(DataChanged, scene.dataRev) \in ComponentRevisions
        /\ Bump(ViewChanged, scene.viewRev) \in ComponentRevisions
        /\ Bump(LayoutChanged, scene.layoutRev) \in ComponentRevisions
        /\ Bump(AnnotationChanged, scene.annotationRev) \in ComponentRevisions
        /\ Bump(GridChanged, scene.gridRev) \in ComponentRevisions
    BY RevisionsAreNatural DEF Exhausted, Bump, ComponentRevisions
  <2>2. Published \in SceneStates
    BY <1>t, <2>1, MergedTypes DEF Published, SceneStates, Sound, Transactions
  <2> QED
    BY <2>2 DEF IInv, TypeOK
<1>2. ScalesFitViews' /\ DeletesAreFinal' /\ GrantsFollowCounters'
  BY <1>t, <1>r DEF IInv, ScalesFitViews, DeletesAreFinal, GrantsFollowCounters,
                  InTransaction, Sound
<1>3. AnnotationsGranted'
  BY <1>t, <1>r DEF IInv, AnnotationsGranted, Committed, InTransaction, Sound,
                  MergedAnnotations, Staged
<1>4. StagedSeriesGrow'
  BY <1>t, <1>r DEF IInv, StagedSeriesGrow, InTransaction, Sound, MergedSeries
<1>5. SnapshotBehindScene'
  BY <1>r, RevisionsAreNatural DEF IInv, SnapshotBehindScene, Bump
<1>6. ComponentsFollowScene'
  BY <1>r, RevisionsAreNatural
  DEF IInv, ComponentsFollowScene, Bump, Changed, LayoutChanged
<1>7. RevisionsNameContents'
  <2>1. snapshot.rev # scene'.rev
    BY <1>r, RevisionsAreNatural DEF IInv, SnapshotBehindScene
  <2>2. snapshot.dataRev = scene'.dataRev => snapshot.series = scene'.series
    <3>1. CASE DataChanged
      BY <1>r, <3>1, RevisionsAreNatural DEF IInv, SnapshotBehindScene, Bump
    <3>2. CASE ~DataChanged
      <4>1. MergedSeries = scene.series
        BY <3>2 DEF MergedSeries, DataChanged, IInv, TypeOK, SceneStates, SeriesMaps
      <4> QED
        BY <1>r, <3>2, <4>1 DEF IInv, RevisionsNameContents, Bump
    <3> QED
      BY <3>1, <3>2
  <2>3. snapshot.viewRev = scene'.viewRev =>
          /\ snapshot.canonical = scene'.canonical
          /\ snapshot.viewport = scene'.viewport
          /\ snapshot.scales = scene'.scales
    <3>1. CASE ViewChanged
      BY <1>r, <3>1, RevisionsAreNatural DEF IInv, SnapshotBehindScene, Bump
    <3>2. CASE ~ViewChanged
      BY <1>r, <3>2 DEF IInv, RevisionsNameContents, Bump, ViewChanged
    <3> QED
      BY <3>1, <3>2
  <2>4. snapshot.layoutRev = scene'.layoutRev =>
          snapshot.dataRev = scene'.dataRev /\ snapshot.viewRev = scene'.viewRev
    BY <1>r, RevisionsAreNatural
    DEF IInv, SnapshotBehindScene, RevisionsNameContents, Bump, LayoutChanged
  <2>5. snapshot.annotationRev = scene'.annotationRev =>
          snapshot.annotations = scene'.annotations
    BY <1>r, RevisionsAreNatural
    DEF IInv, SnapshotBehindScene, RevisionsNameContents, Bump, AnnotationChanged
  <2>6. snapshot.gridRev = scene'.gridRev => snapshot.grid = scene'.grid
    BY <1>r, RevisionsAreNatural
    DEF IInv, SnapshotBehindScene, RevisionsNameContents, Bump, GridChanged
  <2> QED
    BY <2>1, <2>2, <2>3, <2>4, <2>5, <2>6 DEF RevisionsNameContents
<1> QED
  BY <1>1, <1>2, <1>3, <1>4, <1>5, <1>6, <1>7 DEF IInv

(* Committing: refused, without effect, or published. *)
LEMMA CommitKeeps ==
  ASSUME IInv, Commit
  PROVE  IInv'
<1>1. CASE UNCHANGED scene
  BY <1>1, StagingKeeps DEF Commit, Results
<1>2. CASE Changed /\ ~Exhausted /\ scene' = Published
  BY <1>2, PublicationKeeps DEF Commit, Results
<1> QED
  BY <1>1, <1>2 DEF Commit

(* A reader taking a snapshot. *)
LEMMA SnapshotKeeps ==
  ASSUME IInv, TakeSnapshot
  PROVE  IInv'
<1>1. TypeOK'
  BY DEF IInv, TypeOK, TakeSnapshot, Results
<1>2. SnapshotBehindScene'
  BY RevisionsAreNatural DEF TakeSnapshot, SnapshotBehindScene
<1>3. RevisionsNameContents'
  BY DEF TakeSnapshot, RevisionsNameContents
<1> QED
  BY <1>1, <1>2, <1>3 DEF IInv, TakeSnapshot, ScalesFitViews, InTransaction,
     GrantsFollowCounters, AnnotationsGranted, StagedSeriesGrow, DeletesAreFinal,
     Committed, Staged, ComponentsFollowScene

-----------------------------------------------------------------------------
(* Every operation preserves the invariant. *)
LEMMA NextKeeps ==
  ASSUME IInv, [Next]_vars
  PROVE  IInv'
<1>1. CASE Next
  <2>1. CASE Begin
    BY <2>1, BeginKeeps
  <2>2. CASE Commit
    BY <2>2, CommitKeeps
  <2>3. CASE Abort
    BY <2>3, StagingKeeps DEF Abort, Results
  <2>4. CASE TakeSnapshot
    BY <2>4, SnapshotKeeps
  <2>5. CASE StageView
    BY <2>5, ViewEditsKeep
  <2>6. CASE StageSeries
    BY <2>6, SeriesEditsKeep
  <2>7. CASE StageAnnotation
    BY <2>7, AnnotationEditsKeep
  <2> QED
    BY <1>1, <2>1, <2>2, <2>3, <2>4, <2>5, <2>6, <2>7 DEF Next
<1>2. CASE UNCHANGED vars
  BY <1>2 DEF vars, IInv, TypeOK, ScalesFitViews, InTransaction,
     GrantsFollowCounters, AnnotationsGranted, StagedSeriesGrow, DeletesAreFinal,
     Committed, Staged, SnapshotBehindScene, RevisionsNameContents,
     ComponentsFollowScene
<1> QED
  BY <1>1, <1>2

(* The counters, the staged edits, the snapshot and the revisions agree in  *)
(* every reachable state.                                                  *)
THEOREM SceneIsSound == Spec => []IInv
<1>1. Init => IInv
  BY InitIsSound
<1>2. IInv /\ [Next]_vars => IInv'
  BY NextKeeps
<1> QED
  BY <1>1, <1>2, PTL DEF Spec

(* Scene, counters, transaction and snapshot keep their types: no revision *)
(* and no identity overflows.                                              *)
THEOREM SceneTypeCorrect == Spec => []TypeOK
<1>1. IInv => TypeOK
  BY DEF IInv
<1> QED
  BY <1>1, SceneIsSound, PTL

(* A logarithmic axis never meets a range it cannot show. *)
THEOREM ScalesAlwaysFit == Spec => []ScalesFitViews
<1>1. IInv => ScalesFitViews
  BY DEF IInv
<1> QED
  BY <1>1, SceneIsSound, PTL

(* A reader that compares revisions never reuses something stale. *)
THEOREM RevisionsAreNames == Spec => []RevisionsNameContents
<1>1. IInv => RevisionsNameContents
  BY DEF IInv
<1> QED
  BY <1>1, SceneIsSound, PTL

(* No component revision runs ahead of the scene revision. *)
THEOREM ComponentsStayBehind == Spec => []ComponentsFollowScene
<1>1. IInv => ComponentsFollowScene
  BY DEF IInv
<1> QED
  BY <1>1, SceneIsSound, PTL

(* What is deleted is committed and not staged: deleting is final. *)
THEOREM DeletingIsFinal == Spec => []DeletesAreFinal
<1>1. IInv => DeletesAreFinal
  BY DEF IInv
<1> QED
  BY <1>1, SceneIsSound, PTL

(* No identity is granted twice. *)
THEOREM IdentitiesAreUnique == Spec => []IdentitiesNeverReused
<1>1. IInv => IdentitiesNeverReused
  <2> SUFFICES ASSUME IInv PROVE IdentitiesNeverReused
    OBVIOUS
  <2> USE SceneAssumption
  <2>1. counters \in Counters /\ granted \in Grants /\ GrantsFollowCounters
    BY DEF IInv, TypeOK
  <2>2. \A id \in 1 .. LastSeriesId : granted.series[id] <= 1
    BY <2>1, GrantedOnce DEF Counters, Grants, GrantsFollowCounters, SeriesIds
  <2>3. \A id \in 1 .. LastEpoch : granted.epoch[id] <= 1
    BY <2>1, GrantedOnce DEF Counters, Grants, GrantsFollowCounters, Epochs
  <2>4. \A id \in 1 .. LastAnnotationId : granted.annotation[id] <= 1
    BY <2>1, GrantedOnce DEF Counters, Grants, GrantsFollowCounters, AnnotationIds
  <2> QED
    BY <2>2, <2>3, <2>4 DEF IdentitiesNeverReused, SeriesIds, Epochs, AnnotationIds
<1> QED
  BY <1>1, SceneIsSound, PTL

-----------------------------------------------------------------------------
(* An annotation identity that died stays dead through one operation. *)
LEMMA DeadStaysDead ==
  ASSUME IInv, [Next]_vars, NEW id \in AnnotationIds, Dead(id)
  PROVE  Dead(id)'
<1> USE SceneAssumption
<1>t. granted \in Grants /\ (InTransaction => Sound(staged))
  BY StagedIsSound DEF IInv, TypeOK
<1>1. CASE UNCHANGED <<scene, staged, granted>>
  BY <1>1 DEF Dead, Staged, InTransaction
<1>2. CASE Begin
  BY <1>2 DEF Begin, Dead, Staged, InTransaction
<1>3. CASE Commit
  <2>1. scene' = scene \/ scene'.annotations = MergedAnnotations
    BY <1>3 DEF Commit, Published
  <2>2. InTransaction /\ staged' = NoTransaction /\ granted' = granted
    BY <1>3 DEF Commit
  <2> QED
    BY <2>1, <2>2 DEF Dead, MergedAnnotations, InTransaction
<1>4. CASE Abort
  BY <1>4 DEF Abort, Dead, Staged, InTransaction
<1>5. CASE StageView
  <2>1. /\ scene' = scene /\ granted' = granted /\ InTransaction
        /\ staged'.upserts = staged.upserts
    BY <1>5, <1>t DEF StageView, ReplaceCanonicalView, SetViewport, SetAxisScales,
       SetGridVisible, Refuse, Stage, Sound, Transactions
  <2> QED
    BY <2>1 DEF Dead, Staged
<1>6. CASE StageSeries
  <2>1. PICK len \in 0 .. MaxSourceLen, stored \in BOOLEAN :
          AddSeries(len, stored) \/ \E s \in SeriesIds : AppendSeries(s, len, stored)
    BY <1>6 DEF StageSeries
  <2>2. /\ scene' = scene /\ granted'.annotation = granted.annotation
        /\ InTransaction /\ staged'.upserts = staged.upserts
    <3>1. CASE AddSeries(len, stored)
      BY <1>t, <3>1 DEF AddSeries, AllocateSeriesId, AllocateSeriesIdAndEpoch, Refuse,
         Grants, Sound, Transactions
    <3>2. CASE \E s \in SeriesIds : AppendSeries(s, len, stored)
      BY <1>t, <3>2 DEF AppendSeries, Refuse, Stage, Sound, Transactions
    <3> QED
      BY <2>1, <3>1, <3>2
  <2> QED
    BY <2>2 DEF Dead, Staged
<1>7. ASSUME NEW value \in AnnotationValues, NEW valid \in BOOLEAN,
             AddAnnotation(value, valid)
      PROVE  Dead(id)'
  <2>1. CASE UNCHANGED <<scene, staged, granted>>
    BY <1>1, <2>1
  <2>2. CASE /\ counters.annotation # 0
             /\ granted' = [granted EXCEPT !.annotation[counters.annotation] = @ + 1]
             /\ staged' = [staged EXCEPT !.upserts[counters.annotation] = value]
             /\ scene' = scene
    <3>1. granted.annotation[id] # 0
      BY <1>t DEF Dead, Grants
    <3>2. id # counters.annotation
      BY <2>2, <3>1, <1>t DEF IInv, TypeOK, Counters, GrantsFollowCounters, GrantedBelow,
         Grants, AnnotationIds
    <3>3. InTransaction
      BY <1>7 DEF AddAnnotation
    <3>4. granted'.annotation[id] = granted.annotation[id]
      BY <1>t, <2>2, <3>2 DEF Grants
    <3>5. staged'.upserts[id] = staged.upserts[id]
      BY <1>t, <2>2, <3>2, <3>3 DEF Sound, Transactions
    <3> QED
      BY <2>2, <3>3, <3>4, <3>5 DEF Dead, Staged
  <2> QED
    BY <1>7, <2>1, <2>2 DEF AddAnnotation, Refuse
<1>8. ASSUME NEW other \in AnnotationIds, NEW value \in AnnotationValues,
             NEW valid \in BOOLEAN, EditAnnotation(other, value, valid)
      PROVE  Dead(id)'
  <2>1. CASE UNCHANGED <<scene, staged, granted>>
    BY <1>1, <2>1
  <2>2. CASE /\ Editable(other)
             /\ staged' = [staged EXCEPT !.upserts[other] = value]
             /\ UNCHANGED <<scene, granted>>
    <3>1. InTransaction
      BY <1>8 DEF EditAnnotation
    <3>2. id # other
      BY <2>2, <3>1 DEF Editable, Dead, Committed
    <3>3. staged'.upserts[id] = staged.upserts[id]
      BY <1>t, <2>2, <3>1, <3>2 DEF Sound, Transactions
    <3> QED
      BY <2>2, <3>1, <3>3 DEF Dead, Staged
  <2> QED
    BY <1>8, <2>1, <2>2 DEF EditAnnotation, Refuse, Stage
<1>9. ASSUME NEW other \in AnnotationIds, DeleteAnnotation(other)
      PROVE  Dead(id)'
  <2>1. CASE UNCHANGED <<scene, staged, granted>>
    BY <1>1, <2>1
  <2>2. CASE /\ staged' = [staged EXCEPT
                    !.upserts[other] = NoAnnotation,
                    !.deletes = IF Committed(other) THEN @ \cup {other} ELSE @]
             /\ UNCHANGED <<scene, granted>>
    <3>1. InTransaction
      BY <1>9 DEF DeleteAnnotation
    <3>2. staged'.upserts[id] = NoAnnotation \/ staged'.upserts[id] = staged.upserts[id]
      BY <1>t, <2>2, <3>1 DEF Sound, Transactions, AnnotationMaps
    <3> QED
      BY <2>2, <3>1, <3>2 DEF Dead, Staged
  <2>3. CASE /\ staged' = [staged EXCEPT !.deletes = @ \cup {other}]
             /\ UNCHANGED <<scene, granted>>
    <3>1. InTransaction
      BY <1>9 DEF DeleteAnnotation
    <3>2. staged'.upserts = staged.upserts
      BY <1>t, <2>3, <3>1 DEF Sound, Transactions
    <3> QED
      BY <2>3, <3>1, <3>2 DEF Dead, Staged
  <2> QED
    BY <1>9, <2>1, <2>2, <2>3 DEF DeleteAnnotation, Refuse, Stage
<1> QED
  BY <1>1, <1>2, <1>3, <1>4, <1>5, <1>6, <1>7, <1>8, <1>9
  DEF Next, vars, StageAnnotation, TakeSnapshot

(* An annotation identity that died stays dead, whatever is edited, added  *)
(* or committed later.                                                     *)
THEOREM NoResurrection == Spec => DeadIdentitiesStayDead
<1>1. IInv /\ [Next]_vars => [\A id \in AnnotationIds : Dead(id) => Dead(id)']_vars
  BY DeadStaysDead
<1> QED
  BY <1>1, SceneIsSound, PTL DEF Spec, DeadIdentitiesStayDead

-----------------------------------------------------------------------------
(* A publication changes the contents: every kind of change shows in them. *)
LEMMA PublicationChanges ==
  ASSUME IInv, InTransaction, Changed
  PROVE  \/ staged.canonical # scene.canonical
         \/ staged.viewport # scene.viewport
         \/ staged.scales # scene.scales
         \/ staged.grid # scene.grid
         \/ MergedSeries # scene.series
         \/ MergedAnnotations # scene.annotations
<1>1. CASE DataChanged
  <2>1. PICK id \in SeriesIds : staged.changes[id] # NoSeries
    BY <1>1 DEF DataChanged
  <2>2. MergedSeries[id] = staged.changes[id]
    BY <2>1 DEF MergedSeries
  <2>3. scene.series[id] # staged.changes[id]
    <3>1. CASE scene.series[id] = NoSeries
      BY <2>1, <3>1
    <3>2. CASE scene.series[id] # NoSeries
      <4>1. scene.series[id] \in Storages
        BY <3>2 DEF IInv, TypeOK, SceneStates, SeriesMaps
      <4>2. scene.series[id].len < staged.changes[id].len /\ scene.series[id].len \in Int
        BY <2>1, <3>2, <4>1, SceneAssumption DEF IInv, StagedSeriesGrow, Storages
      <4> QED
        BY <4>2
    <3> QED
      BY <3>1, <3>2
  <2> QED
    BY <2>2, <2>3
<1>2. CASE ViewChanged \/ AnnotationChanged \/ GridChanged
  BY <1>2 DEF ViewChanged, AnnotationChanged, GridChanged
<1> QED
  BY <1>1, <1>2 DEF Changed

(* The scene with its transactions implements the versioned value that      *)
(* readers see: the version moves by one exactly when the contents change. *)
THEOREM SceneImplementsVersionedScene == Spec => ImplementsVersionedScene
<1> DEFINE contents ==
      [canonical |-> scene.canonical, viewport |-> scene.viewport,
       scales |-> scene.scales, grid |-> scene.grid,
       series |-> scene.series, annotations |-> scene.annotations]
<1>1. Init => Versioned!VersionedInit
  BY DEF Init, EmptyScene, Versioned!VersionedInit
<1>2. ASSUME IInv, [Next]_vars
      PROVE  [Versioned!Publish \/ Versioned!Look]_(Versioned!versionedVars)
  <2>1. CASE UNCHANGED <<scene, snapshot>>
    BY <2>1 DEF Versioned!versionedVars
  <2>2. CASE TakeSnapshot
    BY <2>2 DEF TakeSnapshot, Versioned!Look
  <2>3. CASE Commit /\ scene' # scene
    <3>1. InTransaction /\ Changed /\ scene' = Published /\ snapshot' = snapshot
      BY <2>3 DEF Commit
    <3>2. /\ scene'.rev = scene.rev + 1
          /\ scene'.canonical = staged.canonical
          /\ scene'.viewport = staged.viewport
          /\ scene'.scales = staged.scales
          /\ scene'.grid = staged.grid
          /\ scene'.series = MergedSeries
          /\ scene'.annotations = MergedAnnotations
      BY <3>1 DEF Published
    <3>3. \/ scene'.canonical # scene.canonical
          \/ scene'.viewport # scene.viewport
          \/ scene'.scales # scene.scales
          \/ scene'.grid # scene.grid
          \/ scene'.series # scene.series
          \/ scene'.annotations # scene.annotations
      BY <1>2, <3>1, <3>2, PublicationChanges
    <3>4. contents' # contents
      BY <3>3
    <3> QED
      BY <3>1, <3>2, <3>4 DEF Versioned!Publish
  <2>4. CASE Begin \/ Abort \/ (Commit /\ scene' = scene)
    BY <2>1, <2>4 DEF Begin, Abort, Commit
  <2>5. CASE StageView
    BY <2>1, <2>5 DEF StageView, ReplaceCanonicalView, SetViewport, SetAxisScales,
       SetGridVisible, Refuse, Stage
  <2>6. CASE StageSeries
    BY <2>1, <2>6 DEF StageSeries, AddSeries, AppendSeries, Refuse, Stage
  <2>7. CASE StageAnnotation
    BY <2>1, <2>7 DEF StageAnnotation, AddAnnotation, EditAnnotation, DeleteAnnotation,
       Refuse, Stage
  <2> QED
    BY <1>2, <2>1, <2>2, <2>3, <2>4, <2>5, <2>6, <2>7 DEF Next, vars
<1> QED
  BY <1>1, <1>2, SceneIsSound, PTL
  DEF Spec, ImplementsVersionedScene, Versioned!VersionedSpec
=============================================================================
