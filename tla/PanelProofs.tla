---------------------------- MODULE PanelProofs ----------------------------
(***************************************************************************)
(* Theorems about the control panel: its sidebar, ImageScope, and the loop *)
(* around it, ControlPanel, which share the GUI thread.                    *)
(*                                                                         *)
(* First, why the method index a browser takes for that of the list on     *)
(* display was built from this list, whatever addresses the allocator      *)
(* reuses.  Between two invalidations of the index at most one class list  *)
(* replaces another: the class worker that is still running.  So an index, *)
(* or an index worker's snapshot, whose address is no longer that of the   *)
(* list has no replacement to fear, and a new vector never lies where the  *)
(* one it replaces does.  Then the shapes of all variables, and the        *)
(* refinement: both search panes implement SearchContract, whatever is     *)
(* joined or published when.                                               *)
(*                                                                         *)
(* Then the loop, for any number of game threads and jobs: what its frames *)
(* report, how it hears of the end of the host, and that it uses the       *)
(* dispatcher as the dispatcher's own specification allows.                *)
(***************************************************************************)
EXTENDS ImageScope, ControlPanel, TLAPS

PD == INSTANCE MainThreadDispatcherProofs

(* The part of the type invariant the argument needs.                      *)
Loads == [stage : Stages, image : ImagesOrNone]
Indexers == [stage : Stages, run : Nat, list : Lists, image : ImagesOrNone]
RowsOk(some) == \A row \in some : row[1] \in ImagesOrNone
Shapes ==
  /\ classes \in Lists /\ classJob \in Loads \cup {NoJob}
  /\ methods \in MethodModels /\ methodJob \in Indexers \cup {NoJob}
  /\ selectedImage \in ImagesOrNone
  /\ RowsOk(rows)

(* The list at this address, if it is still there, is the one of `owner`.  *)
Anchored(at, owner) ==
  /\ at = classes.at => owner = classes.owner
  /\ at # classes.at => ~Busy(classJob)

IndexAnchored == methods.index.has => Anchored(methods.index.at, methods.index.owner)
SnapshotAnchored == Busy(methodJob) => Anchored(methodJob.list.at, methodJob.list.owner)

IndexInv == Shapes /\ IndexAnchored /\ SnapshotAnchored

---------------------------------------------------------------------------
LEMMA ListShape ==
  ASSUME NEW a \in Addresses, NEW i \in ImagesOrNone
  PROVE  List(a, i) \in Lists /\ List(a, i).at = a /\ List(a, i).owner = i
  BY ImageScopeAssumption DEF List, Lists, ImagesOrNone

(* What a publication by the index worker leaves.                          *)
LEMMA PublishKeepsAnchor ==
  ASSUME IndexInv, Busy(methodJob)
  PROVE  LET m == MethodPublish(methods, methodJob)
         IN m \in MethodModels /\ (m.index.has => Anchored(m.index.at, m.index.owner))
<1> DEFINE m == MethodPublish(methods, methodJob)
<1>1. methods \in MethodModels /\ methodJob \in Indexers
  BY DEF IndexInv, Shapes, Busy
<1>2. CASE methods.id # methodJob.run
  BY <1>1, <1>2 DEF MethodPublish, IndexInv, IndexAnchored
<1>3. CASE methods.id = methodJob.run
  <2> DEFINE ix == [has |-> TRUE, at |-> methodJob.list.at, size |-> methodJob.list.size,
                    image |-> methodJob.image, owner |-> methodJob.list.owner,
                    of |-> methodJob.run]
  <2>1. m = [methods EXCEPT !.inProgress = FALSE, !.hits = methodJob.run, !.status = "none",
                            !.index = ix]
    BY <1>3 DEF MethodPublish
  <2>2. methodJob.list \in Lists /\ methodJob.run \in Nat /\ methodJob.image \in ImagesOrNone
    BY <1>1 DEF Indexers
  <2>3. ix \in Indexes /\ ix.at = methodJob.list.at /\ ix.owner = methodJob.list.owner
    BY <2>2 DEF Indexes, Lists
  <2> HIDE DEF ix, m
  <2>4. m \in MethodModels /\ m.index = ix
    BY <1>1, <2>1, <2>2, <2>3 DEF MethodModels
  <2>5. Anchored(ix.at, ix.owner)
    BY <2>3 DEF IndexInv, SnapshotAnchored
  <2> USE DEF m
  <2> QED BY <2>4, <2>5
<1> QED BY <1>2, <1>3

(* Marking a run cancelled does not touch the index.                       *)
LEMMA MarkKeepsIndex ==
  ASSUME NEW m \in MethodModels, NEW id
  PROVE  MethodMarkCancelled(m, id) \in MethodModels /\ MethodMarkCancelled(m, id).index = m.index
  BY DEF MethodMarkCancelled, MethodModels

(* CancelImageMethodIndex: the index after the join.                       *)
LEMMA CancelKeepsAnchor ==
  ASSUME IndexInv
  PROVE  /\ MethodsCancelled \in MethodModels
         /\ MethodsCancelled.index.has
              => Anchored(MethodsCancelled.index.at, MethodsCancelled.index.owner)
<1> DEFINE m == MethodsAfterJoin
<1>1. methods \in MethodModels
  BY DEF IndexInv, Shapes
<1>2. m \in MethodModels /\ (m.index.has => Anchored(m.index.at, m.index.owner))
  <2>1. CASE methodJob = NoJob
    BY <1>1, <2>1 DEF MethodsAfterJoin, NoJob, IndexInv, IndexAnchored
  <2>2. CASE methodJob # NoJob /\ methodJob.stage = "passed"
    <3>1. m = MethodPublish(methods, methodJob)
      BY <2>2 DEF MethodsAfterJoin
    <3> QED BY <2>2, <3>1, PublishKeepsAnchor DEF Busy
  <2>3. CASE methodJob # NoJob /\ methodJob.stage # "passed"
    <3>1. m = MethodMarkCancelled(methods, methodJob.run)
      BY <2>3 DEF MethodsAfterJoin
    <3> QED BY <1>1, <3>1, MarkKeepsIndex DEF IndexInv, IndexAnchored
  <2> QED BY <2>1, <2>2, <2>3
<1>3. MethodsCancelled = MethodMarkCancelled(m, methods.id)
  BY DEF MethodsCancelled
<1> QED BY <1>2, <1>3, MarkKeepsIndex

(* SwitchImage drops the index before the class list goes.                 *)
LEMMA SwitchKeepsInv ==
  ASSUME IndexInv, NEW i \in ImagesOrNone, SwitchImage(i),
         RowsOk(rows')
  PROVE  IndexInv'
<1>1. methods' \in MethodModels /\ ~methods'.index.has
  <2>1. methods' = [MethodsCancelled EXCEPT !.index = NoIndex, !.hits = 0, !.status = "none"]
    BY DEF SwitchImage, MethodInvalidate
  <2>2. NoIndex \in Indexes /\ ~NoIndex.has
    BY DEF NoIndex, Indexes, ImagesOrNone
  <2> QED BY <2>1, <2>2, CancelKeepsAnchor DEF MethodModels
<1>2. methodJob' = NoJob /\ selectedImage' = i
  BY DEF SwitchImage
<1>3. classJob' \in Loads
  BY DEF SwitchImage, Loads, Stages
<1>4. classes' \in Lists
  <2>1. CASE Busy(classJob) /\ classJob.stage = "passed"
    <3>1. classJob.image \in ImagesOrNone
      BY <2>1 DEF IndexInv, Shapes, Busy, Loads, ImagesOrNone
    <3> QED BY <2>1, <3>1, ListShape DEF SwitchImage
  <2>2. CASE ~(Busy(classJob) /\ classJob.stage = "passed")
    BY <2>2, ListShape DEF SwitchImage, ImagesOrNone
  <2> QED BY <2>1, <2>2
<1> QED BY <1>1, <1>2, <1>3, <1>4
        DEF IndexInv, Shapes, IndexAnchored, SnapshotAnchored, Busy, ImagesOrNone

(* Steps that leave lists and index alone.                                 *)
LEMMA FrameKeepsInv ==
  ASSUME IndexInv, UNCHANGED <<classVars, methodVars>>,
         selectedImage' \in ImagesOrNone, RowsOk(rows')
  PROVE  IndexInv'
  BY DEF IndexInv, Shapes, IndexAnchored, SnapshotAnchored, Anchored, Busy,
         classVars, methodVars

---------------------------------------------------------------------------
LEMMA IndexInit == Init => IndexInv
<1> SUFFICES ASSUME Init PROVE IndexInv
  OBVIOUS
<1>1. classes \in Lists
  BY ListShape DEF Init, ImagesOrNone
<1>2. methods \in MethodModels /\ ~methods.index.has
  BY DEF Init, EmptyMethods, NoIndex, MethodModels, Indexes, ImagesOrNone
<1> QED BY <1>1, <1>2
        DEF Init, IndexInv, Shapes, RowsOk, IndexAnchored, SnapshotAnchored, Busy, ImagesOrNone

LEMMA IndexStep == IndexInv /\ [Next]_vars => IndexInv'
<1> SUFFICES ASSUME IndexInv, [Next]_vars PROVE IndexInv'
  OBVIOUS
<1> USE DEF IndexInv
<1>r. RowsOk(rows) /\ selectedImage \in ImagesOrNone
  BY DEF Shapes
<1>1. CASE \/ ImagePass \/ ImagePublish \/ ValueBegin \/ ScanClass \/ DrillHit \/ ScanFails
           \/ ValuePass \/ ValueFinish \/ TickLoadsImages \/ RefreshImages \/ StartValueSearch \/ StartValueDrill
           \/ StopValueSearch
  <2>1. UNCHANGED <<classVars, methodVars, selectedImage, rows>>
    BY <1>1 DEF ImagePass, ImagePublish, ValueBegin, ScanClass, DrillHit, ScanFails, ValuePass,
       ValueFinish, TickLoadsImages, RefreshImages, StartValueSearch, StartValueDrill, StopValueSearch,
       pickVars
  <2> QED BY <1>r, <2>1, FrameKeepsInv
<1>2. CASE ClassPass
  <2>1. classJob' \in Loads /\ Busy(classJob)
    BY <1>2 DEF ClassPass, Shapes, Loads, Stages, Busy
  <2> QED BY <1>2, <2>1 DEF ClassPass, Shapes, IndexAnchored, SnapshotAnchored, Anchored, Busy,
             pickVars, methodVars
<1>3. CASE ClassPublish
  <2>1. PICK a \in Addresses \ InUse : classes' = List(a, classJob.image)
    BY <1>3 DEF ClassPublish
  <2>2. classJob.image \in ImagesOrNone
    BY <1>3 DEF ClassPublish, Shapes, Busy, Loads, ImagesOrNone
  <2>3. classes' \in Lists /\ classes'.at = a /\ a # classes.at
    BY <2>1, <2>2, ListShape DEF InUse
  <2>4. Busy(classJob) /\ classJob' = NoJob
        /\ UNCHANGED <<methods, methodJob, selectedImage, rows>>
    BY <1>3 DEF ClassPublish, pickVars, methodVars
  <2> QED BY <2>3, <2>4 DEF Shapes, IndexAnchored, SnapshotAnchored, Anchored, Busy
<1>4. CASE MethodPass
  <2>1. methodJob \in Indexers /\ methodJob' = [methodJob EXCEPT !.stage = "passed"]
    BY <1>4 DEF MethodPass, Shapes, Busy
  <2>2. methodJob' \in Indexers /\ methodJob'.list = methodJob.list
    BY <2>1 DEF Indexers, Stages
  <2> QED BY <1>4, <2>2 DEF MethodPass, Shapes, IndexAnchored, SnapshotAnchored, Anchored, Busy,
             pickVars, classVars
<1>5. CASE MethodFinish
  <2>1. methodJob' = NoJob /\ methods' = MethodPublish(methods, methodJob)
        /\ Busy(methodJob) /\ UNCHANGED <<classes, classJob, selectedImage, rows>>
    BY <1>5 DEF MethodFinish, pickVars, classVars
  <2> QED BY <2>1, PublishKeepsAnchor
          DEF Shapes, IndexAnchored, SnapshotAnchored, Anchored, Busy
<1>6. CASE TickPicksDefault
  <2>1. CASE SwitchImage(Hint) /\ Record(Hint, None)
    BY <1>r, <2>1, SwitchKeepsInv, ImageScopeAssumption DEF Record, RowsOk, ImagesOrNone
  <2>2. CASE UNCHANGED <<pickVars, classVars, valueVars, methodVars, rows>>
    BY <1>r, <2>2, FrameKeepsInv DEF pickVars
  <2> QED BY <1>6, <2>1, <2>2 DEF TickPicksDefault
<1>7. ASSUME NEW i \in Images, SelectImage(i) PROVE IndexInv'
  BY <1>r, <1>7, SwitchKeepsInv DEF SelectImage, Record, RowsOk, ImagesOrNone
<1>8. CASE SelectClass \/ NavigateToValueSearchHit
  <2>1. rows' = rows \cup {<<selectedImage, selectedClass'>>}
        /\ UNCHANGED <<classVars, methodVars, selectedImage>>
    BY <1>8 DEF SelectClass, NavigateToValueSearchHit, Record
  <2>2. RowsOk(rows')
    BY <1>r, <2>1 DEF RowsOk
  <2> QED BY <1>r, <2>1, <2>2, FrameKeepsInv
<1>9. CASE StartImageMethodIndex
  <2>1. UNCHANGED <<classes, classJob, selectedImage, rows>>
    BY <1>9 DEF StartImageMethodIndex, pickVars, classVars
  <2>2. CASE IndexValid(methods)
    <3>1. methods' = [methods EXCEPT !.hits = methods.index.of] /\ methodJob' = NoJob
      BY <1>9, <2>2 DEF StartImageMethodIndex
    <3>2. methods' \in MethodModels /\ methods'.index = methods.index
      <4>1. methods \in MethodModels /\ methods.index.of \in Nat
        BY DEF Shapes, MethodModels, Indexes
      <4> QED BY <3>1, <4>1 DEF MethodModels
    <3> QED BY <2>1, <3>1, <3>2
            DEF Shapes, IndexAnchored, SnapshotAnchored, Anchored, Busy
  <2>3. CASE ~IndexValid(methods)
    <3>1. methods' = MethodBeginRun
          /\ methodJob' = [stage |-> "scan", run |-> methods.id + 1, list |-> classes,
                           image |-> selectedImage]
      BY <1>9, <2>3 DEF StartImageMethodIndex
    <3>2. methods' \in MethodModels /\ methods'.index = methods.index
      <4>1. methods \in MethodModels /\ methods.id + 1 \in Nat
        BY DEF Shapes, MethodModels
      <4>2. methods' = [methods EXCEPT !.id = methods.id + 1, !.inProgress = TRUE, !.hits = 0,
                                       !.status = "running"]
        BY <3>1, <4>1 DEF MethodBeginRun, MethodModels
      <4> QED BY <4>1, <4>2 DEF MethodModels
    <3>3. methods.id + 1 \in Nat
      BY DEF Shapes, MethodModels
    <3>4. methodJob' \in Indexers /\ methodJob'.list = classes
      BY <1>r, <3>1, <3>3 DEF Shapes, Indexers, Stages
    <3> QED BY <2>1, <3>2, <3>4
            DEF Shapes, IndexAnchored, SnapshotAnchored, Anchored, Busy
  <2> QED BY <2>2, <2>3
<1>10. CASE StopMethodIndex
  <2>1. methods' = MethodsCancelled /\ methodJob' = NoJob
        /\ UNCHANGED <<classes, classJob, selectedImage, rows>>
    BY <1>10 DEF StopMethodIndex, pickVars, classVars
  <2> QED BY <2>1, CancelKeepsAnchor
          DEF Shapes, IndexAnchored, SnapshotAnchored, Anchored, Busy
<1>11. ASSUME NEW row \in rows, RestoreRow(row) PROVE IndexInv'
  <2>1. row[1] \in ImagesOrNone /\ rows' = rows
    BY <1>11, <1>r DEF RestoreRow, RowsOk
  <2>2. CASE row[2] = None
    BY <1>11, <1>r, <2>1, <2>2, SwitchKeepsInv DEF RestoreRow
  <2>3. CASE row[2] # None
    BY <1>11, <1>r, <2>1, <2>3, FrameKeepsInv DEF RestoreRow
  <2> QED BY <2>2, <2>3
<1>12. CASE UNCHANGED vars
  BY <1>12, <1>r, FrameKeepsInv DEF vars, pickVars
<1> QED BY <1>1, <1>2, <1>3, <1>4, <1>5, <1>6, <1>7, <1>8, <1>9, <1>10, <1>11, <1>12
        DEF Next, Workers

(* The index the browser shows as valid was built from the list on         *)
(* display, for every number of images and addresses.                      *)
THEOREM IndexIsOfList == Spec => []IndexMatchesList
<1>1. IndexInv => IndexMatchesList
  BY DEF IndexInv, IndexAnchored, Anchored, IndexMatchesList, IndexValid
<1> QED BY <1>1, IndexInit, IndexStep, PTL DEF Spec

---------------------------------------------------------------------------
(* Type correctness.  What a result holds at most depends on the scans     *)
(* having room, and on a drill knowing the image its baseline came from.   *)
Known(hits) == hits.n > 0 => hits.from # None
ValuesOk(m) == m \in ValueModels /\ Known(m.hits) /\ Known(m.baseline)
JobOk(job) ==
  /\ job \in ValueJobs \cup {NoJob}
  /\ Busy(job) /\ job.stage # "passed" /\ ~job.truncated => job.n < HitCap
Untouched == selectedImage = None => values = EmptyValues /\ valueJob = NoJob

PickerOk ==
  /\ images \subseteq Images /\ imageJob \in {"none", "load", "passed"} /\ pendingDefault \in BOOLEAN
  /\ clicks \in 0..MaxClicks
SelectionOk ==
  /\ selectedImage \in ImagesOrNone /\ selectedClass \in ImagesOrNone
  /\ rows \subseteq Images \X ImagesOrNone
LoadsOk == classJob \in ClassJobs \cup {NoJob} /\ methodJob \in MethodJobs \cup {NoJob}
SearchOk == ValuesOk(values) /\ JobOk(valueJob) /\ Untouched

TypeInv == PickerOk /\ SelectionOk /\ LoadsOk /\ SearchOk

LEMMA ValuePublishOk ==
  ASSUME ValuesOk(values), JobOk(valueJob), Busy(valueJob)
  PROVE  ValuesOk(ValuePublish(values, valueJob))
<1>1. valueJob \in ValueJobs
  BY DEF JobOk, Busy
<1>2. CASE values.id # valueJob.run
  BY <1>2 DEF ValuePublish
<1>3. CASE values.id = valueJob.run
  <2> DEFINE hits == [of |-> valueJob.run, n |-> valueJob.n, from |-> valueJob.from,
                      whole |-> valueJob.left = 0 \/ valueJob.truncated]
             m == ValuePublish(values, valueJob)
  <2>1. hits \in Hits /\ Known(hits)
    BY <1>1, ImageScopeAssumption DEF ValueJobs, Hits, Known, ImagesOrNone
  <2>2. valueJob.truncated \in BOOLEAN
    BY <1>1 DEF ValueJobs
  <2>3. m = [values EXCEPT !.inProgress = FALSE, !.status = "results",
                           !.truncated = valueJob.truncated, !.hits = hits]
    BY <1>3 DEF ValuePublish
  <2> HIDE DEF hits, m
  <2>4. m \in ValueModels /\ m.hits = hits /\ m.baseline = values.baseline
    BY <2>1, <2>2, <2>3 DEF ValuesOk, ValueModels
  <2>5. ValuesOk(m)
    BY <2>1, <2>4 DEF ValuesOk
  <2> QED BY <2>5 DEF m
<1> QED BY <1>2, <1>3

LEMMA ValueMarkOk ==
  ASSUME NEW m, ValuesOk(m), NEW id
  PROVE  ValuesOk(ValueMarkCancelled(m, id))
<1> DEFINE hits == IF m.drill /\ m.hits.n = 0 /\ m.baseline.n > 0 THEN m.baseline ELSE m.hits
           marked == [m EXCEPT !.inProgress = FALSE, !.status = "cancelled", !.hits = hits]
<1>1. hits \in Hits /\ Known(hits)
  BY DEF ValuesOk, ValueModels
<1>2. ValueMarkCancelled(m, id) \in {m, marked}
  BY DEF ValueMarkCancelled, ValuesOk, ValueModels
<1> HIDE DEF hits
<1>3. marked \in ValueModels /\ marked.hits = hits /\ marked.baseline = m.baseline
  BY <1>1 DEF ValuesOk, ValueModels
<1>4. ValuesOk(marked)
  BY <1>1, <1>3 DEF ValuesOk
<1> QED BY <1>2, <1>4

(* CancelValueSearch: the hits after the join.                             *)
LEMMA CancelValuesOk ==
  ASSUME ValuesOk(values), JobOk(valueJob)
  PROVE  ValuesOk(ValuesCancelled)
<1>1. ValuesOk(ValuesAfterJoin)
  <2>1. CASE valueJob = NoJob
    BY <2>1 DEF ValuesAfterJoin, NoJob
  <2>2. CASE valueJob # NoJob /\ valueJob.stage = "passed"
    <3>1. ValuesAfterJoin = ValuePublish(values, valueJob)
      BY <2>2 DEF ValuesAfterJoin
    <3> QED BY <2>2, <3>1, ValuePublishOk DEF Busy
  <2>3. CASE valueJob # NoJob /\ valueJob.stage # "passed"
    <3>1. ValuesAfterJoin = ValueMarkCancelled(values, valueJob.run)
      BY <2>3 DEF ValuesAfterJoin
    <3> QED BY <3>1, ValueMarkOk
  <2> QED BY <2>1, <2>2, <2>3
<1> QED BY <1>1, ValueMarkOk DEF ValuesCancelled

(* A search that is cancelled leaves nothing behind to type.               *)
LEMMA CancelSearchOk ==
  ASSUME SearchOk, CancelValueSearch, selectedImage' # None
  PROVE  SearchOk'
<1>1. values' = ValuesCancelled /\ valueJob' = NoJob
  BY DEF CancelValueSearch
<1>2. ValuesOk(values')
  BY <1>1, CancelValuesOk DEF SearchOk
<1>3. JobOk(valueJob')
  BY <1>1 DEF JobOk, Busy
<1> QED BY <1>2, <1>3 DEF SearchOk, Untouched

LEMMA SwitchKeepsTypes ==
  ASSUME TypeInv, NEW i \in Images, SwitchImage(i)
  PROVE  /\ selectedImage' \in ImagesOrNone /\ selectedClass' \in ImagesOrNone
         /\ LoadsOk' /\ SearchOk'
<1>1. selectedImage' = i /\ selectedClass' = None /\ methodJob' = NoJob
      /\ classJob' = [stage |-> "start", image |-> i] /\ CancelValueSearch
  BY DEF SwitchImage
<1>2. LoadsOk'
  BY <1>1 DEF LoadsOk, ClassJobs, Stages
<1>3. i # None
  BY ImageScopeAssumption
<1>4. SearchOk'
  BY <1>1, <1>3, CancelSearchOk DEF TypeInv
<1> QED BY <1>1, <1>2, <1>4 DEF ImagesOrNone

LEMMA ClickOk ==
  ASSUME clicks \in 0..MaxClicks, Click
  PROVE  clicks' \in 0..MaxClicks
  BY ImageScopeAssumption DEF Click

LEMMA TypeInit == Init => TypeInv
<1> SUFFICES ASSUME Init PROVE TypeInv
  OBVIOUS
<1>1. NoHits \in Hits /\ Known(NoHits)
  BY ImageScopeAssumption DEF NoHits, Hits, Known, ImagesOrNone
<1>2. EmptyValues \in ValueModels /\ EmptyValues.hits = NoHits /\ EmptyValues.baseline = NoHits
  BY <1>1 DEF EmptyValues, ValueModels
<1>3. SearchOk
  BY <1>1, <1>2 DEF Init, SearchOk, ValuesOk, JobOk, Untouched, Busy
<1>4. PickerOk /\ SelectionOk /\ LoadsOk
  BY ImageScopeAssumption DEF Init, PickerOk, SelectionOk, LoadsOk, ImagesOrNone
<1> QED BY <1>3, <1>4 DEF TypeInv

(* The workers of the value search.                                        *)
LEMMA ScanOk ==
  ASSUME TypeInv, Scanning, NEW k \in 0..HitCap, valueJob.n + k <= HitCap, Scan(k)
  PROVE  JobOk(valueJob')
<1>1. valueJob \in ValueJobs /\ valueJob.left > 0 /\ valueJob.stage = "scan"
  BY DEF Scanning, TypeInv, SearchOk, JobOk, Busy
<1> DEFINE j == valueJob
<1>2. /\ j.n + k \in 0..HitCap /\ j.left - 1 \in Nat /\ (j.n + k = HitCap) \in BOOLEAN
      /\ j.n + k # HitCap => j.n + k < HitCap
  BY <1>1, ImageScopeAssumption DEF ValueJobs
<1>3. valueJob' = [j EXCEPT !.left = j.left - 1, !.n = j.n + k, !.truncated = (j.n + k = HitCap)]
  BY <1>1 DEF Scan, ValueJobs
<1>4. valueJob' \in ValueJobs /\ valueJob'.n = j.n + k /\ valueJob'.truncated = (j.n + k = HitCap)
  BY <1>1, <1>2, <1>3 DEF ValueJobs
<1> QED BY <1>2, <1>4 DEF JobOk

LEMMA ValueWorkerOk ==
  ASSUME TypeInv,
         ValueBegin \/ ScanClass \/ DrillHit \/ ScanFails \/ ValuePass \/ ValueFinish
  PROVE  SearchOk'
<1>1. Busy(valueJob) /\ selectedImage' = selectedImage
  BY DEF ValueBegin, ScanClass, DrillHit, ScanFails, ValuePass, ValueFinish, Scanning, pickVars
<1>2. valueJob \in ValueJobs /\ ValuesOk(values) /\ selectedImage # None
  BY <1>1 DEF TypeInv, SearchOk, JobOk, Busy, Untouched
<1>3. HitCap \in Nat /\ HitCap > 0
  BY ImageScopeAssumption
<1>4. SUFFICES ValuesOk(values') /\ JobOk(valueJob')
  BY <1>1, <1>2 DEF SearchOk, Untouched
<1>5. CASE ValueBegin
  <2>1. PICK n \in {0, Size[valueJob.from]} :
          valueJob' = [valueJob EXCEPT !.stage = "scan",
                                       !.left = IF valueJob.drill THEN valueJob.left ELSE n]
    BY <1>2, <1>5 DEF ValueBegin, ValueJobs
  <2>2. n \in Nat
    BY <1>2, <2>1, ImageScopeAssumption DEF ValueJobs
  <2>3. valueJob' \in ValueJobs /\ valueJob'.n = valueJob.n /\ valueJob'.truncated = valueJob.truncated
    BY <1>2, <2>1, <2>2 DEF ValueJobs, Stages
  <2>4. JobOk(valueJob')
    BY <1>1, <1>5, <2>3 DEF ValueBegin, TypeInv, SearchOk, JobOk
  <2> QED BY <1>2, <1>5, <2>4 DEF ValueBegin
<1>6. CASE ScanClass
  <2>1. PICK k \in 0..(HitCap - valueJob.n) : Scan(k)
    BY <1>6 DEF ScanClass
  <2>2. k \in 0..HitCap /\ valueJob.n + k <= HitCap
    BY <1>2, <1>3, <2>1 DEF ValueJobs
  <2> QED BY <1>2, <1>6, <2>1, <2>2, ScanOk DEF ScanClass
<1>7. CASE DrillHit
  <2>1. PICK k \in {0, 1} : Scan(k)
    BY <1>7 DEF DrillHit
  <2>2. valueJob.n < HitCap
    BY <1>1, <1>7 DEF DrillHit, Scanning, TypeInv, SearchOk, JobOk
  <2>3. k \in 0..HitCap /\ valueJob.n + k <= HitCap
    BY <1>2, <1>3, <2>1, <2>2 DEF ValueJobs
  <2> QED BY <1>2, <1>7, <2>1, <2>3, ScanOk DEF DrillHit
<1>8. CASE ScanFails
  <2>1. 0 \in 0..HitCap /\ valueJob' = [valueJob EXCEPT !.left = 0, !.n = 0]
    BY <1>3, <1>8 DEF ScanFails
  <2>2. valueJob' \in ValueJobs /\ valueJob'.n = 0
    BY <1>2, <2>1 DEF ValueJobs
  <2> QED BY <1>2, <1>3, <1>8, <2>2 DEF ScanFails, JobOk
<1>9. CASE ValuePass
  <2>1. valueJob' \in ValueJobs /\ valueJob'.stage = "passed"
    BY <1>2, <1>9 DEF ValuePass, ValueJobs, Stages
  <2> QED BY <1>2, <1>9, <2>1 DEF ValuePass, JobOk
<1>10. CASE ValueFinish
  <2>1. ValuesOk(values')
    BY <1>1, <1>10, ValuePublishOk DEF ValueFinish, TypeInv, SearchOk
  <2>2. JobOk(valueJob')
    BY <1>10 DEF ValueFinish, JobOk, Busy
  <2> QED BY <2>1, <2>2
<1> QED BY <1>5, <1>6, <1>7, <1>8, <1>9, <1>10

LEMMA SearchStartOk ==
  ASSUME TypeInv, StartValueSearch \/ StartValueDrill
  PROVE  SearchOk'
<1>1. ValuesOk(values) /\ selectedImage' = selectedImage
  BY DEF TypeInv, SearchOk, StartValueSearch, StartValueDrill, pickVars
<1>2. selectedImage \in Images
  <2>1. CASE StartValueSearch
    BY <2>1 DEF StartValueSearch, TypeInv, SelectionOk, ImagesOrNone
  <2>2. CASE StartValueDrill
    <3>1. values.hits.n > 0
      BY <2>2 DEF StartValueDrill
    <3>2. ~(EmptyValues.hits.n > 0)
      BY DEF EmptyValues, NoHits
    <3>3. values # EmptyValues
      BY <3>1, <3>2
    <3> QED BY <3>3 DEF TypeInv, SelectionOk, SearchOk, Untouched, ImagesOrNone
  <2> QED BY <2>1, <2>2
<1>3. NoHits \in Hits /\ Known(NoHits)
  BY ImageScopeAssumption DEF NoHits, Hits, Known, ImagesOrNone
<1>4. ASSUME NEW drill \in BOOLEAN, values' = ValueBeginRun(drill)
      PROVE  ValuesOk(values')
  <2> DEFINE base == IF drill THEN values.hits ELSE NoHits
             hits == IF drill THEN values.hits ELSE NoHits
  <2>1. base \in Hits /\ Known(base) /\ values.id + 1 \in Nat
    BY <1>1, <1>3 DEF ValuesOk, ValueModels
  <2>2. values' = [values EXCEPT !.id = values.id + 1, !.inProgress = TRUE, !.drill = drill,
                                 !.status = "running", !.truncated = FALSE,
                                 !.baseline = base, !.hits = hits]
    BY <1>1, <1>4 DEF ValueBeginRun, ValuesOk, ValueModels
  <2> HIDE DEF base
  <2>3. hits = base
    BY DEF base
  <2> HIDE DEF hits
  <2>4. values' \in ValueModels /\ values'.hits = base /\ values'.baseline = base
    BY <1>1, <2>1, <2>2, <2>3 DEF ValuesOk, ValueModels
  <2> QED BY <2>1, <2>4 DEF ValuesOk
<1>5. ASSUME NEW drill \in BOOLEAN, NEW howMany \in Nat, NEW from \in Images,
             valueJob' = [stage |-> "start", run |-> values.id + 1, drill |-> drill, n |-> 0,
                          left |-> howMany, truncated |-> FALSE, from |-> from]
      PROVE  JobOk(valueJob')
  <2>1. values.id + 1 \in Nat
    BY <1>1 DEF ValuesOk, ValueModels
  <2>2. valueJob' \in ValueJobs
    BY <1>5, <2>1, ImageScopeAssumption DEF ValueJobs, Stages
  <2> QED BY <1>5, <2>2, ImageScopeAssumption DEF JobOk
<1>6. CASE StartValueSearch
  BY <1>1, <1>2, <1>4, <1>5, <1>6, ImageScopeAssumption DEF StartValueSearch, SearchOk, Untouched
<1>7. CASE StartValueDrill
  <2>1. values.hits.n \in Nat /\ values.hits.from \in Images
    BY <1>1, <1>7 DEF StartValueDrill, ValuesOk, ValueModels, Hits, Known, ImagesOrNone
  <2> QED BY <1>1, <1>2, <1>4, <1>5, <1>7, <2>1, ImageScopeAssumption
          DEF StartValueDrill, SearchOk, Untouched
<1> QED BY <1>6, <1>7

(* StopValueSearch finds a search only after an image has been selected.   *)
LEMMA StopOk ==
  ASSUME TypeInv, StopValueSearch
  PROVE  SearchOk'
<1>1. selectedImage' = selectedImage /\ CancelValueSearch /\ ~Idle(values, valueJob)
  BY DEF StopValueSearch, pickVars
<1>2. Idle(EmptyValues, NoJob)
  BY DEF Idle, EmptyValues, Busy
<1>3. selectedImage' # None
  BY <1>1, <1>2 DEF TypeInv, SearchOk, Untouched
<1> QED BY <1>1, <1>3, CancelSearchOk DEF TypeInv

LEMMA SearchRests ==
  ASSUME TypeInv, UNCHANGED valueVars, selectedImage' = None => selectedImage = None
  PROVE  SearchOk'
  BY DEF TypeInv, SearchOk, Untouched, valueVars

LEMMA TypeStep == TypeInv /\ IndexInv /\ [Next]_vars => TypeInv'
<1> SUFFICES ASSUME TypeInv, IndexInv, [Next]_vars PROVE TypeInv'
  OBVIOUS
<1>t. PickerOk /\ SelectionOk /\ LoadsOk /\ SearchOk
  BY DEF TypeInv
<1>1. CASE ImagePass \/ ImagePublish \/ TickLoadsImages \/ RefreshImages
  <2>1. PickerOk'
    BY <1>1, <1>t, ClickOk DEF ImagePass, ImagePublish, TickLoadsImages, RefreshImages, PickerOk
  <2>2. UNCHANGED <<pickVars, classVars, valueVars, methodVars, rows>>
    BY <1>1 DEF ImagePass, ImagePublish, TickLoadsImages, RefreshImages
  <2>3. SearchOk'
    BY <2>2, SearchRests DEF pickVars
  <2> QED BY <1>t, <2>1, <2>2, <2>3 DEF TypeInv, SelectionOk, LoadsOk, pickVars, classVars, methodVars
<1>2. CASE ClassPass \/ ClassPublish \/ MethodPass \/ MethodFinish
  <2>1. UNCHANGED <<imageVars, pickVars, valueVars, rows, clicks>>
    BY <1>2 DEF ClassPass, ClassPublish, MethodPass, MethodFinish
  <2>2. LoadsOk'
    <3>1. CASE ClassPass
      BY <1>t, <3>1 DEF ClassPass, LoadsOk, ClassJobs, Stages, Busy, methodVars
    <3>2. CASE ClassPublish
      BY <1>t, <3>2 DEF ClassPublish, LoadsOk, methodVars
    <3>3. CASE MethodPass
      BY <1>t, <3>3 DEF MethodPass, LoadsOk, MethodJobs, Stages, Busy, classVars
    <3>4. CASE MethodFinish
      BY <1>t, <3>4 DEF MethodFinish, LoadsOk, classVars
    <3> QED BY <1>2, <3>1, <3>2, <3>3, <3>4
  <2>3. SearchOk'
    BY <2>1, SearchRests DEF pickVars
  <2> QED BY <1>t, <2>1, <2>2, <2>3 DEF TypeInv, PickerOk, SelectionOk, imageVars, pickVars
<1>3. CASE ValueBegin \/ ScanClass \/ DrillHit \/ ScanFails \/ ValuePass \/ ValueFinish
  <2>1. UNCHANGED <<imageVars, pickVars, classVars, methodVars, rows, clicks>>
    BY <1>3 DEF ValueBegin, ScanClass, DrillHit, ScanFails, ValuePass, ValueFinish
  <2> QED BY <1>3, <1>t, <2>1, ValueWorkerOk
          DEF TypeInv, PickerOk, SelectionOk, LoadsOk, imageVars, pickVars, classVars, methodVars
<1>4. CASE StartValueSearch \/ StartValueDrill \/ StopValueSearch
  <2>1. UNCHANGED <<imageVars, pickVars, classVars, methodVars, rows>> /\ Click
    BY <1>4 DEF StartValueSearch, StartValueDrill, StopValueSearch
  <2>2. SearchOk'
    BY <1>4, SearchStartOk, StopOk
  <2>3. PickerOk'
    BY <1>t, <2>1, ClickOk DEF PickerOk, imageVars
  <2> QED BY <1>t, <2>1, <2>2, <2>3 DEF TypeInv, SelectionOk, LoadsOk, pickVars, classVars, methodVars
<1>5. CASE TickPicksDefault
  <2>1. PickerOk'
    BY <1>5, <1>t DEF TickPicksDefault, PickerOk
  <2>2. CASE SwitchImage(Hint) /\ Record(Hint, None)
    <3>1. selectedImage' \in ImagesOrNone /\ selectedClass' \in ImagesOrNone /\ LoadsOk' /\ SearchOk'
      BY <2>2, SwitchKeepsTypes, ImageScopeAssumption
    <3>2. rows' \subseteq Images \X ImagesOrNone
      BY <1>t, <2>2, ImageScopeAssumption DEF Record, SelectionOk, ImagesOrNone
    <3> QED BY <2>1, <3>1, <3>2 DEF TypeInv, SelectionOk
  <2>3. CASE UNCHANGED <<pickVars, classVars, valueVars, methodVars, rows>>
    <3>1. SearchOk'
      BY <2>3, SearchRests DEF pickVars
    <3> QED BY <1>t, <2>1, <2>3, <3>1 DEF TypeInv, SelectionOk, LoadsOk, pickVars, classVars, methodVars
  <2> QED BY <1>5, <2>2, <2>3 DEF TickPicksDefault
<1>6. ASSUME NEW i \in Images, SelectImage(i) PROVE TypeInv'
  <2>1. SwitchImage(i) /\ Record(i, None) /\ Click /\ UNCHANGED imageVars
    BY <1>6 DEF SelectImage
  <2>2. selectedImage' \in ImagesOrNone /\ selectedClass' \in ImagesOrNone /\ LoadsOk' /\ SearchOk'
    BY <2>1, SwitchKeepsTypes
  <2>3. rows' \subseteq Images \X ImagesOrNone
    BY <1>t, <2>1 DEF Record, SelectionOk, ImagesOrNone
  <2>4. PickerOk'
    BY <1>t, <2>1, ClickOk DEF PickerOk, imageVars
  <2> QED BY <2>2, <2>3, <2>4 DEF TypeInv, SelectionOk
<1>7. CASE SelectClass \/ NavigateToValueSearchHit
  <2>1. /\ UNCHANGED <<imageVars, selectedImage, classVars, methodVars>> /\ Click
        /\ Record(selectedImage, selectedClass')
    BY <1>7 DEF SelectClass, NavigateToValueSearchHit
  <2>2. selectedClass' \in ImagesOrNone
    <3>1. CASE SelectClass
      <4>1. classes.owner \in ImagesOrNone /\ methods.index.owner \in ImagesOrNone
        BY DEF IndexInv, Shapes, Lists, MethodModels, Indexes
      <4> QED BY <3>1, <4>1 DEF SelectClass
    <3>2. CASE NavigateToValueSearchHit
      BY <1>t, <3>2 DEF NavigateToValueSearchHit, SearchOk, ValuesOk, ValueModels, Hits
    <3> QED BY <1>7, <3>1, <3>2
  <2>3. selectedImage # None
    <3>1. CASE NavigateToValueSearchHit
      <4>1. values.hits.n > 0
        BY <3>1 DEF NavigateToValueSearchHit
      <4>2. ~(EmptyValues.hits.n > 0)
        BY DEF EmptyValues, NoHits
      <4> QED BY <1>t, <4>1, <4>2 DEF SearchOk, Untouched
    <3> QED BY <1>7, <3>1 DEF SelectClass
  <2>4. SearchOk'
    <3>1. CASE SelectClass
      BY <1>t, <2>1, <2>3, <3>1, CancelSearchOk DEF SelectClass
    <3>2. CASE NavigateToValueSearchHit
      BY <2>1, <3>2, SearchRests DEF NavigateToValueSearchHit
    <3> QED BY <1>7, <3>1, <3>2
  <2>5. rows' \subseteq Images \X ImagesOrNone
    BY <1>t, <2>1, <2>2, <2>3 DEF Record, SelectionOk, ImagesOrNone
  <2>6. PickerOk'
    BY <1>t, <2>1, ClickOk DEF PickerOk, imageVars
  <2> QED BY <1>t, <2>1, <2>2, <2>4, <2>5, <2>6 DEF TypeInv, SelectionOk, LoadsOk, classVars, methodVars
<1>8. CASE StartImageMethodIndex
  <2>1. UNCHANGED <<imageVars, pickVars, classVars, valueVars, rows>> /\ Click /\ selectedImage \in Images
    BY <1>8, <1>t DEF StartImageMethodIndex, SelectionOk, ImagesOrNone
  <2>2. methodJob' \in MethodJobs \cup {NoJob}
    <3>1. methods.id + 1 \in Nat /\ classes \in Lists
      BY DEF IndexInv, Shapes, MethodModels
    <3> QED BY <1>8, <2>1, <3>1 DEF StartImageMethodIndex, MethodJobs, Stages
  <2>3. SearchOk'
    BY <2>1, SearchRests DEF pickVars
  <2>4. PickerOk'
    BY <1>t, <2>1, ClickOk DEF PickerOk, imageVars
  <2> QED BY <1>t, <2>1, <2>2, <2>3, <2>4 DEF TypeInv, SelectionOk, LoadsOk, pickVars, classVars
<1>9. CASE StopMethodIndex
  <2>1. UNCHANGED <<imageVars, pickVars, classVars, valueVars, rows>> /\ Click /\ methodJob' = NoJob
    BY <1>9 DEF StopMethodIndex
  <2>2. SearchOk'
    BY <2>1, SearchRests DEF pickVars
  <2>3. PickerOk'
    BY <1>t, <2>1, ClickOk DEF PickerOk, imageVars
  <2> QED BY <1>t, <2>1, <2>2, <2>3 DEF TypeInv, SelectionOk, LoadsOk, pickVars, classVars
<1>10. ASSUME NEW row \in rows, RestoreRow(row) PROVE TypeInv'
  <2>1. row[1] \in Images /\ row[2] \in ImagesOrNone
    BY <1>t, <1>10 DEF SelectionOk
  <2>2. PickerOk' /\ rows' = rows
    BY <1>t, <1>10, ClickOk DEF RestoreRow, PickerOk, imageVars
  <2>3. CASE row[2] = None
    BY <1>t, <1>10, <2>1, <2>2, <2>3, SwitchKeepsTypes DEF RestoreRow, TypeInv, SelectionOk
  <2>4. CASE row[2] # None
    <3>1. /\ selectedImage' = row[1] /\ selectedClass' = row[2]
          /\ UNCHANGED <<classVars, valueVars, methodVars>>
      BY <1>10, <2>4 DEF RestoreRow
    <3>2. SearchOk'
      BY <2>1, <3>1, SearchRests, ImageScopeAssumption
    <3> QED BY <1>t, <2>1, <2>2, <3>1, <3>2 DEF TypeInv, SelectionOk, LoadsOk, ImagesOrNone, classVars, methodVars
  <2> QED BY <2>3, <2>4
<1>11. CASE UNCHANGED vars
  <2>1. SearchOk'
    BY <1>11, SearchRests DEF vars, pickVars
  <2> QED BY <1>t, <1>11, <2>1
          DEF vars, TypeInv, PickerOk, SelectionOk, LoadsOk, imageVars, pickVars, classVars, methodVars
<1> QED BY <1>1, <1>2, <1>3, <1>4, <1>5, <1>6, <1>7, <1>8, <1>9, <1>10, <1>11 DEF Next, Workers

(* Every variable of the sidebar keeps its shape, and no result of a value *)
(* search or drill holds more hits than kValueSearchHitCap, for any cap    *)
(* and any number of images and operations.                                *)
THEOREM TypeCorrect == Spec => []TypeOK
<1>1. TypeInv /\ IndexInv => TypeOK
  BY DEF TypeInv, PickerOk, SelectionOk, LoadsOk, SearchOk, ValuesOk, JobOk, IndexInv, Shapes, TypeOK
<1>2. Init => TypeInv /\ IndexInv
  BY TypeInit, IndexInit
<1>3. TypeInv /\ IndexInv /\ [Next]_vars => TypeInv' /\ IndexInv'
  BY TypeStep, IndexStep
<1> QED BY <1>1, <1>2, <1>3, PTL DEF Spec

---------------------------------------------------------------------------
(* The panes keep the promise of SearchContract.  A pane is busy exactly   *)
(* while its worker exists, which works for the latest run, and a value    *)
(* worker that may still publish has gone to the end or to the cap.  A     *)
(* drill shows its baseline until it is over, so that taking the baseline  *)
(* back on a cancel changes nothing on display.                            *)
ValuesPane ==
  /\ values.inProgress <=> Busy(valueJob)
  /\ Busy(valueJob) =>
       /\ valueJob.run = values.id
       /\ valueJob.stage = "passed" => valueJob.left = 0 \/ valueJob.truncated
  /\ values.hits.whole /\ values.baseline.whole
  /\ values.inProgress => values.status = "running"
  /\ values.inProgress /\ values.drill => values.hits = values.baseline

MethodsPane ==
  /\ methods.inProgress <=> Busy(methodJob)
  /\ Busy(methodJob) => methodJob.run = methods.id /\ methods.id # 0 /\ methods.status = "running"
  /\ methods.index.has => methods.index.of \in 1..methods.id
  /\ methods.index.has /\ methods.status = "none" => methods.hits # 0

(* The fields of the value pane.                                           *)
LEMMA PaneFields ==
  ASSUME ValuesOk(values)
  PROVE  /\ values.id \in Nat /\ values.inProgress \in BOOLEAN /\ values.drill \in BOOLEAN
         /\ values.hits \in Hits /\ values.baseline \in Hits
         /\ values.hits.of \in Nat /\ values.hits.n \in Nat /\ values.baseline.n \in Nat
<1>1. HitCap \in Nat
  BY ImageScopeAssumption
<1> QED BY <1>1 DEF ValuesOk, ValueModels, Hits

(* ValuePublish of the run in progress answers.                            *)
LEMMA Published ==
  ASSUME ValuesOk(values), ValuesPane, JobOk(valueJob), Busy(valueJob), valueJob.stage = "passed",
         values' = ValuePublish(values, valueJob), valueJob' = NoJob
  PROVE  ValuesPane' /\ ValuePane!Answer
<1> DEFINE hits == [of |-> valueJob.run, n |-> valueJob.n, from |-> valueJob.from,
                    whole |-> valueJob.left = 0 \/ valueJob.truncated]
<1>1. values.inProgress /\ valueJob.run = values.id /\ hits.whole /\ hits.of = values.id
  BY DEF ValuesPane
<1>2. values' = [values EXCEPT !.inProgress = FALSE, !.status = "results",
                               !.truncated = valueJob.truncated, !.hits = hits]
  BY <1>1 DEF ValuePublish
<1> HIDE DEF hits
<1>3. /\ values'.id = values.id /\ ~values'.inProgress /\ values'.status = "results"
      /\ values'.hits = hits /\ values'.baseline = values.baseline
  BY <1>2 DEF ValuesOk, ValueModels
<1>4. ValuesPane'
  BY <1>1, <1>3 DEF ValuesPane, Busy
<1>5. ValuePhase = "running" /\ ValuePhase' = "answered"
  BY <1>1, <1>3 DEF ValuePhase, ValuesPane
<1> QED BY <1>1, <1>3, <1>4, <1>5 DEF ValuePane!Answer

(* ValueMarkCancelled of the run in progress withdraws it.                 *)
LEMMA Withdrawn ==
  ASSUME ValuesOk(values), ValuesPane, Busy(valueJob),
         values' = ValueMarkCancelled(values, values.id), valueJob' = NoJob
  PROVE  ValuesPane' /\ ValuePane!Withdraw
<1>1. values.inProgress
  BY DEF ValuesPane
<1>2. values' = [values EXCEPT !.inProgress = FALSE, !.status = "cancelled", !.hits = values.hits]
  <2> DEFINE hits == IF values.drill /\ values.hits.n = 0 /\ values.baseline.n > 0 THEN values.baseline
                                                                                  ELSE values.hits
  <2>1. values' = [values EXCEPT !.inProgress = FALSE, !.status = "cancelled", !.hits = hits]
    BY <1>1 DEF ValueMarkCancelled, ValuesOk, ValueModels
  <2>2. hits = values.hits
    BY <1>1, PaneFields DEF ValuesPane
  <2> QED BY <2>1, <2>2
<1>3. /\ values'.id = values.id /\ ~values'.inProgress /\ values'.status = "cancelled"
      /\ values'.hits = values.hits /\ values'.baseline = values.baseline
  BY <1>2 DEF ValuesOk, ValueModels
<1>4. ValuesPane'
  BY <1>3 DEF ValuesPane, Busy
<1>5. ValuePhase = "running" /\ ValuePhase' = "idle"
  BY <1>1, <1>3 DEF ValuePhase, ValuesPane
<1> QED BY <1>3, <1>4, <1>5 DEF ValuePane!Withdraw

(* CancelValueSearch answers, when the worker had passed its last test,    *)
(* withdraws the request, or finds nothing to cancel.                      *)
LEMMA ValuesAreCancelled ==
  ASSUME SearchOk, ValuesPane, CancelValueSearch
  PROVE  /\ ValuesPane'
         /\ ValuePane!Answer \/ ValuePane!Withdraw \/ UNCHANGED values
<1>1. values' = ValueMarkCancelled(ValuesAfterJoin, values.id) /\ valueJob' = NoJob
  BY DEF CancelValueSearch, ValuesCancelled
<1>2. ValuesOk(values) /\ JobOk(valueJob)
  BY DEF SearchOk
<1>3. CASE ~Busy(valueJob)
  <2>1. ValuesAfterJoin = values /\ ~values.inProgress
    BY <1>3 DEF ValuesAfterJoin, Busy, ValuesPane, NoJob
  <2>2. values' = values
    BY <1>1, <2>1 DEF ValueMarkCancelled
  <2> QED BY <1>1, <1>3, <2>2 DEF ValuesPane, Busy
<1>4. CASE Busy(valueJob) /\ valueJob.stage = "passed"
  <2>1. ValuesAfterJoin = ValuePublish(values, valueJob)
    BY <1>4 DEF ValuesAfterJoin, Busy
  <2>2. ValuesAfterJoin.inProgress = FALSE
    BY <1>2, <1>4, <2>1 DEF ValuePublish, ValuesPane, ValuesOk, ValueModels
  <2>3. values' = ValuePublish(values, valueJob)
    BY <1>1, <2>1, <2>2 DEF ValueMarkCancelled
  <2> QED BY <1>1, <1>2, <1>4, <2>3, Published
<1>5. CASE Busy(valueJob) /\ valueJob.stage # "passed"
  <2>1. ValuesAfterJoin = ValueMarkCancelled(values, values.id)
    BY <1>5 DEF ValuesAfterJoin, Busy, ValuesPane
  <2>2. ValuesAfterJoin.inProgress = FALSE
    BY <1>2, <2>1, <1>5 DEF ValueMarkCancelled, ValuesPane, ValuesOk, ValueModels
  <2>3. values' = ValueMarkCancelled(values, values.id)
    BY <1>1, <2>1, <2>2 DEF ValueMarkCancelled
  <2> QED BY <1>1, <1>2, <1>5, <2>3, Withdrawn
<1> QED BY <1>3, <1>4, <1>5

(* The button of a search, or of a drill into the hits on display.         *)
LEMMA ValuesAreAsked ==
  ASSUME SearchOk, ValuesPane, StartValueSearch \/ StartValueDrill
  PROVE  ValuesPane' /\ ValuePane!Ask
<1>1. ValuesOk(values) /\ values.id + 1 \in Nat /\ ~values.inProgress
  <2>1. ValuesOk(values) /\ values.id \in Nat
    BY PaneFields DEF SearchOk
  <2>2. Idle(values, valueJob)
    BY DEF StartValueSearch, StartValueDrill
  <2> QED BY <2>1, <2>2 DEF Idle
<1>2. PICK drill \in BOOLEAN :
        /\ values' = ValueBeginRun(drill)
        /\ Busy(valueJob') /\ valueJob'.run = values.id + 1 /\ valueJob'.stage = "start"
  <2>1. CASE StartValueSearch
    BY <2>1 DEF StartValueSearch, Busy, NoJob
  <2>2. CASE StartValueDrill
    BY <2>2 DEF StartValueDrill, Busy, NoJob
  <2> QED BY <2>1, <2>2
<1>3. PICK base \in {NoHits, values.hits} : base = IF drill THEN values.hits ELSE NoHits
  OBVIOUS
<1>4. values' = [values EXCEPT !.id = values.id + 1, !.inProgress = TRUE, !.drill = drill,
                               !.status = "running", !.truncated = FALSE,
                               !.baseline = base, !.hits = base]
  BY <1>1, <1>2, <1>3 DEF ValueBeginRun, ValuesOk, ValueModels
<1>5. /\ values'.id = values.id + 1 /\ values'.inProgress /\ values'.status = "running"
      /\ values'.hits = base /\ values'.baseline = base
  BY <1>1, <1>4 DEF ValuesOk, ValueModels
<1>6. base.whole /\ base.of \in {0, values.hits.of}
  BY <1>3 DEF ValuesPane, NoHits
<1>7. ValuesPane'
  BY <1>2, <1>5, <1>6 DEF ValuesPane
<1>8. ValuePhase # "running" /\ ValuePhase' = "running"
  BY <1>1, <1>5 DEF ValuePhase
<1> QED BY <1>5, <1>6, <1>7, <1>8 DEF ValuesPane, ValuePane!Ask

(* A worker that scans, or passes its last test, shows nothing yet.        *)
LEMMA ValuesAreScanned ==
  ASSUME SearchOk, ValuesPane, ValueBegin \/ ScanClass \/ DrillHit \/ ScanFails \/ ValuePass
  PROVE  ValuesPane' /\ UNCHANGED values
<1>1. Busy(valueJob) /\ valueJob \in ValueJobs /\ UNCHANGED values
  BY DEF SearchOk, JobOk, Busy, ValueBegin, ScanClass, DrillHit, ScanFails, ValuePass, Scanning
<1>2. valueJob' # NoJob /\ valueJob'.run = valueJob.run
      /\ (valueJob'.stage = "passed" => valueJob'.left = 0 \/ valueJob'.truncated)
  <2>1. NoJob \notin ValueJobs
    BY DEF NoJob, ValueJobs, Stages
  <2>2. CASE ValueBegin
    BY <1>1, <2>2 DEF ValueBegin, ValueJobs, NoJob
  <2>3. CASE ScanClass \/ DrillHit
    <3>1. PICK k : Scan(k)
      BY <2>3 DEF ScanClass, DrillHit
    <3>2. valueJob.stage = "scan"
      BY <2>3 DEF ScanClass, DrillHit, Scanning
    <3> QED BY <1>1, <3>1, <3>2 DEF Scan, ValueJobs, NoJob
  <2>4. CASE ScanFails
    BY <1>1, <2>4 DEF ScanFails, ValueJobs, NoJob
  <2>5. CASE ValuePass
    BY <1>1, <2>5 DEF ValuePass, ValueJobs, NoJob
  <2> QED BY <2>2, <2>3, <2>4, <2>5
<1> QED BY <1>1, <1>2 DEF ValuesPane, Busy

(* What every operation does to the value pane.                            *)
LEMMA SwitchCancels ==
  ASSUME NEW i, SwitchImage(i)
  PROVE  CancelValueSearch /\ methods' = MethodInvalidate(MethodsCancelled) /\ methodJob' = NoJob
  BY DEF SwitchImage

LEMMA ValuesStep ==
  ASSUME TypeInv, ValuesPane, [Next]_vars
  PROVE  ValuesPane' /\ [ValuePane!Next]_(ValuePane!vars)
<1>0. SearchOk
  BY DEF TypeInv
<1>1. CASE UNCHANGED valueVars
  BY <1>1 DEF valueVars, ValuesPane, Busy, ValuePane!vars, ValuePhase
<1>2. CASE CancelValueSearch
  <2>1. ValuesPane' /\ (ValuePane!Answer \/ ValuePane!Withdraw \/ UNCHANGED values)
    BY <1>0, <1>2, ValuesAreCancelled
  <2> QED BY <2>1 DEF ValuePane!Next, ValuePane!vars, ValuePhase
<1>3. CASE StartValueSearch \/ StartValueDrill
  BY <1>0, <1>3, ValuesAreAsked DEF ValuePane!Next
<1>4. CASE ValueBegin \/ ScanClass \/ DrillHit \/ ScanFails \/ ValuePass
  <2>1. ValuesPane' /\ UNCHANGED values
    BY <1>0, <1>4, ValuesAreScanned
  <2> QED BY <2>1 DEF ValuePane!vars, ValuePhase
<1>5. CASE ValueFinish
  <2>1. ValuesPane' /\ ValuePane!Answer
    BY <1>0, <1>5, Published DEF ValueFinish, SearchOk
  <2> QED BY <2>1 DEF ValuePane!Next
<1>6. \/ UNCHANGED valueVars \/ CancelValueSearch \/ StartValueSearch \/ StartValueDrill
      \/ ValueBegin \/ ScanClass \/ DrillHit \/ ScanFails \/ ValuePass \/ ValueFinish
  <2>1. CASE Workers
    BY <2>1 DEF Workers, ImagePass, ImagePublish, ClassPass, ClassPublish, MethodPass, MethodFinish
  <2>2. CASE TickLoadsImages \/ TickPicksDefault \/ \E i \in Images : SelectImage(i)
    BY <2>2, SwitchCancels DEF TickLoadsImages, TickPicksDefault, SelectImage
  <2>3. CASE RefreshImages \/ SelectClass \/ NavigateToValueSearchHit \/ StopValueSearch
    BY <2>3 DEF RefreshImages, SelectClass, NavigateToValueSearchHit, StopValueSearch
  <2>4. CASE StartImageMethodIndex \/ StopMethodIndex
    BY <2>4 DEF StartImageMethodIndex, StopMethodIndex
  <2>5. CASE \E row \in rows : RestoreRow(row)
    BY <2>5, SwitchCancels DEF RestoreRow
  <2>6. CASE UNCHANGED vars
    BY <2>6 DEF vars
  <2> QED BY <2>1, <2>2, <2>3, <2>4, <2>5, <2>6 DEF Next
<1> QED BY <1>1, <1>2, <1>3, <1>4, <1>5, <1>6

---------------------------------------------------------------------------
(* The methods pane.                                                       *)
MethodsOk == methods \in MethodModels /\ methodJob \in Indexers \cup {NoJob} /\ classes \in Lists
             /\ selectedImage \in ImagesOrNone

LEMMA MethodFields ==
  ASSUME MethodsOk
  PROVE  /\ methods.id \in Nat /\ methods.inProgress \in BOOLEAN /\ methods.hits \in Nat
         /\ methods.index.has \in BOOLEAN /\ methods.index.of \in Nat
  BY DEF MethodsOk, MethodModels, Indexes

(* MethodPublish of the run in progress answers, and leaves an index.      *)
LEMMA IndexPublished ==
  ASSUME MethodsOk, MethodsPane, Busy(methodJob)
  PROVE  LET m == MethodPublish(methods, methodJob)
         IN  /\ m.id = methods.id /\ ~m.inProgress /\ m.status = "none" /\ m.hits = methods.id
             /\ m.index.of = methods.id
<1> DEFINE m == MethodPublish(methods, methodJob)
           ix == [has |-> TRUE, at |-> methodJob.list.at, size |-> methodJob.list.size,
                  image |-> methodJob.image, owner |-> methodJob.list.owner, of |-> methodJob.run]
<1>1. m = [methods EXCEPT !.inProgress = FALSE, !.hits = methodJob.run, !.status = "none", !.index = ix]
  BY DEF MethodsPane, MethodPublish
<1>2. ix.of = methods.id /\ methodJob.run = methods.id
  BY DEF MethodsPane
<1> HIDE DEF ix, m
<1>3. /\ m.id = methods.id /\ ~m.inProgress /\ m.status = "none" /\ m.hits = methods.id
      /\ m.index.of = methods.id
  BY <1>1, <1>2 DEF MethodsOk, MethodModels
<1> QED BY <1>3 DEF m

(* MethodMarkCancelled of the run in progress.                             *)
LEMMA IndexWithdrawn ==
  ASSUME MethodsOk, MethodsPane, Busy(methodJob)
  PROVE  LET m == MethodMarkCancelled(methods, methods.id)
         IN  /\ m.id = methods.id /\ ~m.inProgress /\ m.status = "cancelled" /\ m.hits = methods.hits
             /\ m.index = methods.index
  BY DEF MethodsOk, MethodsPane, MethodMarkCancelled, MethodModels

(* CancelImageMethodIndex ends with what was there, with the answer of the *)
(* run in progress, or with this run withdrawn.                            *)
LEMMA MethodsAreCancelled ==
  ASSUME MethodsOk, MethodsPane
  PROVE  \/ ~Busy(methodJob) /\ MethodsCancelled = methods
         \/ Busy(methodJob) /\ MethodsCancelled \in {MethodPublish(methods, methodJob),
                                                     MethodMarkCancelled(methods, methods.id)}
<1>1. MethodsCancelled = MethodMarkCancelled(MethodsAfterJoin, methods.id)
  BY DEF MethodsCancelled
<1>2. CASE ~Busy(methodJob)
  <2>1. MethodsAfterJoin = methods /\ ~methods.inProgress
    BY <1>2 DEF MethodsAfterJoin, Busy, MethodsPane, NoJob
  <2> QED BY <1>1, <1>2, <2>1 DEF MethodMarkCancelled
<1>3. CASE Busy(methodJob) /\ methodJob.stage = "passed"
  <2>1. MethodsAfterJoin = MethodPublish(methods, methodJob)
    BY <1>3 DEF MethodsAfterJoin, Busy
  <2>2. ~MethodsAfterJoin.inProgress
    BY <1>3, <2>1, IndexPublished
  <2> QED BY <1>1, <1>3, <2>1, <2>2 DEF MethodMarkCancelled
<1>4. CASE Busy(methodJob) /\ methodJob.stage # "passed"
  <2>1. MethodsAfterJoin = MethodMarkCancelled(methods, methods.id)
    BY <1>4 DEF MethodsAfterJoin, Busy, MethodsPane
  <2>2. ~MethodsAfterJoin.inProgress
    BY <1>4, <2>1, IndexWithdrawn
  <2> QED BY <1>1, <1>4, <2>1, <2>2 DEF MethodMarkCancelled
<1> QED BY <1>2, <1>3, <1>4

LEMMA MethodsAnswer ==
  ASSUME MethodsOk, MethodsPane, Busy(methodJob), methodJob' = NoJob,
         methods' = MethodPublish(methods, methodJob)
  PROVE  MethodsPane' /\ MethodPane!Answer
<1>1. /\ methods'.id = methods.id /\ ~methods'.inProgress /\ methods'.status = "none"
      /\ methods'.hits = methods.id /\ methods'.index.of = methods.id
  BY IndexPublished
<1>2. methods.id \in Nat /\ methods.id # 0 /\ methods.inProgress
  BY MethodFields DEF MethodsPane
<1>3. methods.id \in 1..methods.id
  BY <1>2
<1>4. MethodsPane'
  BY <1>1, <1>2, <1>3 DEF MethodsPane, Busy
<1>5. MethodPhase = "running" /\ MethodPhase' = "answered"
  BY <1>1, <1>2 DEF MethodPhase
<1> QED BY <1>1, <1>4, <1>5 DEF MethodPane!Answer

LEMMA MethodsWithdraw ==
  ASSUME MethodsOk, MethodsPane, Busy(methodJob), methodJob' = NoJob,
         methods' = MethodMarkCancelled(methods, methods.id)
  PROVE  MethodsPane' /\ MethodPane!Withdraw
<1>1. /\ methods'.id = methods.id /\ ~methods'.inProgress /\ methods'.status = "cancelled"
      /\ methods'.hits = methods.hits /\ methods'.index = methods.index
  BY IndexWithdrawn
<1>2. methods.inProgress
  BY DEF MethodsPane
<1>3. MethodsPane'
  BY <1>1 DEF MethodsPane, Busy
<1>4. MethodPhase = "running" /\ MethodPhase' = "idle"
  BY <1>1, <1>2 DEF MethodPhase
<1> QED BY <1>1, <1>3, <1>4 DEF MethodPane!Withdraw

(* Another image: the run in progress is withdrawn, or what the last one   *)
(* showed forgotten; a publication inside the join does not survive it.    *)
LEMMA MethodsAreDropped ==
  ASSUME MethodsOk, MethodsPane, methods' = MethodInvalidate(MethodsCancelled), methodJob' = NoJob
  PROVE  MethodsPane' /\ (MethodPane!Withdraw \/ MethodPane!Forget)
<1> DEFINE c == MethodsCancelled
<1>1. c.id = methods.id /\ ~c.inProgress
  BY MethodsAreCancelled, IndexPublished, IndexWithdrawn DEF MethodsPane
<1>2. c \in {methods, MethodPublish(methods, methodJob), MethodMarkCancelled(methods, methods.id)}
  BY MethodsAreCancelled
<1>3. DOMAIN c = DOMAIN methods /\ c = [f \in DOMAIN c |-> c[f]]
  BY <1>2 DEF MethodPublish, MethodMarkCancelled, MethodsOk, MethodModels
<1>4. methods' = [c EXCEPT !.index = NoIndex, !.hits = 0, !.status = "none"]
  BY DEF MethodInvalidate
<1> HIDE DEF c
<1>5. DOMAIN methods = {"id", "inProgress", "hits", "index", "status"}
  BY DEF MethodsOk, MethodModels
<1>6. /\ methods'.id = methods.id /\ ~methods'.inProgress /\ methods'.status = "none"
      /\ methods'.hits = 0 /\ ~methods'.index.has
  BY <1>1, <1>3, <1>4, <1>5 DEF NoIndex
<1>7. MethodsPane'
  BY <1>6 DEF MethodsPane, Busy
<1>8. MethodPhase' = "idle"
  BY <1>6 DEF MethodPhase
<1> QED BY <1>6, <1>7, <1>8 DEF MethodPane!Withdraw, MethodPane!Forget

(* The search button: a valid index is filtered again, or a worker starts. *)
LEMMA MethodsAreAsked ==
  ASSUME MethodsOk, MethodsPane, StartImageMethodIndex
  PROVE  MethodsPane' /\ (MethodPane!Ask \/ MethodPane!Recall)
<1>1. ~methods.inProgress /\ ~Busy(methodJob)
  BY DEF StartImageMethodIndex, Idle
<1>2. methods \in MethodModels /\ methods.id \in Nat /\ methods.index.of \in Nat
  BY MethodFields DEF MethodsOk
<1>3. CASE IndexValid(methods)
  <2>1. methods' = [methods EXCEPT !.hits = methods.index.of] /\ methodJob' = NoJob
    BY <1>3 DEF StartImageMethodIndex
  <2>2. methods.index.has /\ methods.index.of \in 1..methods.id
    BY <1>3 DEF IndexValid, MethodsPane
  <2>3. /\ methods'.id = methods.id /\ ~methods'.inProgress /\ methods'.status = methods.status
        /\ methods'.hits = methods.index.of /\ methods'.index = methods.index
    BY <1>1, <1>2, <2>1 DEF MethodModels
  <2>4. methods.index.of # 0
    BY <1>2, <2>2
  <2>5. MethodsPane'
    BY <2>1, <2>2, <2>3, <2>4 DEF MethodsPane, Busy
  <2>6. methods.status = "none" => methods.hits # 0
    BY <2>2 DEF MethodsPane
  <2>7. MethodPhase' = MethodPhase /\ MethodPhase # "running"
    BY <1>1, <2>3, <2>4, <2>6 DEF MethodPhase
  <2> QED BY <2>2, <2>3, <2>5, <2>7 DEF MethodPane!Recall
<1>4. CASE ~IndexValid(methods)
  <2>1. methods' = [methods EXCEPT !.id = methods.id + 1, !.inProgress = TRUE, !.hits = 0,
                                   !.status = "running"]
    BY <1>2, <1>4 DEF StartImageMethodIndex, MethodBeginRun, MethodModels
  <2>2. Busy(methodJob') /\ methodJob'.run = methods.id + 1
    BY <1>4 DEF StartImageMethodIndex, Busy, NoJob
  <2>3. /\ methods'.id = methods.id + 1 /\ methods'.inProgress /\ methods'.status = "running"
        /\ methods'.hits = 0 /\ methods'.index = methods.index
    BY <1>2, <2>1 DEF MethodModels
  <2>4. methods.index.has => methods.index.of \in 1..(methods.id + 1)
    BY <1>2 DEF MethodsPane
  <2>5. MethodsPane'
    BY <1>2, <2>2, <2>3, <2>4 DEF MethodsPane
  <2>6. MethodPhase # "running" /\ MethodPhase' = "running"
    BY <1>1, <2>3 DEF MethodPhase
  <2> QED BY <2>3, <2>5, <2>6 DEF MethodPane!Ask
<1> QED BY <1>3, <1>4

LEMMA MethodsStep ==
  ASSUME MethodsOk, MethodsPane, [Next]_vars
  PROVE  MethodsPane' /\ [MethodPane!Next]_(MethodPane!vars)
<1>1. CASE UNCHANGED methodVars
  BY <1>1 DEF methodVars, MethodsPane, Busy, MethodPane!vars, MethodPhase
<1>2. CASE methods' = MethodInvalidate(MethodsCancelled) /\ methodJob' = NoJob
  BY <1>2, MethodsAreDropped DEF MethodPane!Next
<1>3. CASE StopMethodIndex
  <2>1. methods' = MethodsCancelled /\ methodJob' = NoJob
    BY <1>3 DEF StopMethodIndex
  <2>2. CASE ~Busy(methodJob) /\ methods' = methods
    BY <2>1, <2>2 DEF MethodsPane, Busy, MethodPane!vars, MethodPhase
  <2>3. CASE Busy(methodJob) /\ methods' = MethodPublish(methods, methodJob)
    BY <2>1, <2>3, MethodsAnswer DEF MethodPane!Next
  <2>4. CASE Busy(methodJob) /\ methods' = MethodMarkCancelled(methods, methods.id)
    BY <2>1, <2>4, MethodsWithdraw DEF MethodPane!Next
  <2> QED BY <2>1, <2>2, <2>3, <2>4, MethodsAreCancelled
<1>4. CASE StartImageMethodIndex
  BY <1>4, MethodsAreAsked DEF MethodPane!Next
<1>5. CASE MethodPass
  <2>1. methodJob \in Indexers /\ methodJob' = [methodJob EXCEPT !.stage = "passed"] /\ methods' = methods
    BY <1>5 DEF MethodPass, MethodsOk, Busy
  <2>2. methodJob' # NoJob /\ methodJob'.run = methodJob.run /\ Busy(methodJob)
    BY <1>5, <2>1 DEF MethodPass, Indexers, NoJob
  <2> QED BY <2>1, <2>2 DEF MethodsPane, Busy, MethodPane!vars, MethodPhase
<1>6. CASE MethodFinish
  BY <1>6, MethodsAnswer DEF MethodFinish, MethodPane!Next
<1>7. \/ UNCHANGED methodVars
      \/ methods' = MethodInvalidate(MethodsCancelled) /\ methodJob' = NoJob
      \/ StopMethodIndex \/ StartImageMethodIndex \/ MethodPass \/ MethodFinish
  <2>1. CASE Workers
    BY <2>1 DEF Workers, ImagePass, ImagePublish, ClassPass, ClassPublish, ValueBegin, ScanClass,
                DrillHit, ScanFails, ValuePass, ValueFinish
  <2>2. CASE TickLoadsImages \/ TickPicksDefault \/ \E i \in Images : SelectImage(i)
    BY <2>2, SwitchCancels DEF TickLoadsImages, TickPicksDefault, SelectImage
  <2>3. CASE RefreshImages \/ SelectClass \/ NavigateToValueSearchHit \/ StartValueSearch
             \/ StartValueDrill \/ StopValueSearch
    BY <2>3 DEF RefreshImages, SelectClass, NavigateToValueSearchHit, StartValueSearch, StartValueDrill,
                StopValueSearch
  <2>4. CASE \E row \in rows : RestoreRow(row)
    BY <2>4, SwitchCancels DEF RestoreRow
  <2>5. CASE UNCHANGED vars
    BY <2>5 DEF vars
  <2> QED BY <2>1, <2>2, <2>3, <2>4, <2>5 DEF Next
<1> QED BY <1>1, <1>2, <1>3, <1>4, <1>5, <1>6, <1>7

LEMMA PanesInit == Init => ValuesPane /\ MethodsPane /\ ValuePane!Init /\ MethodPane!Init
  BY DEF Init, ValuesPane, MethodsPane, EmptyValues, EmptyMethods, NoHits, NoIndex, Busy,
         ValuePane!Init, MethodPane!Init, ValuePhase, MethodPhase

(* Both search panes keep the promise of SearchContract, for any number of *)
(* images, hits and operations: a cancelled run never replaces what is on  *)
(* display, only the latest run answers, once, and what the value pane     *)
(* shows is a whole result.                                                *)
THEOREM PanesKeepTheirPromise == Spec => ImplementsSearch
<1> DEFINE PanesInv == TypeInv /\ IndexInv /\ ValuesPane /\ MethodsPane
<1>1. Init => PanesInv /\ ValuePane!Init /\ MethodPane!Init
  BY TypeInit, IndexInit, PanesInit
<1>2. IndexInv => MethodsOk
  BY DEF IndexInv, Shapes, MethodsOk
<1>3. PanesInv /\ [Next]_vars =>
        PanesInv' /\ [ValuePane!Next]_(ValuePane!vars) /\ [MethodPane!Next]_(MethodPane!vars)
  BY <1>2, TypeStep, IndexStep, ValuesStep, MethodsStep
<1> HIDE DEF PanesInv
<1>4. Spec => ValuePane!Spec
  BY <1>1, <1>3, PTL DEF Spec, ValuePane!Spec
<1>5. Spec => MethodPane!Spec
  BY <1>1, <1>3, PTL DEF Spec, MethodPane!Spec
<1> QED BY <1>4, <1>5 DEF ImplementsSearch

---------------------------------------------------------------------------
(***************************************************************************)
(* The loop of the panel.                                                  *)
(***************************************************************************)
(* The types, in three groups that few actions have in common.             *)
GuiShape ==
  /\ gui \in GuiPcs
  /\ window \in {"none", "open", "gone"} /\ hwnd \in BOOLEAN /\ notify \in BOOLEAN
  /\ quitMessage \in BOOLEAN /\ closes \in Nat

HostShape ==
  /\ hostQuitting \in BOOLEAN /\ latched \in {"none", "open", "gone"}
  /\ quit \in [GameThreads -> QuitPcs] /\ quits \in 0..MaxQuits

JobShape ==
  /\ search \in {"none", "call", "wait"} /\ searchJob \in Nat
  /\ kind \in Seq(Kinds)
  /\ result \in [of : Nat, version : Nat, pending : BOOLEAN]
  /\ toast \in [of : Nat, version : Nat, read : Nat] /\ audited \in Nat

PanelShapes == GuiShape /\ HostShape /\ JobShape

(* The version a toast counts as shown never runs ahead of the results, so *)
(* that a later result always looks new.                                   *)
Versions ==
  /\ toast.version <= result.version /\ toast.read <= result.version
  /\ toast.version = result.version => toast.of = result.of
  /\ result.pending \/ audited = result.of

(* No detector can be under way before the window is registered; from then *)
(* on the loop has a window to be told through, until WM_QUIT is on its    *)
(* way.                                                                    *)
Unnoticed == ~notify /\ ~hostQuitting /\ \A t \in GameThreads : quit[t] = "idle"

WindowStands ==
  /\ closes > 0 => window = "open"
  /\ gui \in {"create", "publish", "register"} => Unnoticed
  /\ gui \in {"publish", "register"} => window = "open"
  /\ gui = "register" => hwnd
  /\ gui \in Looping \ {"pump"} => window = "open" /\ hwnd
  /\ gui = "pump" => (window = "open" /\ hwnd) \/ (window = "gone" /\ quitMessage)

(* The flag of a call is where its thread is, and only a thread that is    *)
(* not inside can have let the session go on to close the dispatcher.      *)
WorkersLeft ==
  /\ gui \in {"closing", "clearing"} => search = "none"
  /\ call[Searcher] = IF search = "call" THEN "noDrop" ELSE "idle"
  /\ call[Gui] = IF gui = "invoke" THEN "dropOldest" ELSE "idle"
  /\ shutdown # "open" => gui \in {"clearing", "destroy", "off"} /\ search = "none"

PanelOwn == PanelShapes /\ Versions /\ WindowStands /\ NoQuitIsLost /\ WorkersLeft
PanelInv == PD!IInv /\ PanelOwn

\* DispatcherAssumption, of the panel's threads and bounds.
LEMMA PanelConstants ==
  /\ GameThreads \cap OurThreads = {}
  /\ NoThread \notin PD!Threads
  /\ MaxQueueDepth \in Nat \ {0}
  /\ MaxJobsPerDrain \in Nat \ {0}
  /\ MaxAccepted \in Nat
BY PanelAssumption DEF OurThreads, PD!Threads

LEMMA BelowInit == D!Init => PD!Init /\ PD!IInv
<1>1. PD!Init => PD!IInv
  BY PanelConstants, PD!InitIInv DEF PD!Threads
<1>2. D!Init => PD!Init
  BY DEF D!Init, PD!Init, D!Threads, PD!Threads, D!NoJob, PD!NoJob
<1> QED
  BY <1>1, <1>2

LEMMA BelowNext == PD!IInv /\ [PD!Next]_(PD!vars) => PD!IInv'
BY PanelConstants, PD!NextIInv DEF PD!Threads

LEMMA BelowTypes == PD!IInv => D!TypeOK
BY DEF PD!IInv, PD!TypeOK, D!TypeOK, PD!Threads, D!Threads, PD!CallStates, D!CallStates

\* An action of the panel is a step of the dispatcher or leaves it alone.
LEMMA BelowFrame == UNCHANGED dispatcherVars => UNCHANGED PD!vars
BY DEF dispatcherVars, PD!vars, PD!queueVars, PD!drainVars, PD!historyVars

LEMMA PanelInitInv == PanelInit => PanelInv
<1> SUFFICES ASSUME PanelInit PROVE PanelInv
  OBVIOUS
<1>1. PD!IInv
  BY BelowInit DEF PanelInit
<1>2. PanelShapes
  <2>1. quit \in [GameThreads -> QuitPcs] /\ quits \in 0..MaxQuits
    BY PanelAssumption DEF PanelInit, QuitPcs
  <2>2. kind \in Seq(Kinds)
    BY DEF PanelInit
  <2>3. /\ hwnd \in BOOLEAN /\ notify \in BOOLEAN /\ hostQuitting \in BOOLEAN /\ quitMessage \in BOOLEAN
        /\ gui \in GuiPcs
    BY DEF PanelInit, GuiPcs
  <2>4. /\ window \in {"none", "open", "gone"} /\ closes \in Nat /\ latched \in {"none", "open", "gone"}
        /\ search \in {"none", "call", "wait"} /\ searchJob \in Nat
        /\ result \in [of : Nat, version : Nat, pending : BOOLEAN]
        /\ toast \in [of : Nat, version : Nat, read : Nat] /\ audited \in Nat
    BY DEF PanelInit, D!NoJob
  <2> QED
    BY <2>1, <2>2, <2>3, <2>4 DEF PanelShapes, GuiShape, HostShape, JobShape
<1>3. Versions /\ WindowStands /\ NoQuitIsLost
  BY DEF PanelInit, Versions, WindowStands, NoQuitIsLost, Unnoticed, Looping
<1>4. WorkersLeft
  BY DEF PanelInit, WorkersLeft, D!Init, OurThreads
<1> QED
  BY <1>1, <1>2, <1>3, <1>4 DEF PanelInv, PanelOwn

LEMMA PanelStepBelow == PanelNext => [PD!Next]_(PD!vars)
<1> SUFFICES ASSUME PanelNext PROVE PD!Next \/ UNCHANGED PD!vars
  OBVIOUS
<1> USE DEF PD!queueVars, PD!drainVars, PD!historyVars, D!queueVars, D!drainVars, D!historyVars,
            D!NoJob, PD!NoJob
<1>1. CASE RunMethod
  BY <1>1 DEF RunMethod, D!EnqueueCall, PD!EnqueueCall, PD!Next, OurThreads
<1>2. CASE FindInstances
  BY <1>2 DEF FindInstances, D!EnqueueCall, PD!EnqueueCall, PD!Next, OurThreads
<1>3. CASE EnqueueInvoke
  BY <1>3 DEF EnqueueInvoke, D!EnqueueLocked, PD!EnqueueLocked, D!Accepting, PD!Accepting,
              D!Full, PD!Full, D!DropOldest, PD!DropOldest, D!Push, PD!Push, PD!Next, OurThreads
<1>4. CASE SearchEnqueues
  BY <1>4 DEF SearchEnqueues, D!TryEnqueueNoDropLocked, PD!TryEnqueueNoDropLocked,
              D!TryEnqueueAccepts, PD!TryEnqueueAccepts, D!Accepting, PD!Accepting,
              D!Full, PD!Full, D!Push, PD!Push, PD!Next, OurThreads
<1>5. ASSUME NEW t \in GameThreads, JobEnds(t) PROVE PD!Next
  BY <1>5 DEF JobEnds, D!JobReturn, PD!JobReturn, PD!Threads, PD!Drain, PD!Next
<1>6. ASSUME NEW t \in GameThreads, D!DetourEnter(t) PROVE PD!Next
  BY <1>6 DEF D!DetourEnter, PD!DetourEnter, D!MayDrain, PD!MayDrain, PD!Threads, PD!Next
<1>7. ASSUME NEW t \in GameThreads, D!DrainPop(t) \/ D!DrainExit(t) PROVE PD!Next
  BY <1>7 DEF D!DrainPop, PD!DrainPop, D!DrainExit, PD!DrainExit, D!BudgetLeft, PD!BudgetLeft,
              PD!Threads, PD!Drain, PD!Next
<1>8. CASE CloseDispatcher \/ ClearDispatcher
  BY <1>8 DEF CloseDispatcher, ClearDispatcher, D!BeginShutdownFlag, PD!BeginShutdownFlag,
              D!BeginShutdownClear, PD!BeginShutdownClear, PD!Next
<1>9. CASE UNCHANGED dispatcherVars
  BY <1>9, BelowFrame
<1> QED
  BY <1>1, <1>2, <1>3, <1>4, <1>5, <1>6, <1>7, <1>8, <1>9
     DEF PanelNext, Window, Loop, Shutdown, Detour, CreateWindow, PublishWindow, SetQuitNotify,
         InitializeRenderer, PumpClose, Unregister, Unpublish, Destroyed, DestroyWindow,
         PollHostQuit, RequestHostQuit, PollPostsClose, PumpQuit, PumpEmpty, Audit, ReadVersion,
         CopyResult, NoInput, CancelInspectorCacheWriters, JoinWorkers, ClickReplacesView,
         SearchEnds, HostWindowCloses, UserCloses, ApplicationQuitDetour, OnApplicationQuitNotify

\* The thread, its window and the messages of the window.
LEMMA GuiShapeStep ==
  ASSUME PanelInv, PanelNext
  PROVE  GuiShape'
<1> USE DEF PanelInv, PanelOwn, PanelShapes, GuiShape, GuiPcs
<1>1. CASE CreateWindow
  BY <1>1 DEF CreateWindow, GuiGoes, hostVars, searchVars, frameVars
<1>2. CASE PublishWindow \/ SetQuitNotify \/ InitializeRenderer
  BY <1>2 DEF PublishWindow, SetQuitNotify, InitializeRenderer, GuiGoes, hostVars, searchVars,
    frameVars, windowVars
<1>3. CASE PumpClose \/ Unregister \/ Unpublish
  BY <1>3 DEF PumpClose, Unregister, Unpublish, GuiGoes, windowVars, hostVars, searchVars,
    frameVars
<1>4. CASE Destroyed
  BY <1>4 DEF Destroyed, GuiGoes, LeaveLoop, hostVars, searchVars, frameVars
<1>5. CASE DestroyWindow
  BY <1>5 DEF DestroyWindow, GuiGoes, hostVars, searchVars, frameVars
<1>6. CASE PollHostQuit
  BY <1>6 DEF PollHostQuit, FindHostGameWindow, HostIsGone, windowVars, searchVars, frameVars
<1>7. CASE RequestHostQuit
  BY <1>7 DEF RequestHostQuit, GuiGoes, windowVars, hostVars, searchVars, frameVars
<1>8. CASE PollPostsClose
  BY <1>8 DEF PollPostsClose, GuiGoes, PostClose, hostVars, searchVars, frameVars
<1>9. CASE PumpQuit \/ PumpEmpty
  BY <1>9 DEF PumpQuit, PumpEmpty, GuiGoes, hostVars, searchVars, frameVars, windowVars
<1>10. CASE Audit \/ ReadVersion \/ CopyResult \/ NoInput
  BY <1>10 DEF Audit, ReadVersion, CopyResult, NoInput, GuiGoes, AuditTaken, windowVars,
    hostVars, searchVars, CopyLatest, frameVars
<1>11. CASE EnqueueInvoke \/ RunMethod \/ FindInstances
  BY <1>11 DEF EnqueueInvoke, RunMethod, FindInstances, GuiGoes, Pushed, windowVars, hostVars,
    searchVars, frameVars, Invokes
<1>12. CASE ClickReplacesView \/ CancelInspectorCacheWriters
  BY <1>12 DEF ClickReplacesView, CancelInspectorCacheWriters, GuiGoes, windowVars, hostVars,
    searchVars, frameVars
<1>13. CASE JoinWorkers \/ CloseDispatcher \/ ClearDispatcher
  BY <1>13 DEF JoinWorkers, CloseDispatcher, ClearDispatcher, GuiGoes, windowVars, hostVars,
    searchVars, frameVars
<1>14. CASE UserCloses
  BY <1>14 DEF UserCloses, PostClose, hostVars, searchVars, frameVars
<1>15. ASSUME NEW t \in GameThreads, OnApplicationQuitNotify(t) PROVE GuiShape'
  BY <1>15 DEF OnApplicationQuitNotify, NotifyTests, QuitGoes, NotifyReadsPanel, PostClose,
    searchVars, frameVars
<1>16. CASE UNCHANGED <<gui, windowVars>>
  BY <1>16 DEF windowVars
<1> QED
  BY <1>1, <1>2, <1>3, <1>4, <1>5, <1>6, <1>7, <1>8, <1>9, <1>10, <1>11, <1>12, <1>13, <1>14,
    <1>15, <1>16 DEF PanelNext, Window, Loop, Shutdown, SearchEnqueues, SearchEnds,
    HostWindowCloses, Detour, ApplicationQuitDetour, Pushed, windowVars, hostVars, frameVars,
    FutureReady, DeadlinePasses, searchVars, JobEnds, panelVars, QuitGoes, PublishResult

\* The flags of the two detectors.
LEMMA HostShapeStep ==
  ASSUME PanelInv, PanelNext
  PROVE  HostShape'
<1> USE DEF PanelInv, PanelOwn, PanelShapes, HostShape, QuitPcs
<1>1. CASE PollHostQuit
  BY <1>1, PanelAssumption DEF PollHostQuit, FindHostGameWindow, HostIsGone, windowVars,
    searchVars, frameVars
<1>2. CASE RequestHostQuit
  BY <1>2, PanelAssumption DEF RequestHostQuit, GuiGoes, windowVars, hostVars, searchVars,
    frameVars
<1>3. CASE HostWindowCloses
  BY <1>3, PanelAssumption DEF HostWindowCloses, windowVars, searchVars, frameVars
<1>4. ASSUME NEW t \in GameThreads, ApplicationQuitDetour(t) PROVE HostShape'
  BY <1>4, PanelAssumption DEF ApplicationQuitDetour, QuitGoes, windowVars, searchVars,
    frameVars
<1>5. ASSUME NEW t \in GameThreads, OnApplicationQuitNotify(t) PROVE HostShape'
  BY <1>5, PanelAssumption DEF OnApplicationQuitNotify, NotifyTests, QuitGoes, NotifyReadsPanel,
    PostClose, searchVars, frameVars
<1>6. CASE UNCHANGED <<hostQuitting, hostVars>>
  BY <1>6 DEF hostVars
<1> QED
  BY <1>1, <1>2, <1>3, <1>4, <1>5, <1>6 DEF PanelNext, Window, Loop, Shutdown, CreateWindow,
    PublishWindow, SetQuitNotify, InitializeRenderer, PumpClose, Unregister, Unpublish,
    Destroyed, DestroyWindow, PollPostsClose, PumpQuit, PumpEmpty, Audit, ReadVersion,
    CopyResult, NoInput, EnqueueInvoke, CancelInspectorCacheWriters, JoinWorkers,
    CloseDispatcher, ClearDispatcher, RunMethod, FindInstances, ClickReplacesView,
    SearchEnqueues, SearchEnds, UserCloses, Detour, GuiGoes, hostVars, searchVars, frameVars,
    windowVars, LeaveLoop, PostClose, AuditTaken, CopyLatest, Pushed, Invokes, FutureReady,
    DeadlinePasses, JobEnds, panelVars, PublishResult

\* Jobs, their kinds and their results.
LEMMA ResultShape ==
  ASSUME result \in [of : Nat, version : Nat, pending : BOOLEAN], NEW n \in Nat, PublishResult(n)
  PROVE  result' \in [of : Nat, version : Nat, pending : BOOLEAN]
BY DEF PublishResult

LEMMA SearchShape ==
  ASSUME PD!IInv, SearchEnqueues, kind \in Seq(Kinds)
  PROVE  searchJob' \in Nat /\ kind' \in Seq(Kinds) /\ search' \in {"none", "wait"}
<1>1. accepted \in Nat
  BY BelowTypes DEF D!TypeOK
<1>2. accepted' \in Nat
  BY <1>1 DEF SearchEnqueues, D!TryEnqueueNoDropLocked, D!Push
<1>3. searchJob' \in Nat /\ search' \in {"none", "wait"}
  BY <1>2 DEF SearchEnqueues, D!NoJob
<1>4. kind' \in Seq(Kinds)
  BY DEF SearchEnqueues, Pushed, Kinds
<1> QED
  BY <1>3, <1>4

LEMMA JobShapeStep ==
  ASSUME PanelInv, PanelNext
  PROVE  JobShape'
<1> USE DEF PanelInv, PanelOwn, PanelShapes, JobShape, Kinds
<1>1. CASE Audit
  BY <1>1, BelowTypes DEF Audit, GuiGoes, AuditTaken, windowVars, hostVars, searchVars,
    D!TypeOK, D!Threads
<1>2. CASE ReadVersion
  BY <1>2, BelowTypes DEF ReadVersion, GuiGoes, windowVars, hostVars, searchVars, D!TypeOK,
    D!Threads
<1>3. CASE CopyResult
  BY <1>3, BelowTypes DEF CopyResult, GuiGoes, CopyLatest, windowVars, hostVars, searchVars,
    D!TypeOK, D!Threads
<1>4. CASE EnqueueInvoke
  BY <1>4, BelowTypes DEF EnqueueInvoke, GuiGoes, D!EnqueueLocked, Pushed, windowVars, hostVars,
    searchVars, frameVars, D!Accepting, D!queueVars, D!Full, D!DropOldest, D!Push, D!drainVars,
    D!historyVars, D!TypeOK, D!Threads
<1>5. CASE FindInstances
  BY <1>5, BelowTypes DEF FindInstances, GuiGoes, D!EnqueueCall, windowVars, hostVars,
    frameVars, D!queueVars, D!drainVars, D!historyVars, D!TypeOK, D!Threads
<1>6. CASE SearchEnqueues
  BY <1>6, SearchShape DEF SearchEnqueues, frameVars
<1>7. CASE SearchEnds
  BY <1>7, BelowTypes DEF SearchEnds, FutureReady, DeadlinePasses, D!NoJob, windowVars,
    hostVars, frameVars, D!Threads, D!TypeOK, D!Threads
<1>8. ASSUME NEW t \in GameThreads, Detour(t) PROVE JobShape'
  <2>1. CASE JobEnds(t)
    <3>1. running[t] \in Nat
      BY BelowTypes DEF D!TypeOK, D!Threads
    <3>2. result' = result \/ PublishResult(running[t])
      BY <2>1 DEF JobEnds
    <3>3. UNCHANGED <<searchVars, kind, frameVars>>
      BY <2>1 DEF JobEnds
    <3>4. result' \in [of : Nat, version : Nat, pending : BOOLEAN]
      BY <3>1, <3>2, ResultShape
    <3> QED
      BY <3>3, <3>4 DEF frameVars, searchVars
  <2>2. CASE UNCHANGED panelVars
    BY <2>2 DEF panelVars, searchVars, frameVars
  <2> QED
    BY <1>8, <2>1, <2>2 DEF Detour
<1>9. CASE UNCHANGED <<searchVars, kind, result, frameVars>>
  BY <1>9 DEF searchVars, frameVars
<1> QED
  BY <1>1, <1>2, <1>3, <1>4, <1>5, <1>6, <1>7, <1>8, <1>9 DEF PanelNext, Window, Loop, Shutdown,
    CreateWindow, PublishWindow, SetQuitNotify, InitializeRenderer, PumpClose, Unregister,
    Unpublish, Destroyed, DestroyWindow, PollHostQuit, RequestHostQuit, PollPostsClose,
    PumpQuit, PumpEmpty, NoInput, CancelInspectorCacheWriters, JoinWorkers, CloseDispatcher,
    ClearDispatcher, RunMethod, ClickReplacesView, HostWindowCloses, UserCloses,
    ApplicationQuitDetour, OnApplicationQuitNotify, GuiGoes, hostVars, searchVars, frameVars,
    windowVars, LeaveLoop, FindHostGameWindow, HostIsGone, PostClose, Invokes, QuitGoes,
    NotifyTests, NotifyReadsPanel

\* Only a job that returns and the three steps of a frame change what is shown.
LEMMA VersionsStep ==
  ASSUME PanelInv, PanelNext
  PROVE  Versions'
<1> USE DEF PanelInv, PanelOwn, PanelShapes, JobShape, Versions
<1>1. CASE Audit
  BY <1>1 DEF Audit, GuiGoes, AuditTaken, windowVars, hostVars, searchVars
<1>2. CASE ReadVersion
  BY <1>2 DEF ReadVersion, GuiGoes, windowVars, hostVars, searchVars
<1>3. CASE CopyResult
  BY <1>3 DEF CopyResult, GuiGoes, CopyLatest, windowVars, hostVars, searchVars
<1>4. ASSUME NEW t \in GameThreads, Detour(t) PROVE Versions'
  BY <1>4 DEF Detour, JobEnds, panelVars, PublishResult, windowVars, hostVars, searchVars,
    frameVars, D!NoJob
<1>5. CASE UNCHANGED <<result, frameVars>>
  BY <1>5 DEF frameVars
<1> QED
  BY <1>1, <1>2, <1>3, <1>4, <1>5 DEF PanelNext, Window, Loop, Shutdown, CreateWindow,
    PublishWindow, SetQuitNotify, InitializeRenderer, PumpClose, Unregister, Unpublish,
    Destroyed, DestroyWindow, PollHostQuit, RequestHostQuit, PollPostsClose, PumpQuit,
    PumpEmpty, NoInput, EnqueueInvoke, CancelInspectorCacheWriters, JoinWorkers,
    CloseDispatcher, ClearDispatcher, RunMethod, FindInstances, ClickReplacesView,
    SearchEnqueues, SearchEnds, HostWindowCloses, UserCloses, ApplicationQuitDetour,
    OnApplicationQuitNotify, GuiGoes, hostVars, searchVars, frameVars, windowVars, LeaveLoop,
    FindHostGameWindow, HostIsGone, PostClose, Pushed, Invokes, FutureReady, DeadlinePasses,
    QuitGoes, NotifyTests, NotifyReadsPanel

\* The window is there while the loop goes on, and no quit is lost.
LEMMA WindowStep ==
  ASSUME PanelInv, PanelNext
  PROVE  (WindowStands /\ NoQuitIsLost)'
<1> USE DEF PanelInv, PanelOwn, PanelShapes, GuiShape, HostShape, WindowStands, NoQuitIsLost,
            Unnoticed, Looping, QuitPcs
<1>1. CASE CreateWindow
  BY <1>1 DEF CreateWindow, GuiGoes, hostVars, searchVars, frameVars
<1>2. CASE PublishWindow \/ SetQuitNotify
  BY <1>2 DEF PublishWindow, SetQuitNotify, GuiGoes, hostVars, searchVars, frameVars
<1>3. CASE InitializeRenderer
  BY <1>3 DEF InitializeRenderer, GuiGoes, windowVars, hostVars, searchVars, frameVars
<1>4. CASE PumpClose \/ Unregister \/ Unpublish
  BY <1>4 DEF PumpClose, Unregister, Unpublish, GuiGoes, windowVars, hostVars, searchVars,
    frameVars
<1>5. CASE Destroyed
  BY <1>5 DEF Destroyed, GuiGoes, LeaveLoop, hostVars, searchVars, frameVars
<1>6. CASE DestroyWindow
  BY <1>6 DEF DestroyWindow, GuiGoes, hostVars, searchVars, frameVars
<1>7. CASE PollHostQuit
  BY <1>7 DEF PollHostQuit, FindHostGameWindow, HostIsGone, windowVars, searchVars, frameVars
<1>8. CASE RequestHostQuit
  BY <1>8 DEF RequestHostQuit, GuiGoes, windowVars, hostVars, searchVars, frameVars
<1>9. CASE PollPostsClose
  BY <1>9 DEF PollPostsClose, GuiGoes, PostClose, hostVars, searchVars, frameVars
<1>10. CASE PumpQuit
  BY <1>10 DEF PumpQuit, GuiGoes, hostVars, searchVars, frameVars
<1>11. CASE PumpEmpty
  BY <1>11 DEF PumpEmpty, GuiGoes, windowVars, hostVars, searchVars, frameVars
<1>12. CASE Audit \/ ReadVersion \/ CopyResult \/ NoInput
  BY <1>12 DEF Audit, ReadVersion, CopyResult, NoInput, GuiGoes, AuditTaken, windowVars,
    hostVars, searchVars, CopyLatest, frameVars
<1>13. CASE EnqueueInvoke \/ RunMethod \/ FindInstances
  BY <1>13 DEF EnqueueInvoke, RunMethod, FindInstances, GuiGoes, Pushed, windowVars, hostVars,
    searchVars, frameVars, Invokes
<1>14. CASE ClickReplacesView \/ CancelInspectorCacheWriters
  BY <1>14 DEF ClickReplacesView, CancelInspectorCacheWriters, GuiGoes, windowVars, hostVars,
    searchVars, frameVars
<1>15. CASE JoinWorkers \/ CloseDispatcher \/ ClearDispatcher
  BY <1>15 DEF JoinWorkers, CloseDispatcher, ClearDispatcher, GuiGoes, windowVars, hostVars,
    searchVars, frameVars
<1>16. CASE UserCloses
  BY <1>16 DEF UserCloses, PostClose, hostVars, searchVars, frameVars
<1>17. ASSUME NEW t \in GameThreads, ApplicationQuitDetour(t) PROVE (WindowStands /\
  NoQuitIsLost)'
  BY <1>17 DEF ApplicationQuitDetour, QuitGoes, windowVars, searchVars, frameVars
<1>18. ASSUME NEW t \in GameThreads, OnApplicationQuitNotify(t) PROVE (WindowStands /\
  NoQuitIsLost)'
  BY <1>18 DEF OnApplicationQuitNotify, NotifyTests, QuitGoes, NotifyReadsPanel, PostClose,
    searchVars, frameVars
<1>19. CASE UNCHANGED <<gui, windowVars, hostQuitting, quit>>
  BY <1>19 DEF windowVars
<1> QED
  BY <1>1, <1>2, <1>3, <1>4, <1>5, <1>6, <1>7, <1>8, <1>9, <1>10, <1>11, <1>12, <1>13, <1>14,
    <1>15, <1>16, <1>17, <1>18, <1>19 DEF PanelNext, Window, Loop, Shutdown, SearchEnqueues,
    SearchEnds, HostWindowCloses, Detour, Pushed, windowVars, hostVars, frameVars, FutureReady,
    DeadlinePasses, searchVars, JobEnds, panelVars, PublishResult

\* Who is inside the dispatcher, and who has left it for good.
LEMMA WorkersStep ==
  ASSUME PanelInv, PanelNext
  PROVE  WorkersLeft'
<1> USE DEF PanelInv, PanelOwn, PanelShapes, GuiShape, JobShape, WorkersLeft
<1>1. CASE EnqueueInvoke
  BY <1>1, PanelAssumption, BelowTypes DEF EnqueueInvoke, GuiGoes, D!EnqueueLocked, Pushed,
    windowVars, hostVars, searchVars, frameVars, D!Accepting, D!queueVars, D!Full, D!DropOldest,
    D!Push, D!drainVars, D!historyVars, D!TypeOK, OurThreads, D!Threads, dispatcherVars
<1>2. CASE RunMethod
  BY <1>2, PanelAssumption, BelowTypes DEF RunMethod, Invokes, GuiGoes, D!EnqueueCall,
    windowVars, hostVars, searchVars, frameVars, D!queueVars, D!drainVars, D!historyVars,
    D!TypeOK, OurThreads, D!Threads, dispatcherVars
<1>3. CASE FindInstances
  BY <1>3, PanelAssumption, BelowTypes DEF FindInstances, GuiGoes, D!EnqueueCall, windowVars,
    hostVars, frameVars, D!queueVars, D!drainVars, D!historyVars, D!TypeOK, OurThreads,
    D!Threads, dispatcherVars
<1>4. CASE SearchEnqueues
  BY <1>4, PanelAssumption, BelowTypes DEF SearchEnqueues, D!TryEnqueueNoDropLocked, Pushed,
    D!NoJob, windowVars, hostVars, frameVars, D!TryEnqueueAccepts, D!Push, D!drainVars,
    D!historyVars, D!Accepting, D!Full, D!TypeOK, OurThreads, D!Threads, dispatcherVars
<1>5. CASE SearchEnds
  BY <1>5, PanelAssumption, BelowTypes DEF SearchEnds, FutureReady, DeadlinePasses, D!NoJob,
    windowVars, hostVars, frameVars, D!Threads, D!TypeOK, OurThreads, D!Threads, dispatcherVars
<1>6. CASE JoinWorkers
  BY <1>6, PanelAssumption, BelowTypes DEF JoinWorkers, GuiGoes, windowVars, hostVars,
    searchVars, frameVars, D!TypeOK, OurThreads, D!Threads, dispatcherVars
<1>7. CASE CloseDispatcher
  BY <1>7, PanelAssumption, BelowTypes DEF CloseDispatcher, GuiGoes, D!BeginShutdownFlag,
    windowVars, hostVars, searchVars, frameVars, D!queueVars, D!drainVars, D!historyVars,
    D!TypeOK, OurThreads, D!Threads, dispatcherVars
<1>8. CASE ClearDispatcher
  BY <1>8, PanelAssumption, BelowTypes DEF ClearDispatcher, GuiGoes, D!BeginShutdownClear,
    windowVars, hostVars, searchVars, frameVars, D!drainVars, D!historyVars, D!TypeOK,
    OurThreads, D!Threads, dispatcherVars
<1>9. ASSUME NEW t \in GameThreads, Detour(t) PROVE WorkersLeft'
  BY <1>9, PanelAssumption, BelowTypes DEF Detour, JobEnds, D!DetourEnter, D!DrainPop,
    D!DrainExit, panelVars, D!JobReturn, PublishResult, windowVars, hostVars, searchVars,
    frameVars, D!MayDrain, D!queueVars, D!historyVars, D!NoJob, D!BudgetLeft, D!TypeOK,
    OurThreads, D!Threads, dispatcherVars
<1>10. CASE CreateWindow \/ PublishWindow \/ SetQuitNotify \/ InitializeRenderer
  BY <1>10, PanelAssumption, BelowTypes DEF CreateWindow, PublishWindow, SetQuitNotify,
    InitializeRenderer, GuiGoes, hostVars, searchVars, frameVars, windowVars, D!TypeOK,
    OurThreads, D!Threads, dispatcherVars
<1>11. CASE PumpClose \/ Unregister \/ Unpublish \/ Destroyed \/ DestroyWindow
  BY <1>11, PanelAssumption, BelowTypes DEF PumpClose, Unregister, Unpublish, Destroyed,
    DestroyWindow, GuiGoes, windowVars, hostVars, searchVars, frameVars, LeaveLoop, D!TypeOK,
    OurThreads, D!Threads, dispatcherVars
<1>12. CASE PollHostQuit \/ RequestHostQuit \/ PollPostsClose \/ PumpQuit \/ PumpEmpty
  BY <1>12, PanelAssumption, BelowTypes DEF PollHostQuit, RequestHostQuit, PollPostsClose,
    PumpQuit, PumpEmpty, FindHostGameWindow, HostIsGone, windowVars, searchVars, frameVars,
    GuiGoes, hostVars, PostClose, D!TypeOK, OurThreads, D!Threads, dispatcherVars
<1>13. CASE Audit \/ ReadVersion \/ CopyResult \/ NoInput
  BY <1>13, PanelAssumption, BelowTypes DEF Audit, ReadVersion, CopyResult, NoInput, GuiGoes,
    AuditTaken, windowVars, hostVars, searchVars, CopyLatest, frameVars, D!TypeOK, OurThreads,
    D!Threads, dispatcherVars
<1>14. CASE ClickReplacesView \/ CancelInspectorCacheWriters
  BY <1>14, PanelAssumption, BelowTypes DEF ClickReplacesView, CancelInspectorCacheWriters,
    GuiGoes, windowVars, hostVars, searchVars, frameVars, D!TypeOK, OurThreads, D!Threads,
    dispatcherVars
<1>15. CASE UNCHANGED <<gui, searchVars, dispatcherVars>>
  BY <1>15 DEF searchVars, dispatcherVars
<1> QED
  BY <1>1, <1>2, <1>3, <1>4, <1>5, <1>6, <1>7, <1>8, <1>9, <1>10, <1>11, <1>12, <1>13, <1>14,
    <1>15 DEF PanelNext, Window, Loop, Shutdown, HostWindowCloses, UserCloses,
    ApplicationQuitDetour, OnApplicationQuitNotify, windowVars, searchVars, frameVars,
    PostClose, hostVars, QuitGoes, NotifyTests, NotifyReadsPanel

LEMMA PanelStep == PanelInv /\ [PanelNext]_allVars => PanelInv'
<1> SUFFICES ASSUME PanelInv, [PanelNext]_allVars PROVE PanelInv'
  OBVIOUS
<1>1. CASE PanelNext
  <2>1. PD!IInv'
    BY <1>1, PanelStepBelow, BelowNext DEF PanelInv
  <2>2. PanelShapes'
    BY <1>1, GuiShapeStep, HostShapeStep, JobShapeStep DEF PanelShapes
  <2> QED
    BY <1>1, <2>1, <2>2, VersionsStep, WindowStep, WorkersStep DEF PanelInv, PanelOwn
<1>2. CASE UNCHANGED allVars
  <2>1. PD!IInv'
    BY <1>2, BelowFrame, BelowNext DEF PanelInv, allVars
  <2>2. UNCHANGED <<dispatcherVars, gui, windowVars, hostQuitting, hostVars, searchVars, kind, result, frameVars>>
    BY <1>2 DEF allVars, panelVars
  <2>3. PanelShapes' /\ Versions'
    BY <2>2 DEF PanelInv, PanelOwn, PanelShapes, GuiShape, HostShape, JobShape, Versions,
                windowVars, hostVars, searchVars, frameVars
  <2>4. WindowStands' /\ NoQuitIsLost' /\ WorkersLeft'
    BY <2>2 DEF PanelInv, PanelOwn, WindowStands, Unnoticed, NoQuitIsLost, WorkersLeft,
                windowVars, hostVars, searchVars, dispatcherVars
  <2> QED
    BY <2>1, <2>3, <2>4 DEF PanelInv, PanelOwn
<1> QED
  BY <1>1, <1>2

LEMMA PanelInvariance == PanelSpec => []PanelInv
BY PanelInitInv, PanelStep, PTL DEF PanelSpec

\* The panel drives the dispatcher only through the dispatcher's own steps
\* (invoke_request_queue.cpp, live_object_finder.cpp, the end of the loop in
\* control_panel.cpp), so every property of the dispatcher holds below it.
THEOREM PanelUsesDispatcher == PanelSpec => PD!Spec
<1>1. PanelInit => PD!Init
  BY BelowInit DEF PanelInit
<1>2. [PanelNext]_allVars => [PD!Next]_(PD!vars)
  <2>1. UNCHANGED allVars => UNCHANGED PD!vars
    BY BelowFrame DEF allVars
  <2> QED
    BY <2>1, PanelStepBelow
<1> QED
  BY <1>1, <1>2, PTL DEF PanelSpec, PD!Spec

\* What a frame shows and what it audits is the latest result, although the
\* version is read without the lock that the job takes to publish
\* (invoke_request_queue.cpp, methods_tab.cpp).
THEOREM ReportsCurrent == PanelSpec => []ReportsAreCurrent
<1>1. PanelInv => ReportsAreCurrent
  <2> SUFFICES ASSUME PanelInv PROVE ReportsAreCurrent
    OBVIOUS
  <2>1. PanelTypeOK
    BY BelowTypes DEF PanelInv, PanelOwn, PanelShapes, GuiShape, HostShape, JobShape, PanelTypeOK
  <2> QED
    BY <2>1 DEF PanelInv, PanelOwn, Versions, ReportsAreCurrent
<1> QED
  BY <1>1, PanelInvariance, PTL

\* The safety behind PanelCloses: while the loop goes on, a raised flag has its
\* WM_CLOSE, or the one who raised it is about to post it (PollHostQuit in
\* control_panel.cpp, OnApplicationQuitNotify in application_quit_hook.cpp).
THEOREM QuitsArrive == PanelSpec => []NoQuitIsLost
BY PanelInvariance, PTL DEF PanelInv, PanelOwn

\* BeginShutdown of the session closes the dispatcher when no thread of the
\* panel is inside it or waits for it (session_state.cpp:23-36).
THEOREM WorkersLeaveFirst == PanelSpec => []DispatcherOutlivesWorkers
<1>1. PanelInv => DispatcherOutlivesWorkers
  BY DEF PanelInv, PanelOwn, WorkersLeft, DispatcherOutlivesWorkers, OurThreads
<1> QED
  BY <1>1, PanelInvariance, PTL

\* Below the panel the queue is bounded, in order and accounted for, and jobs
\* run on the latched thread only, a bounded batch at a time: what hkRuntimeInvoke
\* drains and the worker of the live search waits for (main_thread_dispatcher.cpp).
THEOREM DispatcherSoundBelowPanel == PanelSpec => [](D!QueueIsSound /\ D!DrainIsConfined)
<1>1. PanelInv => D!QueueIsSound
  BY DEF PanelInv, PD!IInv, D!QueueIsSound, D!QueueIsNewestSuffix, PD!QueueIsNewestSuffix,
         D!JobsAccountedFor, PD!JobsAccountedFor, D!ShutdownQuiesces, PD!ShutdownQuiesces
<1>2. PanelInv => D!DrainIsConfined
  <2> SUFFICES ASSUME PanelInv PROVE D!DrainsOnMainThreadOnly /\ D!DrainIsBounded
    BY DEF D!DrainIsConfined
  <2>1. D!DrainsOnMainThreadOnly
    BY DEF PanelInv, PD!IInv, D!DrainsOnMainThreadOnly, PD!DrainsOnMainThreadOnly, D!Threads, PD!Threads,
           D!NoJob, PD!NoJob
  <2>2. ASSUME NEW t \in D!Threads PROVE ran[t] <= MaxJobsPerDrain
    <3>1. ran[t] \in Nat /\ left[t] \in Nat /\ MaxJobsPerDrain \in Nat
      BY BelowTypes, PanelAssumption DEF PanelInv, D!TypeOK
    <3>2. ran[t] + left[t] = MaxJobsPerDrain \/ ran[t] + left[t] = 0
      BY DEF PanelInv, PD!IInv, PD!BudgetSpent, D!Threads, PD!Threads
    <3> QED
      BY <3>1, <3>2
  <2> QED
    BY <2>1, <2>2 DEF D!DrainIsBounded
<1> QED
  BY <1>1, <1>2, PanelInvariance, PTL
=============================================================================
