----------------------------- MODULE ImageScope -----------------------------
(***************************************************************************)
(* The sidebar of the control panel: the image list, the class list of the *)
(* selected image, the method index built over the class list, the value   *)
(* search over the classes of the image, and the history rows that bring   *)
(* an earlier selection back.  Four worker threads serve it: image load,   *)
(* class load, value search, method index.                                 *)
(*                                                                         *)
(* A GUI operation is one action.  Where it cancels a worker it requests   *)
(* the stop and joins the thread: a worker that has passed its last test   *)
(* of the stop token ("passed") still publishes before the join returns,   *)
(* any other ends cancelled.                                               *)
(***************************************************************************)
EXTENDS Naturals, FiniteSets

CONSTANTS
  Images,      \* assemblies of the host
  None,        \* nullptr
  Size,        \* number of classes of an image
  Hint,        \* the image the seeded combo text matches ("Assembly-CSharp")
  Addresses,   \* where the allocator can put a class list
  HitCap,      \* kValueSearchHitCap
  MaxClicks    \* bound: operations the user performs

ASSUME ImageScopeAssumption ==
  /\ None \notin Images /\ Hint \in Images
  /\ Size \in [Images -> Nat \ {0}]
  /\ IsFiniteSet(Addresses) /\ Cardinality(Addresses) >= 3
  /\ HitCap \in Nat \ {0} /\ MaxClicks \in Nat

VARIABLES
  images,          \* imageCache: the rows of the image picker
  imageJob,        \* image worker: "none", "load" or "passed"
  pendingDefault,  \* pendingDefaultImageSelection
  selectedImage,
  selectedClass,   \* as the image the selected class belongs to
  classes,         \* classCache: the vector's address, its size and its image
  classJob,        \* class worker
  values,          \* ValueSearchModel
  valueJob,        \* value search worker
  methods,         \* MethodSearchModel
  methodJob,       \* method index worker
  rows,            \* navigation rows recorded, as <<image, class>>
  clicks

imageVars == <<images, imageJob, pendingDefault>>
pickVars  == <<selectedImage, selectedClass>>
classVars == <<classes, classJob>>
valueVars == <<values, valueJob>>
methodVars == <<methods, methodJob>>
vars == <<imageVars, pickVars, classVars, valueVars, methodVars, rows, clicks>>

Stages == {"start", "scan", "passed"}
NoJob == [stage |-> "none"]
Busy(job) == job # NoJob

---------------------------------------------------------------------------
(* The models the workers write under their mutex.  Hits are abstracted to *)
(* the run they come from, their number, the image searched, and whether   *)
(* the run went to its end or to the cap (a stop cuts it short).           *)
NoHits == [of |-> 0, n |-> 0, whole |-> TRUE, from |-> None]
NoIndex == [has |-> FALSE, at |-> None, size |-> 0, image |-> None, owner |-> None, of |-> 0]

EmptyValues == [id |-> 0, inProgress |-> FALSE, drill |-> FALSE, baseline |-> NoHits,
                hits |-> NoHits, truncated |-> FALSE, status |-> "none"]
EmptyMethods == [id |-> 0, inProgress |-> FALSE, hits |-> 0, index |-> NoIndex,
                 status |-> "none"]

ValueBeginRun(drill) ==
  [values EXCEPT !.id = @ + 1, !.inProgress = TRUE, !.drill = drill, !.status = "running",
                 !.truncated = FALSE,
                 !.baseline = IF drill THEN values.hits ELSE NoHits,
                 !.hits = IF drill THEN @ ELSE NoHits]

ValuePublish(m, job) ==
  IF m.id # job.run THEN m
  ELSE [m EXCEPT !.inProgress = FALSE, !.status = "results",
                 !.truncated = job.truncated,
                 !.hits = [of |-> job.run, n |-> job.n, from |-> job.from,
                           whole |-> job.left = 0 \/ job.truncated]]

(* Worker and GUI both mark a run cancelled; the one that comes after a    *)
(* publication must not disturb it.                                        *)
ValueMarkCancelled(m, id) ==
  IF m.id # id \/ ~m.inProgress THEN m
  ELSE [m EXCEPT !.inProgress = FALSE, !.status = "cancelled",
                 !.hits = IF m.drill /\ m.hits.n = 0 /\ m.baseline.n > 0 THEN m.baseline
                                                                         ELSE @]

MethodBeginRun ==
  [methods EXCEPT !.id = @ + 1, !.inProgress = TRUE, !.hits = 0, !.status = "running"]

MutKeyedByListNow(m, job) ==
  IF m.id # job.run THEN m
  ELSE [m EXCEPT !.inProgress = FALSE, !.hits = job.run, !.status = "none",
                 !.index = [has |-> TRUE, at |-> classes.at, size |-> classes.size,
                            image |-> selectedImage, owner |-> job.list.owner, of |-> job.run]]

MethodPublish(m, job) ==
  IF m.id # job.run THEN m
  ELSE [m EXCEPT !.inProgress = FALSE, !.hits = job.run, !.status = "none",
                 !.index = [has |-> TRUE, at |-> job.list.at, size |-> job.list.size,
                            image |-> job.image, owner |-> job.list.owner, of |-> job.run]]

MethodInvalidate(m) == [m EXCEPT !.index = NoIndex, !.hits = 0, !.status = "none"]

MethodMarkCancelled(m, id) ==
  IF m.id # id \/ ~m.inProgress THEN m
  ELSE [m EXCEPT !.inProgress = FALSE, !.status = "cancelled"]

---------------------------------------------------------------------------
(* Stop and join: what CancelValueSearch and CancelImageMethodIndex leave. *)
MutPublishesPart ==
  IF valueJob = NoJob THEN values ELSE ValuePublish(values, valueJob)

ValuesAfterJoin ==
  CASE valueJob = NoJob          -> values
    [] valueJob.stage = "passed" -> ValuePublish(values, valueJob)
    [] OTHER                     -> ValueMarkCancelled(values, valueJob.run)
ValuesCancelled == ValueMarkCancelled(ValuesAfterJoin, values.id)
CancelValueSearch == values' = ValuesCancelled /\ valueJob' = NoJob

MethodsAfterJoin ==
  CASE methodJob = NoJob          -> methods
    [] methodJob.stage = "passed" -> MethodPublish(methods, methodJob)
    [] OTHER                      -> MethodMarkCancelled(methods, methodJob.run)
MethodsCancelled == MethodMarkCancelled(MethodsAfterJoin, methods.id)

(* The test of StartImageMethodIndex and of the browser's view.            *)
IndexValid(m) ==
  /\ m.index.has
  /\ m.index.at = classes.at /\ m.index.size = classes.size
  /\ m.index.image = selectedImage

List(at, image) == [at |-> at, size |-> IF image = None THEN 0 ELSE Size[image],
                    owner |-> image]

Click == clicks < MaxClicks /\ clicks' = clicks + 1
Record(image, class) == rows' = rows \cup {<<image, class>>}

---------------------------------------------------------------------------
Init ==
  /\ images = {} /\ imageJob = "load" /\ pendingDefault = TRUE
  /\ selectedImage = None /\ selectedClass = None
  /\ \E a \in Addresses : classes = List(a, None)
  /\ classJob = NoJob /\ valueJob = NoJob /\ methodJob = NoJob
  /\ values = EmptyValues /\ methods = EmptyMethods
  /\ rows = {} /\ clicks = 0

(* The workers. ---------------------------------------------------------- *)
ImagePass ==
  /\ imageJob = "load"
  /\ imageJob' = "passed"
  /\ UNCHANGED <<images, pendingDefault, pickVars, classVars, valueVars, methodVars, rows, clicks>>

(* Replace of the image list with what the host has loaded by then.        *)
ImagePublish ==
  /\ imageJob = "passed"
  /\ imageJob' = "none" /\ images' \in SUBSET Images
  /\ UNCHANGED <<pendingDefault, pickVars, classVars, valueVars, methodVars, rows, clicks>>

ClassPass ==
  /\ Busy(classJob) /\ classJob.stage = "start"
  /\ classJob' = [classJob EXCEPT !.stage = "passed"]
  /\ UNCHANGED <<imageVars, pickVars, classes, valueVars, methodVars, rows, clicks>>

(* The new vector is allocated while the old one, and the snapshot of a    *)
(* method index worker, are alive.                                         *)
InUse == {classes.at} \cup (IF Busy(methodJob) THEN {methodJob.list.at} ELSE {})
ClassPublish ==
  /\ Busy(classJob) /\ classJob.stage = "passed"
  /\ \E a \in Addresses \ InUse : classes' = List(a, classJob.image)
  /\ classJob' = NoJob
  /\ UNCHANGED <<imageVars, pickVars, valueVars, methodVars, rows, clicks>>

(* GetRawClasses, or none when it throws; a drill goes over its baseline.  *)
ValueBegin ==
  /\ Busy(valueJob) /\ valueJob.stage = "start"
  /\ \E n \in {0, Size[valueJob.from]} :
       valueJob' = [valueJob EXCEPT !.stage = "scan", !.left = IF valueJob.drill THEN @ ELSE n]
  /\ UNCHANGED <<imageVars, pickVars, classVars, values, methodVars, rows, clicks>>

(* The scan goes on to the next class or baseline hit, with k more hits.   *)
Scan(k) ==
  valueJob' = [valueJob EXCEPT !.left = @ - 1, !.n = @ + k,
                               !.truncated = valueJob.n + k = HitCap]
Scanning ==
  /\ Busy(valueJob) /\ valueJob.stage = "scan"
  /\ valueJob.left > 0 /\ ~valueJob.truncated

(* One class: the matching fields of its instances, up to the cap; none    *)
(* when its schema cannot match or the discovery of instances fails.       *)
ScanClass ==
  /\ Scanning /\ ~valueJob.drill
  /\ \E k \in 0..(HitCap - valueJob.n) : Scan(k)
  /\ UNCHANGED <<imageVars, pickVars, classVars, values, methodVars, rows, clicks>>

(* One baseline hit, kept when it still has the value.                     *)
DrillHit ==
  /\ Scanning /\ valueJob.drill
  /\ \E k \in {0, 1} : Scan(k)
  /\ UNCHANGED <<imageVars, pickVars, classVars, values, methodVars, rows, clicks>>

(* A throw out of the scan is caught, and its result is empty.             *)
ScanFails ==
  /\ Scanning
  /\ valueJob' = [valueJob EXCEPT !.left = 0, !.n = 0]
  /\ UNCHANGED <<imageVars, pickVars, classVars, values, methodVars, rows, clicks>>

MutPassNotAtCap ==
  /\ Busy(valueJob) /\ valueJob.stage = "scan"
  /\ valueJob.left = 0
  /\ valueJob' = [valueJob EXCEPT !.stage = "passed"]
  /\ UNCHANGED <<imageVars, pickVars, classVars, values, methodVars, rows, clicks>>

(* The scan is over and the last test of the stop token found no request.  *)
ValuePass ==
  /\ Busy(valueJob) /\ valueJob.stage = "scan"
  /\ valueJob.left = 0 \/ valueJob.truncated
  /\ valueJob' = [valueJob EXCEPT !.stage = "passed"]
  /\ UNCHANGED <<imageVars, pickVars, classVars, values, methodVars, rows, clicks>>

ValueFinish ==
  /\ Busy(valueJob) /\ valueJob.stage = "passed"
  /\ values' = ValuePublish(values, valueJob) /\ valueJob' = NoJob
  /\ UNCHANGED <<imageVars, pickVars, classVars, methodVars, rows, clicks>>

MethodPass ==
  /\ Busy(methodJob) /\ methodJob.stage = "scan"
  /\ methodJob' = [methodJob EXCEPT !.stage = "passed"]
  /\ UNCHANGED <<imageVars, pickVars, classVars, valueVars, methods, rows, clicks>>

MethodFinish ==
  /\ Busy(methodJob) /\ methodJob.stage = "passed"
  /\ methods' = MethodPublish(methods, methodJob) /\ methodJob' = NoJob
  /\ UNCHANGED <<imageVars, pickVars, classVars, valueVars, rows, clicks>>

(* The GUI thread. ------------------------------------------------------- *)

(* ClearClassCache, ClearInspectorCache and StartClassLoad, in this order: *)
(* a class worker that has passed its test fills the emptied list again    *)
(* while it is joined.                                                     *)
SwitchImage(i) ==
  /\ selectedImage' = i /\ selectedClass' = None
  /\ methods' = MethodInvalidate(MethodsCancelled) /\ methodJob' = NoJob
  /\ CancelValueSearch
  /\ IF Busy(classJob) /\ classJob.stage = "passed"
     THEN \E a \in Addresses : classes' = List(a, classJob.image)
     ELSE \E a \in Addresses \ {classes.at} : classes' = List(a, None)
  /\ classJob' = [stage |-> "start", image |-> i]

(* TickBeforePaint: an empty image list is loaded again, and the first     *)
(* list is matched against the seeded hint.                                *)
TickLoadsImages ==
  /\ imageJob = "none" /\ images = {}
  /\ imageJob' = "load"
  /\ UNCHANGED <<images, pendingDefault, pickVars, classVars, valueVars, methodVars, rows, clicks>>

TickPicksDefault ==
  /\ imageJob = "none" /\ images # {} /\ pendingDefault /\ selectedImage = None
  /\ pendingDefault' = FALSE
  /\ IF Hint \in images
     THEN SwitchImage(Hint) /\ Record(Hint, None)
     ELSE UNCHANGED <<pickVars, classVars, valueVars, methodVars, rows>>
  /\ UNCHANGED <<images, imageJob, clicks>>

(* The image picker: select a row, or refresh.                             *)
SelectImage(i) ==
  /\ i \in images
  /\ Click
  /\ SwitchImage(i) /\ Record(i, None)
  /\ UNCHANGED imageVars

RefreshImages ==
  /\ imageJob = "none"
  /\ Click
  /\ images' = {} /\ imageJob' = "load"
  /\ pendingDefault' = IF selectedImage = None THEN TRUE ELSE pendingDefault
  /\ UNCHANGED <<pickVars, classVars, valueVars, methodVars, rows>>

(* A class of the list, or the class of a method hit: ClearInspectorCache  *)
(* cancels the value search as well.                                       *)
SelectClass ==
  /\ \/ classes.owner # None /\ selectedClass' = classes.owner
     \/ IndexValid(methods) /\ methods.hits # 0 /\ selectedClass' = methods.index.owner
  /\ selectedImage # None
  /\ Click
  /\ CancelValueSearch
  /\ Record(selectedImage, selectedClass')
  /\ UNCHANGED <<imageVars, selectedImage, classVars, methodVars>>

(* A value hit, also one found before another image was selected.          *)
NavigateToValueSearchHit ==
  /\ values.hits.n > 0
  /\ Click
  /\ selectedClass' = values.hits.from
  /\ Record(selectedImage, selectedClass')
  /\ UNCHANGED <<imageVars, selectedImage, classVars, valueVars, methodVars>>

Idle(m, job) == ~m.inProgress /\ ~Busy(job)

StartValueSearch ==
  /\ Idle(values, valueJob) /\ selectedImage # None
  /\ Click
  /\ values' = ValueBeginRun(FALSE)
  /\ valueJob' = [stage |-> "start", run |-> values.id + 1, drill |-> FALSE, n |-> 0,
                  left |-> 0, truncated |-> FALSE, from |-> selectedImage]
  /\ UNCHANGED <<imageVars, pickVars, classVars, methodVars, rows>>

StartValueDrill ==
  /\ Idle(values, valueJob) /\ values.hits.n > 0
  /\ Click
  /\ values' = ValueBeginRun(TRUE)
  /\ valueJob' = [stage |-> "start", run |-> values.id + 1, drill |-> TRUE, n |-> 0,
                  left |-> values.hits.n, truncated |-> FALSE, from |-> values.hits.from]
  /\ UNCHANGED <<imageVars, pickVars, classVars, methodVars, rows>>

StopValueSearch ==
  /\ ~Idle(values, valueJob)
  /\ Click
  /\ CancelValueSearch
  /\ UNCHANGED <<imageVars, pickVars, classVars, methodVars, rows>>

(* A valid index is only filtered again; otherwise a worker builds one     *)
(* over a snapshot of the class list, for the image selected now.          *)
StartImageMethodIndex ==
  /\ Idle(methods, methodJob) /\ selectedImage # None
  /\ Click
  /\ IF IndexValid(methods)
     THEN methods' = [methods EXCEPT !.hits = methods.index.of] /\ methodJob' = NoJob
     ELSE /\ methods' = MethodBeginRun
          /\ methodJob' = [stage |-> "scan", run |-> methods.id + 1, list |-> classes,
                           image |-> selectedImage]
  /\ UNCHANGED <<imageVars, pickVars, classVars, valueVars, rows>>

StopMethodIndex ==
  /\ ~Idle(methods, methodJob)
  /\ Click
  /\ methods' = MethodsCancelled /\ methodJob' = NoJob
  /\ UNCHANGED <<imageVars, pickVars, classVars, valueVars, rows>>

(* TryApplyNavigationSnapshot: a row without a class switches the image as *)
(* SelectImage does; a row with a class sets image and class and loads the *)
(* inspector, but touches neither the class list nor the searches.         *)
RestoreRow(row) ==
  /\ row \in rows
  /\ Click
  /\ IF row[2] = None
     THEN SwitchImage(row[1])
     ELSE /\ selectedImage' = row[1] /\ selectedClass' = row[2]
          /\ UNCHANGED <<classVars, valueVars, methodVars>>
  /\ UNCHANGED <<imageVars, rows>>

---------------------------------------------------------------------------
Workers ==
  \/ ImagePass \/ ImagePublish \/ ClassPass \/ ClassPublish
  \/ ValueBegin \/ ScanClass \/ DrillHit \/ ScanFails \/ ValuePass \/ ValueFinish
  \/ MethodPass \/ MethodFinish

Next ==
  \/ Workers
  \/ TickLoadsImages \/ TickPicksDefault
  \/ \E i \in Images : SelectImage(i)
  \/ RefreshImages \/ SelectClass \/ NavigateToValueSearchHit
  \/ StartValueSearch \/ StartValueDrill \/ StopValueSearch
  \/ StartImageMethodIndex \/ StopMethodIndex
  \/ \E row \in rows : RestoreRow(row)

Spec == Init /\ [][Next]_vars

(* Each worker is a thread the operating system runs; frames and the user  *)
(* owe nothing.                                                            *)
FairSpec ==
  /\ Spec
  /\ WF_vars(ImagePass \/ ImagePublish)
  /\ WF_vars(ClassPass \/ ClassPublish)
  /\ WF_vars(ValueBegin \/ ScanClass \/ DrillHit \/ ScanFails \/ ValuePass \/ ValueFinish)
  /\ WF_vars(MethodPass \/ MethodFinish)

---------------------------------------------------------------------------
(* Properties.                                                             *)

ImagesOrNone == Images \cup {None}
Lists == [at : Addresses, size : Nat, owner : ImagesOrNone]
Hits == [of : Nat, n : 0..HitCap, whole : BOOLEAN, from : ImagesOrNone]
ValueModels == [id : Nat, inProgress : BOOLEAN, drill : BOOLEAN, baseline : Hits, hits : Hits,
                truncated : BOOLEAN, status : {"none", "running", "results", "cancelled"}]
Indexes == [has : BOOLEAN, at : Addresses \cup {None}, size : Nat, image : ImagesOrNone,
            owner : ImagesOrNone, of : Nat]
MethodModels == [id : Nat, inProgress : BOOLEAN, hits : Nat, index : Indexes,
                 status : {"none", "running", "cancelled"}]
ClassJobs  == [stage : Stages, image : Images]
ValueJobs  == [stage : Stages, run : Nat, drill : BOOLEAN, n : 0..HitCap, left : Nat,
               truncated : BOOLEAN, from : Images]
MethodJobs == [stage : Stages, run : Nat, list : Lists, image : Images]

(* Every variable keeps its shape, and no result holds more than           *)
(* kValueSearchHitCap hits, whatever was merged into it.                   *)
TypeOK ==
  /\ images \subseteq Images /\ imageJob \in {"none", "load", "passed"}
  /\ pendingDefault \in BOOLEAN
  /\ selectedImage \in ImagesOrNone /\ selectedClass \in ImagesOrNone
  /\ classes \in Lists /\ classJob \in ClassJobs \cup {NoJob}
  /\ values \in ValueModels /\ valueJob \in ValueJobs \cup {NoJob}
  /\ methods \in MethodModels /\ methodJob \in MethodJobs \cup {NoJob}
  /\ rows \subseteq Images \X ImagesOrNone
  /\ clicks \in 0..MaxClicks

(* An index that the Methods tab takes for the one of the list on display  *)
(* was built from that list.  The test compares an address, a count and    *)
(* the selected image, and addresses are reused: what makes it sound is    *)
(* the order of cancel, invalidate, clear and reload.                      *)
IndexMatchesList == IndexValid(methods) => methods.index.owner = classes.owner

(* Both search panes keep the promise of SearchContract: a cancelled run   *)
(* never publishes over what is shown, an answer is given once and is not  *)
(* taken back, only the latest run answers, and what the value pane shows  *)
(* is the whole result: a search cut short by Stop, or by a new selection, *)
(* never publishes the part it has.  The methods pane may also bring back  *)
(* the hits of an index that has become valid again (an image restored     *)
(* from the history).                                                      *)
ValuePhase ==
  CASE values.inProgress           -> "running"
    [] values.status = "results"   -> "answered"
    [] OTHER                       -> "idle"
MethodPhase ==
  CASE methods.inProgress                              -> "running"
    [] ~methods.inProgress /\ methods.status = "none"
         /\ methods.hits # 0                           -> "answered"
    [] OTHER                                           -> "idle"

ValuePane == INSTANCE SearchContract
  WITH Recallable <- FALSE, asked <- values.id, phase <- ValuePhase,
       shown <- IF values.hits.whole THEN values.hits.of ELSE 0
MethodPane == INSTANCE SearchContract
  WITH Recallable <- TRUE, asked <- methods.id, phase <- MethodPhase, shown <- methods.hits

ImplementsSearch == ValuePane!Spec /\ MethodPane!Spec

(* Whatever is started ends: no run leaves a pane busy with no worker      *)
(* behind it.                                                              *)
SearchesEnd ==
  /\ ~Idle(values, valueJob) ~> Idle(values, valueJob)
  /\ ~Idle(methods, methodJob) ~> Idle(methods, methodJob)
  /\ Busy(classJob) ~> ~Busy(classJob)
=============================================================================
