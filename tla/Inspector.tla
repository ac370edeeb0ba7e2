----------------------------- MODULE Inspector -----------------------------
(***************************************************************************)
(* The inspector of the control panel: the cache every inspector tab       *)
(* draws, the three background workers that write it (inspector load,      *)
(* fields load, instance search), the reconciler that runs before each     *)
(* frame, the walker (breadcrumb stack), and the history rows from which a *)
(* view is restored.                                                       *)
(*                                                                         *)
(* One action is one thing the GUI thread does without another GUI step in *)
(* between, or the end of one worker.  A GUI operation that starts a load  *)
(* first requests the stop of the running writers and joins them.  A       *)
(* worker tests its stop token BEFORE it takes the mutex under which it    *)
(* publishes, and the writers are joined one after the other, so a writer  *)
(* that is being joined may still publish: AfterJoin is the set of models  *)
(* the join can leave behind.                                              *)
(***************************************************************************)
EXTENDS Naturals, Sequences, FiniteSets, SequencesExt

CONSTANTS
  Klasses,        \* classes of the sidebar
  Instances,      \* managed objects of the host
  None,           \* nullptr
  KlassOf,        \* the class an object's header names
  PointsTo,       \* the object its pointer field holds, or None
  HasList,        \* objects with a List/array field
  StaticList,     \* classes with a static List/array field
  PeriodicTick,   \* does something outside the inspector keep the frames coming?
  MaxEntries,     \* rows the history keeps (kMaxEntries)
  MaxClicks,      \* bound: operations the user performs
  MaxFaults       \* bound: loads that throw and objects the GC takes

ASSUME InspectorAssumption ==
  /\ None \notin Klasses /\ None \notin Instances
  /\ KlassOf \in [Instances -> Klasses]
  /\ PointsTo \in [Instances -> Instances \cup {None}]
  /\ HasList \subseteq Instances /\ StaticList \subseteq Klasses
  /\ IsFiniteSet(Instances)
  /\ PeriodicTick \in BOOLEAN
  /\ MaxEntries \in Nat \ {0} /\ MaxClicks \in Nat /\ MaxFaults \in Nat

VARIABLES
  selectedClass,  \* sidebar selection, GUI thread only
  stack,          \* walker.stack, GUI thread only
  model,          \* InspectorModel: cache, selection index, roots (mutex)
  inspectorJob,   \* worker of inspectorLoadThread, NoJob when not in progress
  fieldsJob,      \* worker of fieldsLoadThread
  searchJob,      \* worker of instanceSearchThread
  history,        \* navigation rows, newest first
  gate,           \* navigationFeedback.lastAsyncRecordedInstance
  phase,          \* where the GUI thread is inside its current operation
  sample,         \* what the reconciler read under the mutex
  live,           \* objects the GC has not taken
  clicks, faults  \* the two bounded counters

vars == <<selectedClass, stack, model, inspectorJob, fieldsJob, searchJob,
          history, gate, phase, sample, live, clicks, faults>>

---------------------------------------------------------------------------
(***************************************************************************)
(* The cache.  Rows are abstracted to where they were read: the kind of    *)
(* view, the class whose layout was used and the object (None: statics     *)
(* only).  methods is the class whose catalog is held, None when cleared.  *)
(* Indices count from 1, and 0 is the code's -1.                           *)
(***************************************************************************)
Rows(kind, klass, at) == [kind |-> kind, klass |-> klass, at |-> at]
NoRows == Rows("none", None, None)

EmptyCache == [cls |-> None, inst |-> None, cands |-> <<>>, loadedFor |-> None,
               catalog |-> FALSE, methods |-> None, rows |-> NoRows]

EmptyModel == [cache |-> EmptyCache, idx |-> 0, roots |-> <<>>, rootsClass |-> None]

(* A breadcrumb: what it shows, its owner pair and the object whose field  *)
(* a collection or slot was reached through.                               *)
Crumb(kind, klass, inst, source) ==
  [kind |-> kind, klass |-> klass, inst |-> inst, source |-> source]

Root(klass, inst) == Crumb("root", klass, inst, None)
Top == stack[Len(stack)]
Special(s) == s # <<>> /\ s[Len(s)].kind \in {"collection", "slot"}

NoJob == [op |-> "none", cls |-> None, inst |-> None, source |-> None]
Job(op, cls, inst, source) == [op |-> op, cls |-> cls, inst |-> inst, source |-> source]
NoSample == [taken |-> FALSE, cls |-> None, catalog |-> FALSE, inst |-> None,
             loadedFor |-> None, idx |-> 0]

First(s) == IF s = <<>> THEN None ELSE Head(s)

---------------------------------------------------------------------------
(***************************************************************************)
(* What each worker publishes, under the inspector mutex.                  *)
(***************************************************************************)

(* StartInspectorLoad: static rows; the Find-Instances selection is kept   *)
(* when the CACHE already shows this class.                                *)
ClassLoaded(m, klass) ==
  LET keep == m.roots # <<>> /\ m.cache.cls = klass
      idx  == IF ~keep THEN 0
              ELSE IF m.idx \in DOMAIN m.roots THEN m.idx ELSE 1
  IN [m EXCEPT !.idx = idx,
        !.cache = [cls |-> klass, inst |-> IF keep THEN m.roots[idx] ELSE None,
                   cands |-> IF keep THEN m.roots ELSE <<>>, loadedFor |-> None,
                   catalog |-> TRUE, methods |-> klass,
                   rows |-> Rows("object", klass, None)]]

(* StartInspectorLoadAtInstance: one candidate; the roots are left alone.  *)
InstanceLoaded(m, klass, inst) ==
  [m EXCEPT !.idx = 1,
     !.cache = [cls |-> klass, inst |-> inst, cands |-> <<inst>>, loadedFor |-> inst,
                catalog |-> TRUE, methods |-> klass,
                rows |-> Rows("object", klass, inst)]]

(* StartCollectionLoad: the owner pair stays, the methods go, and the      *)
(* catalog mark is not touched.                                            *)
CollectionLoaded(m, job) ==
  [m EXCEPT !.cache.methods = None, !.cache.cands = <<>>, !.cache.cls = job.cls,
            !.cache.inst = job.inst, !.cache.loadedFor = job.inst,
            !.cache.rows = Rows(job.op, job.cls, job.source)]

(* StartValueTypeSlotLoad: the same, with the members of one element, or   *)
(* no rows when the slot could not be resolved again.                      *)
SlotLoaded(m, job, ok) ==
  [CollectionLoaded(m, job) EXCEPT !.cache.rows = IF ok THEN @ ELSE NoRows]

InspectorPublished(m, job) ==
  CASE job.op = "class"      -> ClassLoaded(m, job.cls)
    [] job.op = "instance"   -> InstanceLoaded(m, job.cls, job.inst)
    [] job.op = "collection" -> CollectionLoaded(m, job)
    [] OTHER                 -> SlotLoaded(m, job, TRUE)

(* A throw: a class or instance load resets the whole cache; a nested load *)
(* catches it around the read and publishes no rows.                       *)
InspectorFailed(m, job) ==
  IF job.op \in {"class", "instance"}
  THEN [m EXCEPT !.cache = EmptyCache, !.idx = 0]
  ELSE SlotLoaded(m, job, FALSE)

(* StartFieldsLoad reads the active instance when it begins.               *)
FieldsRead(m, job) == IF job.op = "started" THEN [job EXCEPT !.op = "read", !.inst = m.cache.inst]
                                            ELSE job
FieldsPublished(m, job) ==
  [m EXCEPT !.cache.cls = job.cls, !.cache.loadedFor = job.inst,
            !.cache.rows = Rows("object", job.cls, job.inst)]

(* PublishFindInstancesResult: methods, rows and catalog mark stay.        *)
FindPublished(m, klass, found) ==
  [m EXCEPT !.roots = found, !.rootsClass = klass, !.idx = IF found = <<>> THEN 0 ELSE 1,
            !.cache.cands = found, !.cache.cls = klass, !.cache.inst = First(found)]

(* Static discovery follows static fields to one object; the live search   *)
(* returns every object of the class, or nothing when it times out.        *)
Found(job) ==
  LET mine == {i \in live : KlassOf[i] = job.cls}
  IN {<<>>} \cup (IF job.op = "static" THEN {<<i>> : i \in mine} ELSE {SetToSeq(mine)})

---------------------------------------------------------------------------
(***************************************************************************)
(* Stop and join.  At most one of the inspector and search workers runs;   *)
(* the fields worker may run beside either, and publish before or after.   *)
(***************************************************************************)
MainEnds(m) ==
  {m} \cup (IF inspectorJob = NoJob THEN {} ELSE {InspectorPublished(m, inspectorJob)})
      \cup (IF inspectorJob = NoJob \/ faults = MaxFaults THEN {}
            ELSE {InspectorFailed(m, inspectorJob)})
      \cup (IF searchJob = NoJob THEN {}
            ELSE {FindPublished(m, searchJob.cls, f) : f \in Found(searchJob)})
FieldsEnds(m) ==
  {m} \cup (IF fieldsJob = NoJob THEN {} ELSE {FieldsPublished(m, FieldsRead(m, fieldsJob))})

AfterJoin(m) == (UNION {FieldsEnds(x) : x \in MainEnds(m)})
                \cup (UNION {MainEnds(x) : x \in FieldsEnds(m)})

(* The three writers are gone and only `job` runs.                         *)
OnlyInspector(job) == inspectorJob' = job /\ fieldsJob' = NoJob /\ searchJob' = NoJob
MutSearchLeavesLoad(job) == inspectorJob' = inspectorJob /\ fieldsJob' = NoJob /\ searchJob' = job
OnlySearch(job) == inspectorJob' = NoJob /\ fieldsJob' = NoJob /\ searchJob' = job
NoWriters          == OnlyInspector(NoJob)

(* StartFieldsLoad joins its own predecessor only.                         *)
StartFieldsLoad(klass) == fieldsJob' = Job("started", klass, None, None)

(* The load that shows a crumb.                                            *)
LoadOf(c) ==
  IF c.kind \in {"collection", "slot"}
  THEN Job(c.kind, c.klass, c.inst, c.source)
  ELSE Job("instance", c.klass, c.inst, None)

---------------------------------------------------------------------------
(***************************************************************************)
(* History rows.  The effective class and object are those of the top      *)
(* crumb, or of the cache while there is no crumb.                         *)
(***************************************************************************)
Capture(sel, st, m) ==
  [cls   |-> IF st # <<>> THEN st[Len(st)].klass ELSE IF sel # None THEN sel ELSE m.cache.cls,
   inst  |-> IF st # <<>> THEN st[Len(st)].inst ELSE m.cache.inst,
   idx   |-> m.idx,
   stack |-> st]

(* Labels: the class name for a root crumb, the way it was reached for the *)
(* others.                                                                 *)
Label(c) == <<c.kind, IF c.kind = "root" THEN KlassOf[c.inst] ELSE None>>
SameFingerprint(a, b) ==
  /\ a.cls = b.cls /\ a.inst = b.inst
  /\ Len(a.stack) = Len(b.stack)
  /\ \A i \in DOMAIN a.stack : Label(a.stack[i]) = Label(b.stack[i])

AppendHistory(h, entry) ==
  IF h # <<>> /\ SameFingerprint(entry, Head(h)) THEN h
  ELSE SubSeq(<<entry>> \o h, 1, IF Len(h) < MaxEntries THEN Len(h) + 1 ELSE MaxEntries)

---------------------------------------------------------------------------
Init ==
  /\ selectedClass = None /\ stack = <<>> /\ model = EmptyModel
  /\ inspectorJob = NoJob /\ fieldsJob = NoJob /\ searchJob = NoJob
  /\ history = <<>> /\ gate = None /\ phase = "idle" /\ sample = NoSample
  /\ live = Instances /\ clicks = 0 /\ faults = 0

---------------------------------------------------------------------------
(***************************************************************************)
(* The workers.                                                            *)
(***************************************************************************)
gui == <<selectedClass, stack, history, gate, phase, sample, live, clicks>>

FinishInspector ==
  /\ inspectorJob # NoJob
  /\ inspectorJob' = NoJob
  /\ \/ model' = InspectorPublished(model, inspectorJob) /\ UNCHANGED faults
     \/ /\ faults < MaxFaults
        /\ faults' = faults + 1
        /\ model' = InspectorFailed(model, inspectorJob)
  /\ UNCHANGED <<gui, fieldsJob, searchJob>>

BeginFields ==
  /\ fieldsJob.op = "started"
  /\ fieldsJob' = FieldsRead(model, fieldsJob)
  /\ UNCHANGED <<gui, model, inspectorJob, searchJob, faults>>

(* A throw is swallowed: nothing is published.                             *)
FinishFields ==
  /\ fieldsJob.op = "read"
  /\ fieldsJob' = NoJob
  /\ \/ model' = FieldsPublished(model, fieldsJob) /\ UNCHANGED faults
     \/ faults < MaxFaults /\ faults' = faults + 1 /\ UNCHANGED model
  /\ UNCHANGED <<gui, inspectorJob, searchJob>>

FinishSearch ==
  /\ searchJob # NoJob
  /\ searchJob' = NoJob
  /\ \E found \in Found(searchJob) : model' = FindPublished(model, searchJob.cls, found)
  /\ UNCHANGED <<gui, inspectorJob, fieldsJob, faults>>

(* The host's garbage collector takes an object.                           *)
Collect ==
  /\ faults < MaxFaults /\ faults' = faults + 1
  /\ \E i \in live : live' = live \ {i}
  /\ UNCHANGED <<selectedClass, stack, model, inspectorJob, fieldsJob, searchJob,
                 history, gate, phase, sample, clicks>>

---------------------------------------------------------------------------
(***************************************************************************)
(* The reconciler, TickPresentSideEffects: one locked read, then decisions *)
(* on that copy and on the in-progress flags as they are by then.          *)
(***************************************************************************)
TickSample ==
  /\ phase = "idle" /\ selectedClass # None
  /\ phase' = "sampled"
  /\ sample' = [taken |-> TRUE, cls |-> model.cache.cls, catalog |-> model.cache.catalog,
                inst |-> model.cache.inst, loadedFor |-> model.cache.loadedFor,
                idx |-> model.idx]
  /\ UNCHANGED <<selectedClass, stack, model, inspectorJob, fieldsJob, searchJob,
                 history, gate, live, clicks, faults>>

NeedsReload == /\ ~Special(stack)
               /\ inspectorJob = NoJob /\ searchJob = NoJob
               /\ sample.cls # selectedClass \/ ~sample.catalog

EnsureRootBreadcrumb(m) ==
  IF stack = <<>> /\ m.cache.inst # None /\ m.cache.cls # None
  THEN <<Root(m.cache.cls, m.cache.inst)>> ELSE stack

(* The row "Instance search result", latched per object.                   *)
AsyncRow == sample.inst # None /\ sample.inst # gate /\ sample.idx = 0

MutOnlyWithoutCrumb(st) ==
  /\ st = <<>> /\ fieldsJob = NoJob /\ inspectorJob = NoJob /\ searchJob = NoJob
  /\ sample.inst # None /\ sample.inst # sample.loadedFor

NeedsFields(st) == /\ Len(st) <= 1
                   /\ fieldsJob = NoJob /\ inspectorJob = NoJob /\ searchJob = NoJob
                   /\ sample.inst # None /\ sample.inst # sample.loadedFor

TickAct ==
  /\ phase = "sampled"
  /\ phase' = "idle" /\ sample' = NoSample
  /\ \E m \in IF NeedsReload THEN AfterJoin(model) ELSE {model} :
       LET st == EnsureRootBreadcrumb(m)
       IN /\ model' = m
          /\ stack' = st
          /\ history' = IF AsyncRow THEN AppendHistory(history, Capture(selectedClass, st, m))
                        ELSE history
          /\ \/ NeedsReload /\ OnlyInspector(Job("class", selectedClass, None, None))
             \/ /\ ~NeedsReload /\ NeedsFields(st)
                /\ StartFieldsLoad(selectedClass) /\ UNCHANGED <<inspectorJob, searchJob>>
             \/ /\ ~NeedsReload /\ ~NeedsFields(st)
                /\ UNCHANGED <<inspectorJob, fieldsJob, searchJob>>
  /\ gate' = IF AsyncRow THEN sample.inst
             ELSE IF sample.inst = None /\ ~NeedsReload /\ inspectorJob = NoJob /\ searchJob = NoJob
             THEN None ELSE gate
  /\ UNCHANGED <<selectedClass, live, clicks, faults>>

---------------------------------------------------------------------------
(***************************************************************************)
(* What the user does.  A handler that ends in RecordNavigationEvent       *)
(* leaves phase "record": the row is captured by the same handler, after   *)
(* the new worker has been started and may already have published.         *)
(***************************************************************************)
Click == phase = "idle" /\ clicks < MaxClicks /\ clicks' = clicks + 1

RecordNavigationEvent ==
  /\ phase = "record" /\ phase' = "idle"
  /\ history' = AppendHistory(history, Capture(selectedClass, stack, model))
  /\ UNCHANGED <<selectedClass, stack, model, inspectorJob, fieldsJob, searchJob,
                 gate, sample, live, clicks, faults>>

(* ClearInspectorCache joins the writers BEFORE it clears: nothing they    *)
(* publish survives.                                                       *)
ClearInspectorCache == model' = EmptyModel /\ stack' = <<>>

SelectImage ==
  /\ Click /\ selectedClass' = None
  /\ ClearInspectorCache /\ NoWriters /\ phase' = "record"
  /\ UNCHANGED <<history, gate, sample, live, faults>>

(* The class load that the static search cancels at once may have finished *)
(* in between.                                                             *)
SelectClass ==
  /\ Click /\ stack' = <<>>
  /\ \E k \in Klasses :
       /\ selectedClass' = k
       /\ model' \in {EmptyModel, ClassLoaded(EmptyModel, k)}
       /\ OnlySearch(Job("static", k, None, None))
  /\ phase' = "record"
  /\ UNCHANGED <<history, gate, sample, live, faults>>

(* The Fields tab offers the search only at the navigation root.           *)
FindInstances ==
  /\ Click /\ selectedClass # None /\ Len(stack) <= 1 /\ searchJob = NoJob
  /\ model' \in AfterJoin(model)
  /\ \E op \in {"static", "live"} : OnlySearch(Job(op, selectedClass, None, None))
  /\ UNCHANGED <<selectedClass, stack, history, gate, phase, sample, live, faults>>

(* The instance combo: SelectInstanceByIndex, its history row, then        *)
(* StartFieldsLoad, which joins the previous fields worker.                *)
SelectInstanceByIndex ==
  /\ Click /\ selectedClass # None /\ Len(stack) <= 1
  /\ \E n \in DOMAIN model.cache.cands :
       LET picked == [model EXCEPT !.idx = n, !.cache.inst = model.cache.cands[n]]
       IN /\ stack' = <<Root(model.cache.cls, model.cache.cands[n])>>
          /\ history' = AppendHistory(history, Capture(selectedClass, stack', picked))
          /\ model' \in FieldsEnds(picked)
  /\ StartFieldsLoad(selectedClass)
  /\ UNCHANGED <<selectedClass, inspectorJob, searchJob, gate, phase, sample, live, faults>>

(* Refresh (button or timer): reload what the top of the stack shows.      *)
DoRefresh ==
  /\ Click /\ selectedClass # None /\ fieldsJob = NoJob /\ inspectorJob = NoJob
  /\ \/ /\ Special(stack)
        /\ model' \in AfterJoin(model) /\ OnlyInspector(LoadOf(Top))
     \/ /\ ~Special(stack)
        /\ StartFieldsLoad(selectedClass) /\ UNCHANGED <<model, inspectorJob, searchJob>>
  /\ UNCHANGED <<selectedClass, stack, history, gate, phase, sample, live, faults>>

(* Push a crumb and load it; the writers are joined after the push.        *)
Push(c) ==
  /\ stack' = Append(stack, c)
  /\ model' \in AfterJoin(model) /\ OnlyInspector(LoadOf(c))
  /\ phase' = "record"
  /\ UNCHANGED <<history, gate, sample, live, faults>>

(* A pointer row of the rows shown; its target must still decode.          *)
NavigateIntoPointer ==
  /\ Click /\ selectedClass # None
  /\ model.cache.rows.at \in live /\ model.cache.rows.kind \in {"object", "collection"}
  /\ LET target == PointsTo[model.cache.rows.at]
     IN /\ target \in live
        /\ selectedClass' = KlassOf[target]
        /\ Push(Crumb("object", KlassOf[target], target, None))

(* A List row: the owner pair is the selection and the active instance,    *)
(* whatever object the rows were read from.                                *)
NavigateIntoCollection ==
  /\ Click /\ selectedClass # None
  /\ model.cache.rows.kind = "object"
  /\ IF model.cache.rows.at = None THEN model.cache.rows.klass \in StaticList
     ELSE model.cache.rows.at \in HasList \cap live
  /\ Push(Crumb("collection", selectedClass, model.cache.inst, model.cache.rows.at))
  /\ UNCHANGED selectedClass

NavigateIntoValueTypeSlot ==
  /\ Click /\ stack # <<>> /\ Top.kind = "collection"
  /\ model.cache.rows.kind = "collection"
  /\ Push(Crumb("slot", Top.klass, Top.inst, Top.source))
  /\ UNCHANGED selectedClass

(* Jump to a value-search hit: the stack is replaced by the path to it.    *)
NavigateToValueSearchHit ==
  /\ Click
  /\ \E i \in Instances :
       \E path \in {<<Root(KlassOf[i], i)>>}
            \cup IF i \in live /\ PointsTo[i] \in live
                 THEN {<<Root(KlassOf[i], i), Crumb("object", KlassOf[PointsTo[i]], PointsTo[i], None)>>}
                 ELSE {} :
         /\ stack' = path
         /\ selectedClass' = path[Len(path)].klass
         /\ OnlyInspector(LoadOf(path[Len(path)]))
  /\ model' \in AfterJoin(model)
  /\ phase' = "record"
  /\ UNCHANGED <<history, gate, sample, live, faults>>

(* A breadcrumb click: truncate, then drop the tail crumbs whose object no *)
(* longer decodes (None never does).                                       *)
LiveTail(m, n) == /\ m # 0 => stack[m].inst \in live
                  /\ \A x \in (m + 1)..n : stack[x].inst \notin live

NavigateBackTo ==
  /\ Click
  /\ \E n \in 1..(Len(stack) - 1) : \E m \in 0..n :
       /\ LiveTail(m, n)
       /\ LET st == SubSeq(stack, 1, m)
          IN \/ /\ st = <<>>
                /\ selectedClass' = None
                /\ ClearInspectorCache /\ NoWriters /\ UNCHANGED phase
             \/ /\ st # <<>>
                /\ stack' = st /\ selectedClass' = st[m].klass
                /\ model' \in AfterJoin(model) /\ OnlyInspector(LoadOf(st[m]))
                /\ phase' = "record"
  /\ UNCHANGED <<history, gate, sample, live, faults>>

---------------------------------------------------------------------------
(***************************************************************************)
(* Restoring a history row (TryApplyNavigationSnapshot).  A row whose      *)
(* object or one of whose crumbs no longer decodes is refused and changes  *)
(* nothing.                                                                *)
(***************************************************************************)
Restorable(e) == /\ e.inst # None => e.inst \in live
                 /\ \A i \in DOMAIN e.stack : e.stack[i].inst \in live

(* Under the mutex: the roots and the methods go, class, object and index  *)
(* come from the row; an index the CURRENT candidates have picks from them.*)
Restored(m, e) ==
  [m EXCEPT !.roots = <<>>, !.rootsClass = None, !.idx = e.idx,
            !.cache.methods = None, !.cache.catalog = FALSE, !.cache.cls = e.cls,
            !.cache.inst = IF e.idx \in DOMAIN m.cache.cands THEN m.cache.cands[e.idx]
                           ELSE e.inst]

RestoreImage(e) ==
  /\ e.cls = None
  /\ selectedClass' = None /\ ClearInspectorCache /\ NoWriters
  /\ gate' = None

(* No crumb and no object: class load, then the static search cancels it.  *)
RestoreClass(e) ==
  /\ e.cls # None /\ e.stack = <<>> /\ e.inst = None
  /\ selectedClass' = e.cls /\ stack' = <<>>
  /\ \E m \in AfterJoin(Restored(model, e)) : model' \in {m, ClassLoaded(m, e.cls)}
  /\ OnlySearch(Job("static", e.cls, None, None))
  /\ gate' = None

RestoreObject(e) ==
  /\ e.cls # None /\ (e.stack # <<>> \/ e.inst # None)
  /\ stack' = e.stack
  /\ LET top == IF e.stack = <<>> THEN Root(e.cls, e.inst) ELSE e.stack[Len(e.stack)]
     IN selectedClass' = top.klass /\ OnlyInspector(LoadOf(top))
  /\ model' \in AfterJoin(Restored(model, e))
  /\ gate' = Restored(model, e).cache.inst

TryApplyHistoryEntry ==
  /\ Click
  /\ \E n \in DOMAIN history :
       /\ Restorable(history[n])
       /\ \/ RestoreImage(history[n])
          \/ RestoreClass(history[n])
          \/ RestoreObject(history[n])
  /\ UNCHANGED <<history, phase, sample, live, faults>>

---------------------------------------------------------------------------
Workers == FinishInspector \/ BeginFields \/ FinishFields \/ FinishSearch
Frames  == TickSample \/ TickAct \/ RecordNavigationEvent
User    == \/ SelectImage \/ SelectClass \/ FindInstances \/ SelectInstanceByIndex
           \/ DoRefresh \/ NavigateIntoPointer \/ NavigateIntoCollection
           \/ NavigateIntoValueTypeSlot \/ NavigateToValueSearchHit
           \/ NavigateBackTo \/ TryApplyHistoryEntry

Next == Workers \/ Frames \/ User \/ Collect

(* The scheduler runs every worker thread, and the GUI thread ends what it *)
(* has begun.  A new frame is certain only while wantsPeriodicTick holds:  *)
(* an active watch entry, a live transform, a script or a search that      *)
(* runs.  The workers of the inspector are not among its reasons, so a     *)
(* panel without them paints nothing until the next input.                 *)
Fairness == /\ WF_vars(PeriodicTick /\ TickSample)
            /\ WF_vars(TickAct \/ RecordNavigationEvent)
            /\ WF_vars(FinishInspector) /\ WF_vars(BeginFields)
            /\ WF_vars(FinishFields) /\ WF_vars(FinishSearch)

Spec     == Init /\ [][Next]_vars
FairSpec == Spec /\ Fairness

---------------------------------------------------------------------------
KlassOrNone == Klasses \cup {None}
InstOrNone  == Instances \cup {None}
Jobs == [op : {"none", "class", "instance", "collection", "slot", "started", "read",
               "static", "live"},
         cls : KlassOrNone, inst : InstOrNone, source : InstOrNone]
Crumbs == [kind : {"root", "object", "collection", "slot"},
           klass : KlassOrNone, inst : InstOrNone, source : InstOrNone]
Caches == [cls : KlassOrNone, inst : InstOrNone, cands : Seq(Instances),
           loadedFor : InstOrNone, catalog : BOOLEAN, methods : KlassOrNone,
           rows : [kind : {"none", "object", "collection", "slot"},
                   klass : KlassOrNone, at : InstOrNone]]
Models == [cache : Caches, idx : Nat, roots : Seq(Instances), rootsClass : KlassOrNone]
Entries == [cls : KlassOrNone, inst : InstOrNone, idx : Nat, stack : Seq(Crumbs)]

(* Every variable keeps its shape, and the history its bound.              *)
TypeOK ==
  /\ selectedClass \in KlassOrNone /\ stack \in Seq(Crumbs) /\ model \in Models
  /\ inspectorJob \in Jobs /\ fieldsJob \in Jobs /\ searchJob \in Jobs
  /\ history \in Seq(Entries) /\ Len(history) <= MaxEntries
  /\ gate \in InstOrNone /\ live \subseteq Instances
  /\ phase \in {"idle", "sampled", "record"}
  /\ clicks \in 0..MaxClicks /\ faults \in 0..MaxFaults

(* Every writer in flight works for the selected class, and the inspector  *)
(* and search workers never run together: no navigation, back jump or      *)
(* restore leaves behind a worker that would later put another class into  *)
(* the view (the cancel-then-relaunch discipline of async_loader_set.cpp). *)
WritersServeSelection ==
  /\ inspectorJob # NoJob => inspectorJob.cls = selectedClass /\ searchJob = NoJob
  /\ searchJob # NoJob => searchJob.cls = selectedClass
  /\ fieldsJob # NoJob => fieldsJob.cls = selectedClass

(* While frames come periodically: after the user's last operation the     *)
(* loaders come to rest and the view is one of the selected class, with    *)
(* its catalog loaded and, at the navigation root, the rows of the active  *)
(* object: a cancelled or failed load is made up for by the reconciler,    *)
(* which does not reload for ever.                                         *)
Shown ==
  /\ inspectorJob = NoJob /\ fieldsJob = NoJob /\ searchJob = NoJob
  /\ selectedClass # None =>
       /\ model.cache.cls = selectedClass
       /\ ~Special(stack) => model.cache.catalog
       /\ Len(stack) <= 1 /\ model.cache.inst # None
            => model.cache.loadedFor = model.cache.inst
ViewSettles == PeriodicTick => <>[]Shown

(* What a comment of the restore promises: a cache of the selected class   *)
(* whose catalog counts as loaded does not hold another class's methods.   *)
(* The code breaks it: an instance search that cancels a load of another   *)
(* class publishes its class and leaves methods and the mark as they were. *)
MethodsAreOfClass ==
  model.cache.catalog /\ model.cache.cls = selectedClass
     => model.cache.methods \in {None, selectedClass}
=============================================================================
