-------------------------- MODULE InspectorProofs --------------------------
(***************************************************************************)
(* Why no writer of the inspector cache ever works for a class that is no  *)
(* longer selected, for any host: any classes, objects, pointers and any   *)
(* number of operations.                                                   *)
(*                                                                         *)
(* The delicate load is the one that starts again what the walker's top    *)
(* crumb shows (Refresh in a collection): it takes the class of the crumb, *)
(* which therefore must be the selected one as long as the crumb is on     *)
(* top.                                                                    *)
(***************************************************************************)
EXTENDS Inspector, SequenceTheorems, FiniteSetTheorems, TLAPS

(* The copy the reconciler decides on keeps its shape.                     *)
Samples == [taken : BOOLEAN, cls : KlassOrNone, catalog : BOOLEAN, inst : InstOrNone,
            loadedFor : InstOrNone, idx : Nat]

(* A collection or slot on top of the stack belongs to the selected class. *)
SpecialServes == Special(stack) => Top.klass = selectedClass

(* The inspector worker is one of the four loads, and a load of an object  *)
(* has one.                                                                *)
Loads == {j \in Jobs : /\ j.op \in {"class", "instance", "collection", "slot"}
                       /\ j.op = "instance" => j.inst \in Instances}
LoadsKnown == inspectorJob \in Loads \cup {NoJob}

ViewOk == selectedClass \in KlassOrNone /\ stack \in Seq(Crumbs) /\ SpecialServes
JobsOk == LoadsKnown /\ fieldsJob \in Jobs /\ searchJob \in Jobs /\ WritersServeSelection
DataOk == model \in Models /\ history \in Seq(Entries) /\ Len(history) <= MaxEntries
RestOk == /\ gate \in InstOrNone /\ live \subseteq Instances /\ sample \in Samples
          /\ phase \in {"idle", "sampled", "record"}
          /\ clicks \in 0..MaxClicks /\ faults \in 0..MaxFaults

InspectorInv == ViewOk /\ JobsOk /\ DataOk /\ RestOk

---------------------------------------------------------------------------
LEMMA InspectorInit == Init => InspectorInv
  BY InspectorAssumption, EmptySeq
  DEF Init, InspectorInv, ViewOk, JobsOk, DataOk, RestOk, Samples, LoadsKnown, SpecialServes,
      WritersServeSelection, Special, EmptyModel, EmptyCache, NoRows, Rows, NoJob, NoSample,
      Models, Caches, Jobs, KlassOrNone, InstOrNone

LEMMA InspectorInvTypes == InspectorInv => TypeOK /\ WritersServeSelection
<1>1. NoJob \in Jobs
  BY DEF NoJob, Jobs, KlassOrNone, InstOrNone
<1> QED BY <1>1 DEF InspectorInv, ViewOk, JobsOk, DataOk, RestOk, TypeOK, LoadsKnown, Loads

---------------------------------------------------------------------------
(* What a worker or the GUI thread writes is a model again.                *)
LEMMA EmptyModelShape == EmptyModel \in Models /\ EmptyCache \in Caches
  BY EmptySeq DEF EmptyModel, EmptyCache, NoRows, Rows, Models, Caches, KlassOrNone, InstOrNone

LEMMA ClassLoadedShape ==
  ASSUME NEW m \in Models, NEW k \in KlassOrNone
  PROVE  ClassLoaded(m, k) \in Models
<1> DEFINE keep == m.roots # <<>> /\ m.cache.cls = k
           idx == IF ~keep THEN 0 ELSE IF m.idx \in DOMAIN m.roots THEN m.idx ELSE 1
           c == [cls |-> k, inst |-> IF keep THEN m.roots[idx] ELSE None,
                 cands |-> IF keep THEN m.roots ELSE <<>>, loadedFor |-> None,
                 catalog |-> TRUE, methods |-> k, rows |-> Rows("object", k, None)]
<1>1. m.roots \in Seq(Instances) /\ m.idx \in Nat
  BY DEF Models
<1>2. keep => Len(m.roots) >= 1 /\ DOMAIN m.roots = 1..Len(m.roots)
  BY <1>1, EmptySeq, LenProperties
<1>3. idx \in Nat /\ (keep => m.roots[idx] \in Instances)
  BY <1>1, <1>2, ElementOfSeq
<1>4. c.cands \in Seq(Instances)
  BY <1>1, EmptySeq
<1>5. c \in Caches
  BY <1>3, <1>4 DEF Caches, Rows, KlassOrNone, InstOrNone
<1>6. ClassLoaded(m, k) = [m EXCEPT !.idx = idx, !.cache = c]
  BY DEF ClassLoaded
<1> HIDE DEF idx, c
<1> QED BY <1>3, <1>5, <1>6 DEF Models

LEMMA InstanceLoadedShape ==
  ASSUME NEW m \in Models, NEW k \in KlassOrNone, NEW i \in Instances
  PROVE  InstanceLoaded(m, k, i) \in Models
<1>1. <<i>> \in Seq(Instances)
  OBVIOUS
<1> QED BY <1>1 DEF InstanceLoaded, Models, Caches, Rows, KlassOrNone, InstOrNone

LEMMA CacheReplaced ==
  ASSUME NEW m \in Models, NEW c \in Caches
  PROVE  [m EXCEPT !.cache = c] \in Models /\ [m EXCEPT !.cache = c].cache = c
  BY DEF Models

LEMMA CollectionLoadedShape ==
  ASSUME NEW m \in Models, NEW job \in Jobs, job.op \in {"collection", "slot"}
  PROVE  CollectionLoaded(m, job) \in Models
<1> DEFINE c == [m.cache EXCEPT !.methods = None, !.cands = <<>>, !.cls = job.cls,
                                !.inst = job.inst, !.loadedFor = job.inst,
                                !.rows = Rows(job.op, job.cls, job.source)]
<1>1. CollectionLoaded(m, job) = [m EXCEPT !.cache = c]
  BY DEF CollectionLoaded, Models, Caches
<1>2. Rows(job.op, job.cls, job.source)
        \in [kind : {"none", "object", "collection", "slot"}, klass : KlassOrNone, at : InstOrNone]
  BY DEF Rows, Jobs
<1>3. job.cls \in KlassOrNone /\ job.inst \in InstOrNone /\ None \in KlassOrNone
  BY DEF Jobs, KlassOrNone
<1>4. m.cache \in Caches /\ <<>> \in Seq(Instances)
  BY EmptySeq DEF Models
<1>5. c \in Caches
  BY <1>2, <1>3, <1>4 DEF Caches
<1> QED BY <1>1, <1>5, CacheReplaced

LEMMA SlotLoadedShape ==
  ASSUME NEW m \in Models, NEW job \in Jobs, job.op \in {"collection", "slot"}, NEW ok \in BOOLEAN
  PROVE  SlotLoaded(m, job, ok) \in Models
<1> DEFINE n == CollectionLoaded(m, job)
           r == IF ok THEN n.cache.rows ELSE NoRows
           c == [n.cache EXCEPT !.rows = r]
<1>1. n \in Models
  BY CollectionLoadedShape
<1>2. SlotLoaded(m, job, ok) = [n EXCEPT !.cache = c]
  BY <1>1 DEF SlotLoaded, Models, Caches
<1>3. n.cache \in Caches
  BY <1>1 DEF Models
<1>4. r \in [kind : {"none", "object", "collection", "slot"}, klass : KlassOrNone, at : InstOrNone]
  BY <1>3 DEF NoRows, Rows, Caches, KlassOrNone, InstOrNone
<1> HIDE DEF n, r
<1>5. c \in Caches
  BY <1>3, <1>4 DEF Caches
<1> QED BY <1>1, <1>2, <1>5, CacheReplaced DEF n

LEMMA InspectorPublishedShape ==
  ASSUME NEW m \in Models, NEW job \in Jobs,
         job.op \in {"class", "instance", "collection", "slot"},
         job.op = "instance" => job.inst \in Instances
  PROVE  InspectorPublished(m, job) \in Models
<1>1. job.cls \in KlassOrNone
  BY DEF Jobs
<1>2. CASE job.op = "class"
  BY <1>1, <1>2, ClassLoadedShape DEF InspectorPublished
<1>3. CASE job.op = "instance"
  BY <1>1, <1>3, InstanceLoadedShape DEF InspectorPublished
<1>4. CASE job.op = "collection"
  BY <1>4, CollectionLoadedShape DEF InspectorPublished
<1>5. CASE job.op = "slot"
  BY <1>5, SlotLoadedShape DEF InspectorPublished
<1> QED BY <1>2, <1>3, <1>4, <1>5

LEMMA InspectorFailedShape ==
  ASSUME NEW m \in Models, NEW job \in Jobs,
         job.op \in {"class", "instance", "collection", "slot"}
  PROVE  InspectorFailed(m, job) \in Models
<1>1. CASE job.op \in {"class", "instance"}
  BY <1>1, EmptyModelShape DEF InspectorFailed, Models
<1>2. CASE job.op \in {"collection", "slot"}
  BY <1>2, SlotLoadedShape DEF InspectorFailed
<1> QED BY <1>1, <1>2

LEMMA FieldsPublishedShape ==
  ASSUME NEW m \in Models, NEW job \in Jobs
  PROVE  FieldsPublished(m, FieldsRead(m, job)) \in Models /\ FieldsRead(m, job) \in Jobs
         /\ FieldsRead(m, job).cls = job.cls
<1> DEFINE r == FieldsRead(m, job)
           c == [m.cache EXCEPT !.cls = r.cls, !.loadedFor = r.inst,
                                !.rows = Rows("object", r.cls, r.inst)]
<1>1. m.cache.inst \in InstOrNone /\ m.cache \in Caches
  BY DEF Models, Caches
<1>2. r \in Jobs /\ r.cls = job.cls
  BY <1>1 DEF FieldsRead, Jobs
<1> HIDE DEF r
<1>3. r.cls \in KlassOrNone /\ r.inst \in InstOrNone
  BY <1>2 DEF Jobs
<1>4. c \in Caches
  BY <1>1, <1>3 DEF Caches, Rows
<1>5. FieldsPublished(m, r) = [m EXCEPT !.cache = c]
  BY DEF FieldsPublished, Models, Caches
<1> QED BY <1>2, <1>4, <1>5, CacheReplaced DEF r

LEMMA FindPublishedShape ==
  ASSUME NEW m \in Models, NEW k \in KlassOrNone, NEW found \in Seq(Instances)
  PROVE  FindPublished(m, k, found) \in Models
<1> DEFINE c == [m.cache EXCEPT !.cands = found, !.cls = k, !.inst = First(found)]
           i == IF found = <<>> THEN 0 ELSE 1
<1>1. First(found) \in InstOrNone
  BY HeadTailProperties DEF First, InstOrNone
<1>2. c \in Caches
  BY <1>1 DEF Models, Caches
<1>3. FindPublished(m, k, found)
        = [m EXCEPT !.roots = found, !.rootsClass = k, !.idx = i, !.cache = c]
  BY DEF FindPublished, Models, Caches
<1>4. i \in Nat
  OBVIOUS
<1> HIDE DEF c, i
<1> QED BY <1>2, <1>3, <1>4 DEF Models

---------------------------------------------------------------------------
(* What a join can leave behind.                                           *)
LEMMA FoundShape ==
  ASSUME NEW job, live \subseteq Instances, NEW f \in Found(job)
  PROVE  f \in Seq(Instances)
<1> DEFINE mine == {i \in live : KlassOf[i] = job.cls}
<1>1. mine \subseteq Instances /\ IsFiniteSet(mine)
  BY FS_Subset, InspectorAssumption
<1>2. Cardinality(mine) \in Nat /\ ExistsBijection(1..Cardinality(mine), mine)
  BY <1>1, FS_CardinalityType
<1>3. PICK g \in [1..Cardinality(mine) -> mine] : IsInjective(g)
  BY <1>2 DEF ExistsBijection, Bijection, Injection, IsInjective
<1>4. SetToSeq(mine) \in [1..Cardinality(mine) -> mine]
  BY <1>3 DEF SetToSeq
<1>5. SetToSeq(mine) \in Seq(Instances)
  BY <1>1, <1>2, <1>4
<1>6. CASE f = <<>>
  BY <1>6, EmptySeq
<1>7. CASE job.op = "static" /\ f # <<>>
  <2>1. PICK i \in mine : f = <<i>>
    BY <1>7 DEF Found
  <2>2. i \in Instances
    BY <1>1, <2>1
  <2> QED BY <2>1, <2>2
<1>8. CASE job.op # "static" /\ f # <<>>
  BY <1>5, <1>8 DEF Found
<1> QED BY <1>6, <1>7, <1>8

JobsTyped == /\ inspectorJob \in Loads \cup {NoJob} /\ fieldsJob \in Jobs /\ searchJob \in Jobs
             /\ live \subseteq Instances

LEMMA MainEndsShape ==
  ASSUME JobsTyped, NEW m \in Models
  PROVE  MainEnds(m) \subseteq Models
<1> SUFFICES ASSUME NEW x \in MainEnds(m) PROVE x \in Models
  OBVIOUS
<1>1. CASE x = m
  BY <1>1
<1>2. CASE inspectorJob # NoJob /\ x = InspectorPublished(m, inspectorJob)
  BY <1>2, InspectorPublishedShape DEF JobsTyped, Loads
<1>3. CASE inspectorJob # NoJob /\ x = InspectorFailed(m, inspectorJob)
  BY <1>3, InspectorFailedShape DEF JobsTyped, Loads
<1>4. ASSUME NEW f \in Found(searchJob), x = FindPublished(m, searchJob.cls, f)
      PROVE  x \in Models
  <2>1. f \in Seq(Instances)
    BY FoundShape DEF JobsTyped
  <2>2. searchJob.cls \in KlassOrNone
    BY DEF JobsTyped, Jobs
  <2> QED BY <1>4, <2>1, <2>2, FindPublishedShape
<1> QED BY <1>1, <1>2, <1>3, <1>4 DEF MainEnds

LEMMA FieldsEndsShape ==
  ASSUME JobsTyped, NEW m \in Models
  PROVE  FieldsEnds(m) \subseteq Models
  BY FieldsPublishedShape DEF FieldsEnds, JobsTyped

LEMMA AfterJoinShape ==
  ASSUME JobsTyped, NEW m \in Models
  PROVE  AfterJoin(m) \subseteq Models
<1>1. \A x \in MainEnds(m) : FieldsEnds(x) \subseteq Models
  BY MainEndsShape, FieldsEndsShape
<1>2. \A x \in FieldsEnds(m) : MainEnds(x) \subseteq Models
  BY MainEndsShape, FieldsEndsShape
<1> SUFFICES ASSUME NEW y \in AfterJoin(m) PROVE y \in Models
  OBVIOUS
<1>3. \/ \E x \in MainEnds(m) : y \in FieldsEnds(x)
      \/ \E x \in FieldsEnds(m) : y \in MainEnds(x)
  BY Zenon DEF AfterJoin
<1> QED BY <1>1, <1>2, <1>3

---------------------------------------------------------------------------
(* History rows and crumbs.                                                *)
LEMMA CrumbShape ==
  ASSUME NEW kind \in {"root", "object", "collection", "slot"}, NEW k \in KlassOrNone,
         NEW i \in InstOrNone, NEW src \in InstOrNone
  PROVE  /\ Crumb(kind, k, i, src) \in Crumbs
         /\ Crumb(kind, k, i, src).kind = kind /\ Crumb(kind, k, i, src).klass = k
         /\ Crumb(kind, k, i, src).inst = i
  BY DEF Crumb, Crumbs

LEMMA LoadOfShape ==
  ASSUME NEW c \in Crumbs, c.kind \in {"root", "object"} => c.inst \in Instances
  PROVE  LoadOf(c) \in Loads /\ LoadOf(c).cls = c.klass
  BY DEF LoadOf, Job, Crumbs, Loads, Jobs, InstOrNone

LEMMA CaptureShape ==
  ASSUME NEW sel \in KlassOrNone, NEW st \in Seq(Crumbs), NEW m \in Models
  PROVE  Capture(sel, st, m) \in Entries
<1>1. st # <<>> => Len(st) \in 1..Len(st)
  BY EmptySeq
<1>2. st # <<>> => st[Len(st)] \in Crumbs
  BY <1>1, ElementOfSeq
<1>3. st # <<>> => st[Len(st)].klass \in KlassOrNone /\ st[Len(st)].inst \in InstOrNone
  BY <1>2 DEF Crumbs
<1>4. m.cache.cls \in KlassOrNone /\ m.cache.inst \in InstOrNone /\ m.idx \in Nat
  BY DEF Models, Caches
<1> QED BY <1>3, <1>4 DEF Capture, Entries

LEMMA AppendHistoryShape ==
  ASSUME NEW h \in Seq(Entries), Len(h) <= MaxEntries, NEW e \in Entries
  PROVE  AppendHistory(h, e) \in Seq(Entries) /\ Len(AppendHistory(h, e)) <= MaxEntries
<1> DEFINE n == IF Len(h) < MaxEntries THEN Len(h) + 1 ELSE MaxEntries
           g == <<e>> \o h
<1>1. g \in Seq(Entries) /\ Len(g) = Len(h) + 1 /\ Len(h) \in Nat
  BY ConcatProperties, LenProperties
<1>2. n \in Nat /\ n <= Len(g) /\ n <= MaxEntries
  BY <1>1, InspectorAssumption
<1>3. \A i \in 1..n : g[i] \in Entries
  BY <1>1, <1>2, ElementOfSeq
<1> HIDE DEF n, g
<1>4. SubSeq(g, 1, n) \in Seq(Entries) /\ Len(SubSeq(g, 1, n)) <= MaxEntries
  BY <1>2, <1>3, SubSeqProperties, InspectorAssumption
<1> QED BY <1>4 DEF AppendHistory, n, g

LEMMA TopShape ==
  ASSUME NEW s \in Seq(Crumbs), s # <<>>
  PROVE  Len(s) \in 1..Len(s) /\ s[Len(s)] \in Crumbs
<1>1. Len(s) \in 1..Len(s)
  BY EmptySeq
<1> QED BY <1>1, ElementOfSeq

---------------------------------------------------------------------------
(* The ways the set of workers changes.                                    *)
LEMMA OnlyInspectorOk ==
  ASSUME NEW job \in Loads \cup {NoJob}, job # NoJob => job.cls = selectedClass',
         OnlyInspector(job)
  PROVE  JobsOk'
<1>1. NoJob \in Jobs
  BY DEF NoJob, Jobs, KlassOrNone, InstOrNone
<1> QED BY <1>1 DEF OnlyInspector, JobsOk, LoadsKnown, WritersServeSelection

LEMMA OnlySearchOk ==
  ASSUME NEW k \in KlassOrNone, NEW op \in {"static", "live"}, k = selectedClass',
         OnlySearch(Job(op, k, None, None))
  PROVE  JobsOk'
<1>1. NoJob \in Jobs /\ Job(op, k, None, None) \in Jobs /\ Job(op, k, None, None).cls = k
  BY DEF NoJob, Job, Jobs, KlassOrNone, InstOrNone
<1> QED BY <1>1 DEF OnlySearch, JobsOk, LoadsKnown, WritersServeSelection

LEMMA StartFieldsOk ==
  ASSUME InspectorInv, StartFieldsLoad(selectedClass),
         UNCHANGED <<selectedClass, inspectorJob, searchJob>>
  PROVE  JobsOk'
<1>1. Job("started", selectedClass, None, None) \in Jobs
      /\ Job("started", selectedClass, None, None).cls = selectedClass
  BY DEF InspectorInv, ViewOk, Job, Jobs, InstOrNone
<1> QED BY <1>1 DEF StartFieldsLoad, InspectorInv, JobsOk, LoadsKnown, WritersServeSelection

LEMMA JobsUnchanged ==
  ASSUME InspectorInv, UNCHANGED <<selectedClass, inspectorJob, fieldsJob, searchJob>>
  PROVE  JobsOk'
  BY DEF InspectorInv, JobsOk, LoadsKnown, WritersServeSelection

LEMMA ViewUnchanged ==
  ASSUME InspectorInv, UNCHANGED <<selectedClass, stack>>
  PROVE  ViewOk'
  BY DEF InspectorInv, ViewOk, SpecialServes, Special, Top

LEMMA EmptyStackOk ==
  ASSUME stack' = <<>>, selectedClass' \in KlassOrNone
  PROVE  ViewOk'
  BY EmptySeq DEF ViewOk, SpecialServes, Special

LEMMA JoinOk ==
  ASSUME InspectorInv, NEW m \in Models
  PROVE  AfterJoin(m) \subseteq Models /\ FieldsEnds(m) \subseteq Models /\ MainEnds(m) \subseteq Models
<1>1. JobsTyped
  BY DEF JobsTyped, InspectorInv, JobsOk, RestOk, LoadsKnown
<1> QED BY <1>1, AfterJoinShape, FieldsEndsShape, MainEndsShape

---------------------------------------------------------------------------
(* The workers.                                                            *)
LEMMA WorkersKeep ==
  ASSUME InspectorInv, Workers \/ Collect
  PROVE  InspectorInv'
<1>1. ViewOk'
  BY ViewUnchanged DEF Workers, FinishInspector, BeginFields, FinishFields, FinishSearch, Collect, gui
<1>2. RestOk'
  <2>1. UNCHANGED <<gate, phase, sample, clicks>> /\ live' \subseteq live
    BY DEF Workers, FinishInspector, BeginFields, FinishFields, FinishSearch, Collect, gui
  <2>2. faults' = faults \/ (faults < MaxFaults /\ faults' = faults + 1)
    BY DEF Workers, FinishInspector, BeginFields, FinishFields, FinishSearch, Collect
  <2> QED BY <2>1, <2>2, InspectorAssumption DEF InspectorInv, RestOk
<1>3. model \in Models /\ UNCHANGED selectedClass /\ NoJob \in Jobs
  BY DEF InspectorInv, DataOk, Workers, FinishInspector, BeginFields, FinishFields, FinishSearch,
         Collect, gui, NoJob, Jobs, KlassOrNone, InstOrNone
<1>4. CASE FinishInspector
  <2>1. JobsOk'
    BY <1>3, <1>4 DEF FinishInspector, InspectorInv, JobsOk, LoadsKnown, WritersServeSelection
  <2>2. inspectorJob \in Loads
    BY <1>4 DEF FinishInspector, InspectorInv, JobsOk, LoadsKnown
  <2>3. model' \in Models
    BY <1>3, <1>4, <2>2, InspectorPublishedShape, InspectorFailedShape DEF FinishInspector, Loads
  <2> QED BY <1>1, <1>2, <1>4, <2>1, <2>3 DEF FinishInspector, InspectorInv, DataOk, gui
<1>5. CASE BeginFields
  <2>1. FieldsRead(model, fieldsJob) \in Jobs /\ FieldsRead(model, fieldsJob).cls = fieldsJob.cls
    BY <1>3, FieldsPublishedShape DEF InspectorInv, JobsOk
  <2>2. fieldsJob # NoJob
    BY <1>5 DEF BeginFields, NoJob
  <2>3. JobsOk'
    BY <1>3, <1>5, <2>1, <2>2 DEF BeginFields, InspectorInv, JobsOk, LoadsKnown, WritersServeSelection
  <2> QED BY <1>1, <1>2, <1>5, <2>3 DEF BeginFields, InspectorInv, DataOk, gui
<1>6. CASE FinishFields
  <2>1. JobsOk'
    BY <1>3, <1>6 DEF FinishFields, InspectorInv, JobsOk, LoadsKnown, WritersServeSelection
  <2>2. FieldsRead(model, fieldsJob) = fieldsJob
    BY <1>6 DEF FinishFields, FieldsRead
  <2>3. FieldsPublished(model, fieldsJob) \in Models
    BY <1>3, <2>2, FieldsPublishedShape DEF InspectorInv, JobsOk
  <2> QED BY <1>1, <1>2, <1>6, <2>1, <2>3 DEF FinishFields, InspectorInv, DataOk, gui
<1>7. CASE FinishSearch
  <2>1. JobsOk'
    BY <1>3, <1>7 DEF FinishSearch, InspectorInv, JobsOk, LoadsKnown, WritersServeSelection
  <2>2. PICK f \in Found(searchJob) : model' = FindPublished(model, searchJob.cls, f)
    BY <1>7 DEF FinishSearch
  <2>3. f \in Seq(Instances) /\ searchJob.cls \in KlassOrNone
    BY FoundShape DEF InspectorInv, RestOk, JobsOk, Jobs
  <2>4. model' \in Models
    BY <1>3, <2>2, <2>3, FindPublishedShape
  <2> QED BY <1>1, <1>2, <1>7, <2>1, <2>4 DEF FinishSearch, InspectorInv, DataOk, gui
<1>8. CASE Collect
  BY <1>1, <1>2, <1>8, JobsUnchanged DEF Collect, InspectorInv, DataOk
<1> QED BY <1>4, <1>5, <1>6, <1>7, <1>8 DEF Workers

---------------------------------------------------------------------------
(* The reconciler and the history row of a handler.                        *)
LEMMA TickSampleKeeps ==
  ASSUME InspectorInv, TickSample
  PROVE  InspectorInv'
<1>1. sample' \in Samples
  BY DEF TickSample, Samples, InspectorInv, DataOk, Models, Caches
<1>2. RestOk' /\ DataOk'
  BY <1>1 DEF TickSample, InspectorInv, RestOk, DataOk
<1> QED BY <1>2, ViewUnchanged, JobsUnchanged DEF TickSample, InspectorInv

LEMMA RootBreadcrumbShape ==
  ASSUME InspectorInv, NEW m \in Models
  PROVE  /\ EnsureRootBreadcrumb(m) \in Seq(Crumbs)
         /\ EnsureRootBreadcrumb(m) = stack \/ ~Special(EnsureRootBreadcrumb(m))
<1> DEFINE c == Root(m.cache.cls, m.cache.inst)
<1>1. m.cache.cls \in KlassOrNone /\ m.cache.inst \in InstOrNone /\ None \in InstOrNone
  BY DEF Models, Caches, InstOrNone
<1>2. c \in Crumbs /\ c.kind = "root"
  BY <1>1, CrumbShape DEF Root
<1> HIDE DEF c
<1>3. <<c>> \in Seq(Crumbs) /\ ~Special(<<c>>)
  BY <1>2 DEF Special
<1>4. EnsureRootBreadcrumb(m) = stack \/ EnsureRootBreadcrumb(m) = <<c>>
  BY DEF EnsureRootBreadcrumb, c
<1> QED BY <1>3, <1>4 DEF InspectorInv, ViewOk

LEMMA TickActKeeps ==
  ASSUME InspectorInv, TickAct
  PROVE  InspectorInv'
<1> DEFINE Reload == OnlyInspector(Job("class", selectedClass, None, None))
           Fields == StartFieldsLoad(selectedClass) /\ UNCHANGED <<inspectorJob, searchJob>>
           Stay == UNCHANGED <<inspectorJob, fieldsJob, searchJob>>
<1>1. model \in Models /\ selectedClass' = selectedClass /\ selectedClass \in KlassOrNone
  BY DEF TickAct, InspectorInv, DataOk, ViewOk
<1>2. PICK m \in AfterJoin(model) \cup {model} :
        /\ model' = m /\ stack' = EnsureRootBreadcrumb(m)
        /\ history' = IF AsyncRow THEN AppendHistory(history, Capture(selectedClass, stack', m))
                      ELSE history
        /\ Reload \/ Fields \/ Stay
  BY DEF TickAct
<1>3. m \in Models
  BY <1>1, <1>2, JoinOk
<1>4. stack' \in Seq(Crumbs) /\ (stack' = stack \/ ~Special(stack'))
  BY <1>2, <1>3, RootBreadcrumbShape
<1>5. ViewOk'
  BY <1>1, <1>4 DEF InspectorInv, ViewOk, SpecialServes, Special, Top
<1>6. JobsOk'
  <2>1. CASE Reload
    <3>1. Job("class", selectedClass, None, None) \in Loads
          /\ Job("class", selectedClass, None, None).cls = selectedClass
      BY <1>1 DEF Job, Loads, Jobs, InstOrNone
    <3> QED BY <1>1, <2>1, <3>1, OnlyInspectorOk
  <2>2. CASE Fields
    BY <1>1, <2>2, StartFieldsOk
  <2>3. CASE Stay
    BY <1>1, <2>3, JobsUnchanged
  <2> QED BY <1>2, <2>1, <2>2, <2>3
<1>7. DataOk'
  <2>1. Capture(selectedClass, stack', m) \in Entries
    BY <1>1, <1>3, <1>4, CaptureShape
  <2> QED BY <1>2, <1>3, <2>1, AppendHistoryShape DEF InspectorInv, DataOk
<1>8. RestOk'
  <2>1. gate' \in InstOrNone
    BY DEF TickAct, InspectorInv, RestOk, Samples, InstOrNone
  <2>2. NoSample \in Samples
    BY DEF NoSample, Samples, KlassOrNone, InstOrNone
  <2> QED BY <2>1, <2>2 DEF TickAct, InspectorInv, RestOk
<1> QED BY <1>5, <1>6, <1>7, <1>8 DEF InspectorInv

LEMMA RecordKeeps ==
  ASSUME InspectorInv, RecordNavigationEvent
  PROVE  InspectorInv'
<1>1. Capture(selectedClass, stack, model) \in Entries
  BY CaptureShape DEF InspectorInv, ViewOk, DataOk
<1>2. DataOk'
  BY <1>1, AppendHistoryShape DEF RecordNavigationEvent, InspectorInv, DataOk
<1>3. RestOk'
  BY DEF RecordNavigationEvent, InspectorInv, RestOk
<1> QED BY <1>2, <1>3, ViewUnchanged, JobsUnchanged DEF RecordNavigationEvent, InspectorInv

---------------------------------------------------------------------------
(* What the user does.                                                     *)
LEMMA ClickOk ==
  ASSUME InspectorInv, Click, UNCHANGED <<sample, live, faults>>,
         phase' \in {"idle", "record"}, gate' \in InstOrNone
  PROVE  RestOk'
  BY InspectorAssumption DEF Click, InspectorInv, RestOk

(* A push: the load and the crumb on top name the new selection.           *)
LEMMA PushKeeps ==
  ASSUME InspectorInv, Click, NEW c \in Crumbs, Push(c), c.klass = selectedClass',
         c.kind \in {"root", "object"} => c.inst \in Instances
  PROVE  InspectorInv'
<1>1. LoadOf(c) \in Loads /\ LoadOf(c).cls = selectedClass'
  BY LoadOfShape
<1>2. stack' = Append(stack, c) /\ model' \in AfterJoin(model) /\ OnlyInspector(LoadOf(c))
      /\ phase' = "record" /\ UNCHANGED <<history, gate, sample, live, faults>>
  BY DEF Push
<1>3. JobsOk'
  BY <1>1, <1>2, OnlyInspectorOk
<1>4. model' \in Models
  BY <1>2, JoinOk DEF InspectorInv, DataOk
<1>5. stack' \in Seq(Crumbs) /\ stack'[Len(stack')] = c
  BY <1>2, AppendProperties DEF InspectorInv, ViewOk
<1>6. selectedClass' \in KlassOrNone
  BY DEF Crumbs
<1>7. ViewOk'
  BY <1>5, <1>6 DEF ViewOk, SpecialServes, Top
<1>8. RestOk'
  BY <1>2, ClickOk DEF InspectorInv, RestOk
<1> QED BY <1>2, <1>3, <1>4, <1>7, <1>8 DEF InspectorInv, DataOk

LEMMA ClearOk ==
  ASSUME InspectorInv, ClearInspectorCache, NoWriters, UNCHANGED history,
         selectedClass' \in KlassOrNone, RestOk'
  PROVE  InspectorInv'
<1>1. ViewOk' /\ model' \in Models
  BY EmptyStackOk, EmptyModelShape DEF ClearInspectorCache
<1>2. JobsOk'
  BY OnlyInspectorOk DEF NoWriters
<1> QED BY <1>1, <1>2 DEF InspectorInv, DataOk

LEMMA SelectImageKeeps ==
  ASSUME InspectorInv, SelectImage
  PROVE  InspectorInv'
<1>1. RestOk'
  BY ClickOk DEF SelectImage, InspectorInv, RestOk
<1> QED BY <1>1, ClearOk DEF SelectImage, KlassOrNone

LEMMA SelectClassKeeps ==
  ASSUME InspectorInv, SelectClass
  PROVE  InspectorInv'
<1>1. PICK k \in Klasses :
        /\ selectedClass' = k
        /\ model' \in {EmptyModel, ClassLoaded(EmptyModel, k)}
        /\ OnlySearch(Job("static", k, None, None))
  BY DEF SelectClass
<1>2. k \in KlassOrNone
  BY DEF KlassOrNone
<1>3. ViewOk'
  BY <1>1, <1>2, EmptyStackOk DEF SelectClass
<1>4. JobsOk'
  BY <1>1, <1>2, OnlySearchOk
<1>5. model' \in Models
  BY <1>1, <1>2, EmptyModelShape, ClassLoadedShape
<1>6. RestOk'
  BY ClickOk DEF SelectClass, InspectorInv, RestOk
<1> QED BY <1>3, <1>4, <1>5, <1>6 DEF SelectClass, InspectorInv, DataOk

LEMMA FindInstancesKeeps ==
  ASSUME InspectorInv, FindInstances
  PROVE  InspectorInv'
<1>1. PICK op \in {"static", "live"} : OnlySearch(Job(op, selectedClass, None, None))
  BY DEF FindInstances
<1>2. JobsOk'
  BY <1>1, OnlySearchOk DEF FindInstances, InspectorInv, ViewOk
<1>3. model' \in Models
  BY JoinOk DEF FindInstances, InspectorInv, DataOk
<1>4. RestOk'
  BY ClickOk DEF FindInstances, Click, InspectorInv, RestOk
<1> QED BY <1>2, <1>3, <1>4, ViewUnchanged DEF FindInstances, InspectorInv, DataOk

LEMMA SelectInstanceKeeps ==
  ASSUME InspectorInv, SelectInstanceByIndex
  PROVE  InspectorInv'
<1>1. PICK n \in DOMAIN model.cache.cands :
        LET picked == [model EXCEPT !.idx = n, !.cache.inst = model.cache.cands[n]]
        IN /\ stack' = <<Root(model.cache.cls, model.cache.cands[n])>>
           /\ history' = AppendHistory(history, Capture(selectedClass, stack', picked))
           /\ model' \in FieldsEnds(picked)
  BY DEF SelectInstanceByIndex
<1> DEFINE i == model.cache.cands[n]
           c == [model.cache EXCEPT !.inst = i]
           picked == [model EXCEPT !.idx = n, !.cache = c]
           r == Root(model.cache.cls, i)
<1>2. model \in Models /\ model.cache \in Caches /\ model.cache.cands \in Seq(Instances)
      /\ model.cache.cls \in KlassOrNone
  BY DEF InspectorInv, DataOk, Models, Caches
<1>3. n \in Nat /\ i \in Instances
  BY <1>1, <1>2, LenProperties, ElementOfSeq
<1>4. c \in Caches
  BY <1>2, <1>3 DEF Caches, InstOrNone
<1>5. picked \in Models
  <2> HIDE DEF c, i
  <2> QED BY <1>2, <1>3, <1>4 DEF Models
<1>6. picked = [model EXCEPT !.idx = n, !.cache.inst = model.cache.cands[n]]
  BY <1>2 DEF Models, Caches
<1>7. r \in Crumbs /\ r.kind = "root"
  BY <1>2, <1>3, CrumbShape DEF Root, InstOrNone
<1>8. stack' = <<r>> /\ history' = AppendHistory(history, Capture(selectedClass, stack', picked))
      /\ model' \in FieldsEnds(picked)
  BY <1>1, <1>6
<1> HIDE DEF picked, r, c, i
<1>9. ViewOk'
  BY <1>7, <1>8 DEF SelectInstanceByIndex, InspectorInv, ViewOk, SpecialServes, Special
<1>10. DataOk'
  <2>1. Capture(selectedClass, stack', picked) \in Entries
    BY <1>5, <1>9, CaptureShape DEF InspectorInv, ViewOk
  <2> QED BY <1>5, <1>8, <2>1, AppendHistoryShape, JoinOk DEF InspectorInv, DataOk
<1>11. JobsOk'
  BY StartFieldsOk DEF SelectInstanceByIndex
<1>12. RestOk'
  BY ClickOk DEF SelectInstanceByIndex, Click, InspectorInv, RestOk
<1> QED BY <1>9, <1>10, <1>11, <1>12 DEF InspectorInv

LEMMA DoRefreshKeeps ==
  ASSUME InspectorInv, DoRefresh
  PROVE  InspectorInv'
<1>1. RestOk'
  BY ClickOk DEF DoRefresh, Click, InspectorInv, RestOk
<1>2. model' \in Models
  BY JoinOk DEF DoRefresh, InspectorInv, DataOk
<1>3. JobsOk'
  <2>1. CASE Special(stack) /\ OnlyInspector(LoadOf(Top))
    <3>1. Top \in Crumbs /\ Top.kind \in {"collection", "slot"} /\ Top.klass = selectedClass
      BY <2>1, TopShape DEF InspectorInv, ViewOk, SpecialServes, Special, Top
    <3> QED BY <2>1, <3>1, LoadOfShape, OnlyInspectorOk DEF DoRefresh
  <2>2. CASE StartFieldsLoad(selectedClass) /\ UNCHANGED <<model, inspectorJob, searchJob>>
    BY <2>2, StartFieldsOk DEF DoRefresh
  <2> QED BY <2>1, <2>2 DEF DoRefresh
<1> QED BY <1>1, <1>2, <1>3, ViewUnchanged DEF DoRefresh, InspectorInv, DataOk

LEMMA NavigationsKeep ==
  ASSUME InspectorInv,
         NavigateIntoPointer \/ NavigateIntoCollection \/ NavigateIntoValueTypeSlot
  PROVE  InspectorInv'
<1>1. model.cache.inst \in InstOrNone /\ model.cache.rows.at \in InstOrNone
  BY DEF InspectorInv, DataOk, Models, Caches
<1>2. live \subseteq Instances /\ selectedClass \in KlassOrNone /\ stack \in Seq(Crumbs)
  BY DEF InspectorInv, RestOk, ViewOk
<1>3. CASE NavigateIntoPointer
  <2> DEFINE target == PointsTo[model.cache.rows.at]
             c == Crumb("object", KlassOf[target], target, None)
  <2>1. Click /\ target \in live /\ selectedClass' = KlassOf[target] /\ Push(c)
    BY <1>3 DEF NavigateIntoPointer
  <2>2. target \in InstOrNone /\ KlassOf[target] \in KlassOrNone /\ None \in InstOrNone
    BY <1>2, <2>1, InspectorAssumption DEF InstOrNone, KlassOrNone
  <2> HIDE DEF target
  <2>3. c \in Crumbs /\ c.klass = KlassOf[target] /\ c.inst = target
    BY <2>2, CrumbShape
  <2> HIDE DEF c
  <2> QED BY <1>2, <2>1, <2>3, PushKeeps
<1>4. CASE NavigateIntoCollection
  <2> DEFINE c == Crumb("collection", selectedClass, model.cache.inst, model.cache.rows.at)
  <2>1. c \in Crumbs /\ c.klass = selectedClass /\ c.kind = "collection"
    BY <1>1, <1>2, CrumbShape
  <2>2. Click /\ Push(c) /\ selectedClass' = selectedClass
    BY <1>4 DEF NavigateIntoCollection
  <2> HIDE DEF c
  <2> QED BY <2>1, <2>2, PushKeeps
<1>5. CASE NavigateIntoValueTypeSlot
  <2> DEFINE c == Crumb("slot", Top.klass, Top.inst, Top.source)
  <2>1. Top \in Crumbs /\ Top.klass = selectedClass
    BY <1>2, <1>5, TopShape
    DEF NavigateIntoValueTypeSlot, Top, InspectorInv, ViewOk, SpecialServes, Special
  <2>2. Top.klass \in KlassOrNone /\ Top.inst \in InstOrNone /\ Top.source \in InstOrNone
    BY <2>1 DEF Crumbs
  <2>3. c \in Crumbs /\ c.klass = selectedClass /\ c.kind = "slot"
    BY <2>1, <2>2, CrumbShape
  <2>4. Click /\ Push(c) /\ selectedClass' = selectedClass
    BY <1>5 DEF NavigateIntoValueTypeSlot
  <2> HIDE DEF c
  <2> QED BY <2>3, <2>4, PushKeeps
<1> QED BY <1>3, <1>4, <1>5

LEMMA SearchHitKeeps ==
  ASSUME InspectorInv, NavigateToValueSearchHit
  PROVE  InspectorInv'
<1>1. PICK i \in Instances :
        \E path \in {<<Root(KlassOf[i], i)>>}
             \cup IF i \in live /\ PointsTo[i] \in live
                  THEN {<<Root(KlassOf[i], i), Crumb("object", KlassOf[PointsTo[i]], PointsTo[i], None)>>}
                  ELSE {} :
          /\ stack' = path
          /\ selectedClass' = path[Len(path)].klass
          /\ OnlyInspector(LoadOf(path[Len(path)]))
  BY DEF NavigateToValueSearchHit
<1> DEFINE r == Root(KlassOf[i], i)
           j == PointsTo[i]
           c == Crumb("object", KlassOf[j], j, None)
<1>2. r \in Crumbs /\ r.kind = "root" /\ r.inst \in Instances
  BY CrumbShape, InspectorAssumption DEF Root, KlassOrNone, InstOrNone
<1>3. j \in live => c \in Crumbs /\ c.kind = "object" /\ c.inst \in Instances
  <2> SUFFICES ASSUME j \in live PROVE c \in Crumbs /\ c.kind = "object" /\ c.inst \in Instances
    OBVIOUS
  <2>1. j \in Instances /\ KlassOf[j] \in KlassOrNone /\ j \in InstOrNone /\ None \in InstOrNone
    BY InspectorAssumption DEF InspectorInv, RestOk, KlassOrNone, InstOrNone
  <2> HIDE DEF j
  <2> QED BY <2>1, CrumbShape
<1> HIDE DEF r, c
<1>4. PICK t \in Crumbs :
        /\ stack' \in {<<t>>, <<r, t>>} /\ t.kind \in {"root", "object"} /\ t.inst \in Instances
        /\ selectedClass' = t.klass /\ OnlyInspector(LoadOf(t))
  <2>1. PICK path \in {<<r>>, <<r, c>>} :
          /\ path = <<r>> \/ (j \in live /\ path = <<r, c>>)
          /\ stack' = path /\ selectedClass' = path[Len(path)].klass
          /\ OnlyInspector(LoadOf(path[Len(path)]))
    BY <1>1 DEF r, c
  <2>2. CASE path = <<r>>
    <3>1. path[Len(path)] = r
      BY <2>2
    <3> QED BY <1>2, <2>1, <2>2, <3>1
  <2>3. CASE j \in live /\ path = <<r, c>>
    <3>1. path[Len(path)] = c
      BY <2>3
    <3> QED BY <1>3, <2>1, <2>3, <3>1
  <2> QED BY <2>1, <2>2, <2>3
<1>5. selectedClass' \in KlassOrNone
  BY <1>4 DEF Crumbs
<1>6. ViewOk'
  <2>1. <<t>> \in Seq(Crumbs) /\ <<t>>[Len(<<t>>)] = t
        /\ <<r, t>> \in Seq(Crumbs) /\ <<r, t>>[Len(<<r, t>>)] = t
    BY <1>2, <1>4
  <2>2. stack' \in Seq(Crumbs) /\ stack'[Len(stack')] = t
    BY <1>4, <2>1
  <2> QED BY <1>4, <1>5, <2>2 DEF ViewOk, SpecialServes, Special
<1>7. JobsOk'
  BY <1>4, LoadOfShape, OnlyInspectorOk
<1>8. DataOk'
  BY JoinOk DEF NavigateToValueSearchHit, InspectorInv, DataOk
<1>9. RestOk'
  BY ClickOk DEF NavigateToValueSearchHit, InspectorInv, RestOk
<1> QED BY <1>6, <1>7, <1>8, <1>9 DEF InspectorInv

LEMMA BackKeeps ==
  ASSUME InspectorInv, NavigateBackTo
  PROVE  InspectorInv'
<1>0. PICK n \in 1..(Len(stack) - 1) : \E m \in 0..n :
        /\ LiveTail(m, n)
        /\ LET st == SubSeq(stack, 1, m)
           IN \/ /\ st = <<>>
                 /\ selectedClass' = None
                 /\ ClearInspectorCache /\ NoWriters /\ UNCHANGED phase
              \/ /\ st # <<>>
                 /\ stack' = st /\ selectedClass' = st[m].klass
                 /\ model' \in AfterJoin(model) /\ OnlyInspector(LoadOf(st[m]))
                 /\ phase' = "record"
  BY DEF NavigateBackTo
<1>1. PICK m \in 0..n :
        /\ LiveTail(m, n)
        /\ LET st == SubSeq(stack, 1, m)
           IN \/ /\ st = <<>>
                 /\ selectedClass' = None
                 /\ ClearInspectorCache /\ NoWriters /\ UNCHANGED phase
              \/ /\ st # <<>>
                 /\ stack' = st /\ selectedClass' = st[m].klass
                 /\ model' \in AfterJoin(model) /\ OnlyInspector(LoadOf(st[m]))
                 /\ phase' = "record"
  BY <1>0
<1> DEFINE st == SubSeq(stack, 1, m)
<1>2. stack \in Seq(Crumbs) /\ Len(stack) \in Nat /\ n <= Len(stack) /\ n \in Nat /\ m \in Nat
      /\ m <= Len(stack)
  BY LenProperties DEF InspectorInv, ViewOk
<1>3. RestOk'
  BY <1>1, ClickOk DEF NavigateBackTo, Click, InspectorInv, RestOk
<1>4. CASE st = <<>> /\ selectedClass' = None /\ ClearInspectorCache /\ NoWriters
  BY <1>3, <1>4, ClearOk DEF NavigateBackTo, KlassOrNone
<1>5. CASE /\ st # <<>>
           /\ stack' = st /\ selectedClass' = st[m].klass
           /\ model' \in AfterJoin(model) /\ OnlyInspector(LoadOf(st[m]))
  <2>1. \A x \in 1..m : stack[x] \in Crumbs
    BY <1>2, ElementOfSeq
  <2>2. m # 0
    BY <1>5, SubSeqEmpty
  <2>3. st \in Seq(Crumbs) /\ Len(st) = m /\ st[m] = stack[m]
    BY <1>2, <2>1, <2>2, SubSeqProperties
  <2> HIDE DEF st
  <2>4. st[m] \in Crumbs /\ st[m].inst \in Instances
    BY <1>1, <1>2, <2>1, <2>2, <2>3 DEF LiveTail, InspectorInv, RestOk
  <2>5. selectedClass' \in KlassOrNone
    BY <1>5, <2>4 DEF Crumbs
  <2>6. ViewOk'
    BY <1>5, <2>3, <2>5 DEF ViewOk, SpecialServes, Top
  <2>7. JobsOk'
    BY <1>5, <2>4, LoadOfShape, OnlyInspectorOk
  <2>8. DataOk'
    BY <1>5, JoinOk DEF NavigateBackTo, InspectorInv, DataOk
  <2> QED BY <1>3, <2>6, <2>7, <2>8 DEF InspectorInv
<1> QED BY <1>1, <1>4, <1>5

---------------------------------------------------------------------------
(* A restore.                                                              *)
LEMMA RestoredShape ==
  ASSUME NEW m \in Models, NEW e \in Entries
  PROVE  Restored(m, e) \in Models
<1> DEFINE i == IF e.idx \in DOMAIN m.cache.cands THEN m.cache.cands[e.idx] ELSE e.inst
           c == [m.cache EXCEPT !.methods = None, !.catalog = FALSE, !.cls = e.cls, !.inst = i]
<1>1. e.cls \in KlassOrNone /\ e.inst \in InstOrNone /\ e.idx \in Nat /\ None \in KlassOrNone
  BY DEF Entries, KlassOrNone
<1>2. m.cache \in Caches /\ m.cache.cands \in Seq(Instances)
  BY DEF Models, Caches
<1>3. i \in InstOrNone
  BY <1>1, <1>2, LenProperties, ElementOfSeq DEF InstOrNone
<1>4. Restored(m, e)
        = [m EXCEPT !.roots = <<>>, !.rootsClass = None, !.idx = e.idx, !.cache = c]
  BY DEF Restored, Models, Caches
<1> HIDE DEF i
<1>5. c \in Caches
  BY <1>1, <1>2, <1>3 DEF Caches
<1>6. <<>> \in Seq(Instances)
  BY EmptySeq
<1> HIDE DEF c
<1> QED BY <1>1, <1>4, <1>5, <1>6 DEF Models

LEMMA RestoreKeeps ==
  ASSUME InspectorInv, TryApplyHistoryEntry
  PROVE  InspectorInv'
<1>1. PICK n \in DOMAIN history :
        /\ Restorable(history[n])
        /\ RestoreImage(history[n]) \/ RestoreClass(history[n]) \/ RestoreObject(history[n])
  BY DEF TryApplyHistoryEntry
<1> DEFINE e == history[n]
<1>2. e \in Entries
  BY LenProperties, ElementOfSeq DEF InspectorInv, DataOk
<1> HIDE DEF e
<1>3. e.cls \in KlassOrNone /\ e.inst \in InstOrNone /\ e.stack \in Seq(Crumbs)
  BY <1>2 DEF Entries
<1>4. Restored(model, e) \in Models /\ AfterJoin(Restored(model, e)) \subseteq Models
  BY <1>2, RestoredShape, JoinOk DEF InspectorInv, DataOk
<1>5. gate' \in InstOrNone => RestOk'
  BY ClickOk DEF TryApplyHistoryEntry, Click, InspectorInv, RestOk
<1>6. CASE RestoreImage(e)
  BY <1>5, <1>6, ClearOk DEF RestoreImage, TryApplyHistoryEntry, KlassOrNone, InstOrNone
<1>7. CASE RestoreClass(e)
  <2>1. ViewOk' /\ selectedClass' = e.cls
    BY <1>3, <1>7, EmptyStackOk DEF RestoreClass
  <2>2. JobsOk'
    BY <1>3, <1>7, <2>1, OnlySearchOk DEF RestoreClass
  <2>3. PICK m \in AfterJoin(Restored(model, e)) : model' \in {m, ClassLoaded(m, e.cls)}
    BY <1>7 DEF RestoreClass
  <2>4. model' \in Models
    BY <1>3, <1>4, <2>3, ClassLoadedShape
  <2>5. RestOk'
    BY <1>5, <1>7 DEF RestoreClass, InstOrNone
  <2> QED BY <2>1, <2>2, <2>4, <2>5 DEF TryApplyHistoryEntry, InspectorInv, DataOk
<1>8. CASE RestoreObject(e)
  <2> DEFINE top == IF e.stack = <<>> THEN Root(e.cls, e.inst) ELSE e.stack[Len(e.stack)]
  <2>1. top \in Crumbs /\ top.inst \in Instances
    <3>1. CASE e.stack = <<>>
      <4>1. e.inst \in Instances
        BY <1>3, <1>8, <3>1 DEF RestoreObject, InstOrNone
      <4> QED BY <1>3, <3>1, <4>1, CrumbShape DEF Root, InstOrNone
    <3>2. CASE e.stack # <<>>
      <4>1. Len(e.stack) \in DOMAIN e.stack /\ top \in Crumbs
        BY <1>3, <3>2, TopShape, LenProperties
      <4>2. e.stack[Len(e.stack)].inst \in live
        BY <1>1, <4>1 DEF Restorable, e
      <4> QED BY <3>2, <4>1, <4>2 DEF InspectorInv, RestOk
    <3> QED BY <3>1, <3>2
  <2>2. selectedClass' = top.klass /\ OnlyInspector(LoadOf(top)) /\ stack' = e.stack
    BY <1>8 DEF RestoreObject
  <2>3. selectedClass' \in KlassOrNone
    BY <2>1, <2>2 DEF Crumbs
  <2>4. ViewOk'
    BY <1>3, <2>2, <2>3 DEF ViewOk, SpecialServes, Special, Top
  <2>5. JobsOk'
    <3> HIDE DEF top
    <3> QED BY <2>1, <2>2, LoadOfShape, OnlyInspectorOk
  <2>6. model' \in Models
    BY <1>4, <1>8 DEF RestoreObject
  <2>7. RestOk'
    <3>1. Restored(model, e).cache.inst \in InstOrNone
      BY <1>4 DEF Models, Caches
    <3> QED BY <1>5, <1>8, <3>1 DEF RestoreObject
  <2> QED BY <2>4, <2>5, <2>6, <2>7 DEF TryApplyHistoryEntry, InspectorInv, DataOk
<1> QED BY <1>1, <1>6, <1>7, <1>8 DEF e

---------------------------------------------------------------------------
LEMMA InspectorStep == InspectorInv /\ [Next]_vars => InspectorInv'
<1> SUFFICES ASSUME InspectorInv, [Next]_vars PROVE InspectorInv'
  OBVIOUS
<1>1. CASE Workers \/ Collect
  BY <1>1, WorkersKeep
<1>2. CASE Frames
  BY <1>2, TickSampleKeeps, TickActKeeps, RecordKeeps DEF Frames
<1>3. CASE User
  BY <1>3, SelectImageKeeps, SelectClassKeeps, FindInstancesKeeps, SelectInstanceKeeps,
     DoRefreshKeeps, NavigationsKeep, SearchHitKeeps, BackKeeps, RestoreKeeps DEF User
<1>4. CASE UNCHANGED vars
  <2>1. RestOk' /\ DataOk'
    BY <1>4 DEF vars, InspectorInv, RestOk, DataOk
  <2> QED BY <1>4, <2>1, ViewUnchanged, JobsUnchanged DEF vars, InspectorInv
<1> QED BY <1>1, <1>2, <1>3, <1>4 DEF Next

(* The inductive invariant: shapes, the class of a collection crumb on top *)
(* and the class every writer works for.                                   *)
THEOREM InspectorInvariant == Spec => []InspectorInv
  BY InspectorInit, InspectorStep, PTL DEF Spec

(* Every variable keeps its shape, in particular every row, crumb and job  *)
(* names classes and objects that exist, and the history keeps its bound.  *)
THEOREM TypeCorrect == Spec => []TypeOK
  BY InspectorInvariant, InspectorInvTypes, PTL

(* Whatever is navigated, jumped back to or restored, every writer in      *)
(* flight works for the selected class, and the inspector and search       *)
(* workers never run together (CancelInspectorCacheWriters before every    *)
(* load).                                                                  *)
THEOREM WritersServe == Spec => []WritersServeSelection
  BY InspectorInvariant, InspectorInvTypes, PTL
=============================================================================
