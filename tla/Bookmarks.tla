------------------------------ MODULE Bookmarks ------------------------------
(***************************************************************************)
(* Where the inspector stands: its breadcrumbs (walker_controller.cpp),    *)
(* the bookmark made of them, what is left of it in bookmarks.json         *)
(* (session_persist.cpp), and how a later session of the game walks the    *)
(* same way from names alone.  Comparing two instances along the           *)
(* breadcrumbs (field_path_resolver.cpp) is here too.                      *)
(*                                                                         *)
(* The objects are those of ValueScan, whose hits can be opened.  A click  *)
(* acts on rows that are up to date and on a view that has been loaded     *)
(* (Inspector.tla has the loads), and a save is one step (WatchList.tla    *)
(* has the same file protocol).  Images and the names of bookmarks are     *)
(* left out; one bookmark stands for all, since they do not interact.      *)
(***************************************************************************)
EXTENDS ValueScan

CONSTANTS
  NoClass,      \* no class, or a class without a name
  Explored,     \* bound: the searches from which walks start
  MaxClicks,    \* bound: clicks on rows, one after a hit was opened
  MaxSessions   \* bound: sessions of the game

\* A name means one kind of field, and is used once in a class.
ASSUME PathAssumption ==
  /\ NoClass \notin ToSet(Klasses) /\ Explored # {}
  /\ \A k, l \in ToSet(Klasses) : \A m \in DOMAIN Fields[k], n \in DOMAIN Fields[l] :
       Fields[k][m].name = Fields[l][n].name => Fields[k][m].kind = Fields[l][n].kind /\ (k = l => m = n)
  /\ MaxClicks \in Nat /\ MaxSessions \in Nat \ {0}

VARIABLES
  stack,      \* walker.stack
  selected,   \* selectedClass
  compare,    \* rootInstanceClassPtr: whose instances Compare offers
  bookmark,   \* the bookmark: crumbs, root and top class by name
  file,       \* bookmarks.json
  outcome,    \* of the bookmark applied last: the result and the root it took
  opened,     \* history: the hit opened last, while nothing else was done
  meant,      \* history: what was bookmarked, as the fields and indices clicked
  clicks,     \* the bounded counter, down
  session

walk == <<stack, selected, compare, bookmark, file, outcome, opened, meant, clicks, session>>
allVars == <<vars, walk>>

None == ""        \* no name, no index
NoBookmark == [crumbs |-> <<>>, root |-> NoClass, class |-> NoClass]
NoOutcome == [result |-> "none", root |-> Null]
NoHit == <<>>
NoMeaning == [root |-> NoClass, steps |-> <<>>]

WalkInit ==
  /\ Init
  /\ stack = <<>> /\ selected = NoClass /\ compare = NoClass
  /\ bookmark = NoBookmark /\ file = NoBookmark /\ outcome = NoOutcome
  /\ opened = NoHit /\ meant = NoMeaning /\ clicks = MaxClicks /\ session = 1

---------------------------------------------------------------------------
(***************************************************************************)
(* Breadcrumbs.  A crumb shows an object, the elements of a list or the    *)
(* members of a struct in a list; the latter two keep the address of the   *)
(* list field.  A label is a field name or an index, without the type and  *)
(* value shown after it.                                                   *)
(***************************************************************************)
Top(st) == st[Len(st)]

ObjectCrumb(klass, inst, label) ==
  [is |-> "object", klass |-> klass, inst |-> inst, label |-> label, field |-> None,
   index |-> None, src |-> <<>>]

FieldsOf(klass, inst) == GetRawFields(klass, inst, <<>>)
FindFieldByName(rows, name) == Named(rows, <<name>>)

\* The list field a crumb was made of, read again.
Source(crumb) ==
  LET i == crumb.src[1]
  IN CHOOSE r \in ToSet(FieldsOf(ClassOf[i], i)) : r.at = crumb.src

ElementAt(list, index) == {e \in ToSet(GetCollectionView(list, Len(Index))) : Last(e.name) = index}

\* LoadOwnerFields: the object whose fields a crumb shows, none if it is gone.
Owner(crumb) ==
  CASE crumb.is = "slot" -> {[klass |-> e.of, inst |-> e.val] : e \in ElementAt(Source(crumb), crumb.index)}
    [] OTHER -> {[klass |-> crumb.klass, inst |-> crumb.inst]}

OwnerFields(crumb) == UNION {ToSet(FieldsOf(o.klass, o.inst)) : o \in Owner(crumb)}

\* The rows of the Fields tab.
ShownRows(crumb) ==
  IF crumb.is = "collection" THEN ToSet(GetCollectionView(Source(crumb), Len(Index)))
  ELSE OwnerFields(crumb)

\* Pushes: the new stack, or none where the code returns false.
PushPointerCrumb(st, row) ==
  IF row.kind = "ptr" /\ row.val # Null
  THEN {Append(st, ObjectCrumb(ClassOf[row.val], row.val, Last(row.name)))} ELSE {}

PushCollectionCrumb(st, row, klass, inst) ==
  IF row.kind = "list"
  THEN {Append(st, [is |-> "collection", klass |-> klass, inst |-> inst, label |-> Last(row.name),
                    field |-> Last(row.name), index |-> None, src |-> row.at])}
  ELSE {}

PushValueTypeSlotCrumb(st, index) ==
  {Append(st, [Top(st) EXCEPT !.is = "slot", !.label = index, !.index = index])}

PushElement(st, element) ==
  IF element.kind = "struct" THEN PushValueTypeSlotCrumb(st, Last(element.name))
  ELSE PushPointerCrumb(st, element)

\* Every push of an object crumb selects its class; the others leave it.
SelectedBy(st) ==
  LET objects == {n \in DOMAIN st : st[n].is = "object"}
  IN st[CHOOSE n \in objects : \A m \in objects : m <= n].klass

Root(klass, inst) == <<ObjectCrumb(klass, inst, ClassOf[inst])>>

---------------------------------------------------------------------------
(***************************************************************************)
(* Clicks.                                                                 *)
(***************************************************************************)
CanWalk == params \in Explored /\ usable

Shows(st) ==
  /\ stack' = st /\ selected' = SelectedBy(st)
  /\ UNCHANGED <<vars, bookmark, file, outcome, meant, session>>

\* An instance is found for a class and picked: the root of a walk.
SelectInstance(klass, i) ==
  /\ CanWalk /\ phase = "ready"
  /\ stack = <<>> \/ bookmark # NoBookmark
  /\ Shows(Root(klass, i)) /\ compare' = klass /\ opened' = NoHit
  /\ UNCHANGED clicks

Click(pushed) ==
  /\ clicks > 0 /\ bookmark = NoBookmark
  /\ \E st \in pushed : Shows(st)
  /\ clicks' = clicks - 1 /\ opened' = NoHit
  /\ UNCHANGED compare

NavigateIntoPointer ==
  stack # <<>> /\ \E r \in ShownRows(Top(stack)) : Click(PushPointerCrumb(stack, r))

NavigateIntoCollection ==
  /\ stack # <<>>
  /\ \E r \in ShownRows(Top(stack)) : Click(PushCollectionCrumb(stack, r, selected, Top(stack).inst))

NavigateIntoValueTypeSlot ==
  /\ stack # <<>> /\ Top(stack).is = "collection"
  /\ \E e \in ShownRows(Top(stack)) : e.kind = "struct" /\ Click(PushValueTypeSlotCrumb(stack, Last(e.name)))

MutOpenElement(st, list, index) == PushCollectionCrumb(st, list, Top(st).klass, Top(st).inst)

\* TryOpenCollectionElementPath: the element is opened if it can be, else the list.
OpenElement(st, list, index) ==
  UNION {UNION {IF PushElement(open, e) = {} THEN {open} ELSE PushElement(open, e) :
                  e \in ElementAt(list, index)} :
           open \in PushCollectionCrumb(st, list, Top(st).klass, Top(st).inst)}

RECURSIVE ApplySearchHitPath(_, _)
ApplySearchHitPath(st, path) ==
  LET rows  == FieldsOf(Top(st).klass, Top(st).inst)
      first == FindFieldByName(rows, Head(path))
      elementPath == Len(path) \in {2, 3} /\ IsIndex(path[2]) /\ (Len(path) = 3 => ~IsIndex(path[3]))
  IN IF Named(rows, path) \cup ResolveLeaf(rows, path, 1) # {} THEN {st}
     ELSE IF elementPath
     THEN UNION {OpenElement(st, list, path[2]) : list \in {r \in first : r.kind = "list"}}
     ELSE IF Len(path) = 1 THEN {}
     ELSE UNION {UNION {ApplySearchHitPath(open, Tail(path)) : open \in PushPointerCrumb(st, r)} : r \in first}

\* What cannot be opened shows the object the hit was found in.
NavigateToValueSearchHit(n) ==
  /\ CanWalk /\ phase = "found" /\ clicks = MaxClicks
  /\ LET root   == Root(hits[n].klass, hits[n].inst)
         found  == ApplySearchHitPath(root, hits[n].name)
     IN \E st \in IF found = {} THEN {root} ELSE found : Shows(st)
  /\ opened' = <<n>> /\ clicks' = 1
  /\ UNCHANGED compare

---------------------------------------------------------------------------
(***************************************************************************)
(* Bookmarks.                                                              *)
(***************************************************************************)
\* StampBookmarkNamedPath: every hop gets the name or the index it can be
\* found by again.
Stamped(crumbs) ==
  [n \in DOMAIN crumbs |->
     LET c == crumbs[n]
         inList == n > 1 /\ crumbs[n - 1].is = "collection"
     IN CASE n > 1 /\ c.is = "object" /\ inList /\ IsIndex(c.label) -> [c EXCEPT !.index = c.label]
          [] n > 1 /\ c.is = "object" /\ ~inList /\ c.field = None /\ ~IsIndex(c.label) ->
               [c EXCEPT !.field = c.label]
          [] OTHER -> c]

\* A class has a name while it is on the sidebar's list.  The class on top is
\* otherwise known by its object, the class of the root is not known at all.
Snapshot(st, listed) ==
  [crumbs |-> Stamped(st),
   root  |-> IF st[1].klass \in listed THEN st[1].klass ELSE NoClass,
   class |-> IF Top(st).klass \in listed THEN Top(st).klass ELSE ClassOf[Top(st).inst]]

\* SaveBookmarks: stamped again, and written without objects and addresses.
BuildBookmarksJson(b) ==
  LET crumbs == Stamped(b.crumbs)
  IN [b EXCEPT !.crumbs = [n \in DOMAIN crumbs |->
        [is |-> crumbs[n].is, label |-> crumbs[n].label, index |-> crumbs[n].index,
         field |-> IF n > 1 THEN crumbs[n].field ELSE None]]]

\* The objects of a loaded bookmark are yet to be found.
BookmarkFromRecipe(recipe) ==
  [recipe EXCEPT !.crumbs = [n \in DOMAIN recipe.crumbs |->
     LET c == recipe.crumbs[n]
     IN [is |-> c.is, klass |-> NoClass, inst |-> Null, label |-> c.label, field |-> c.field,
         index |-> c.index, src |-> <<>>]]]

Steps(st) == [n \in 1..(Len(st) - 1) |->
                [to |-> st[n + 1].is,
                 name |-> IF st[n + 1].is = "collection" THEN Last(st[n + 1].src) ELSE st[n + 1].label]]

Listed == {{}, ToSet(Klasses)}

BookmarkCurrentView ==
  /\ bookmark = NoBookmark /\ stack # <<>> /\ session = 1
  /\ \E listed \in Listed : bookmark' = Snapshot(stack, listed)
  /\ file' = BuildBookmarksJson(bookmark')
  /\ meant' = [root |-> bookmark'.root, steps |-> Steps(stack)]
  /\ opened' = NoHit
  /\ UNCHANGED <<vars, stack, selected, compare, outcome, clicks, session>>

\* Delete, Clear all and the star of a view that is bookmarked.
RemoveBookmark ==
  /\ bookmark # NoBookmark
  /\ bookmark' = NoBookmark /\ file' = NoBookmark /\ meant' = NoMeaning
  /\ UNCHANGED <<vars, stack, selected, compare, outcome, opened, clicks, session>>

\* A change of another bookmark, or of this one's name, saves them all.
RenameBookmark ==
  /\ bookmark # NoBookmark
  /\ file' = BuildBookmarksJson(bookmark)
  /\ UNCHANGED <<vars, stack, selected, compare, bookmark, outcome, opened, meant, clicks, session>>

---------------------------------------------------------------------------
(***************************************************************************)
(* A recipe is walked.                                                     *)
(***************************************************************************)
IsRecipe(b) == \E n \in DOMAIN b.crumbs : b.crumbs[n].inst = Null

\* BookmarkRecipeHopsAreReplayable
HopIsReplayable(hop, parent) ==
  CASE hop.is = "collection" -> hop.field # None /\ ~IsIndex(hop.field)
    [] hop.is = "slot"       -> parent.is = "collection" /\ (hop.index # None \/ IsIndex(hop.label))
    [] parent.is = "collection" -> IsIndex(hop.label) \/ hop.index # None
    [] OTHER                 -> hop.field # None /\ ~IsIndex(hop.field)

HopsAreReplayable(crumbs) == \A n \in 2..Len(crumbs) : HopIsReplayable(crumbs[n], crumbs[n - 1])

ReplayOneHop(st, hop) ==
  LET parent == Top(st)
      fields == {r \in OwnerFields(parent) : r.name = <<hop.field>>}
      slotIndex == IF hop.index # None THEN hop.index ELSE hop.label
      index  == IF IsIndex(hop.label) THEN hop.label ELSE hop.index
  IN CASE hop.is = "collection" -> UNION {PushCollectionCrumb(st, r, parent.klass, parent.inst) : r \in fields}
       [] hop.is = "slot" -> UNION {PushValueTypeSlotCrumb(st, slotIndex) : e \in ElementAt(Source(parent), slotIndex)}
       [] hop.is = "object" /\ parent.is = "collection" ->
            UNION {PushPointerCrumb(st, e) : e \in ElementAt(Source(parent), index)}
       [] OTHER -> UNION {PushPointerCrumb(st, r) : r \in fields}

Replay(root, hops) ==
  FoldLeft(LAMBDA sts, hop : UNION {ReplayOneHop(st, hop) : st \in sts}, {root}, hops)

\* A path needs the name of its root class, an object alone that of its class.
RootClass(b) ==
  IF b.root # NoClass THEN b.root ELSE IF Len(b.crumbs) <= 1 THEN b.class ELSE NoClass

\* Everything that was set on the way is put back.
Fails(result, root) ==
  /\ outcome' = [result |-> result, root |-> root]
  /\ UNCHANGED <<stack, selected, compare, bookmark>>

MutRelinkForgetsRoot(st, listed) == Snapshot(st, listed)

\* The bookmark holds the objects it was relinked to from now on; a root class
\* that has no name now keeps the one it had.
Relink(st, listed) ==
  LET snap == Snapshot(st, listed)
  IN [snap EXCEPT !.root = IF @ = NoClass THEN bookmark.root ELSE @]

\* TryReplayBookmarkRecipe: the first live instance of the root class is the
\* root, whichever that is by then; the class list may not be there yet.
ReplayBookmark ==
  /\ bookmark # NoBookmark /\ IsRecipe(bookmark)
  /\ \/ /\ RootClass(bookmark) = NoClass \/ ~HopsAreReplayable(bookmark.crumbs)
        /\ Fails("refused", Null)
     \/ /\ RootClass(bookmark) # NoClass /\ HopsAreReplayable(bookmark.crumbs)
        /\ \/ Fails("unresolved", Null)
           \/ \E i \in ToSet(Candidates[RootClass(bookmark)]) :
                LET found == Replay(Root(RootClass(bookmark), i), Tail(bookmark.crumbs))
                IN \/ found = {} /\ Fails("broken", i)
                   \/ \E st \in found, listed \in Listed :
                        /\ stack' = st /\ selected' = SelectedBy(st)
                        /\ compare' = RootClass(bookmark)
                        /\ bookmark' = Relink(st, listed)
                        /\ outcome' = [result |-> "relinked", root |-> i]
  /\ opened' = NoHit
  /\ UNCHANGED <<vars, file, meant, clicks, session>>

\* A bookmark of this session goes back to its very objects.
RestoreBookmark ==
  /\ bookmark # NoBookmark /\ ~IsRecipe(bookmark)
  /\ stack' = bookmark.crumbs /\ selected' = Top(bookmark.crumbs).klass /\ compare' = NoClass
  /\ outcome' = [result |-> "applied", root |-> stack'[1].inst]
  /\ opened' = NoHit
  /\ UNCHANGED <<vars, bookmark, file, meant, clicks, session>>

\* The game starts again, with other objects: LoadInto.
NextSession ==
  /\ session < MaxSessions /\ file # NoBookmark
  /\ session' = session + 1
  /\ heap' \in Heaps
  /\ bookmark' = BookmarkFromRecipe(file)
  /\ stack' = <<>> /\ selected' = NoClass /\ compare' = NoClass
  /\ outcome' = NoOutcome /\ opened' = NoHit /\ clicks' = MaxClicks
  /\ params' = CHOOSE p \in Explored : TRUE
  /\ phase' = "ready" /\ baseline' = <<>> /\ hits' = <<>> /\ capped' = FALSE /\ writes' = 0
  /\ UNCHANGED <<usable, file, meant>>

---------------------------------------------------------------------------
(***************************************************************************)
(* Two instances are compared along the breadcrumbs.                       *)
(***************************************************************************)
BuildFieldPathSteps(st) ==
  [n \in 1..(Len(st) - 1) |->
     LET c == st[n + 1] IN [collection |-> c.is = "collection",
                            name |-> IF c.is = "collection" THEN c.field ELSE c.label]]

MutRootKlass(i) == compare

\* The class to read the root with: the one its header names.
RootKlass(i) == ClassOf[i]

\* The value found, none if an error is shown.
ResolvePathValue(i, steps, index, leaf) ==
  LET Field(owners, name) == UNION {FindFieldByName(FieldsOf(o.klass, o.inst), name) : o \in owners}
      Follow(owners, step) ==
        {[klass |-> ClassOf[r.val], inst |-> r.val] :
           r \in {f \in Field(owners, step.name) : f.kind = "ptr" /\ f.val # Null}}
      Walked(n) == FoldLeft(Follow, {[klass |-> RootKlass(i), inst |-> i]}, SubSeq(steps, 1, n))
      lists == {n \in DOMAIN steps : steps[n].collection}
  IN CASE lists = {} -> {r.val : r \in Field(Walked(Len(steps)), leaf)}
       [] lists = {Len(steps)} ->
            {e.val : e \in UNION {ElementAt(r, index) :
                                   r \in Field(Walked(Len(steps) - 1), steps[Len(steps)].name)}}
       [] OTHER -> {}

\* The two numbers of the panel, whatever list they were chosen from, made to
\* name two of the n instances offered now.
PickPair(a, b, n) ==
  LET first  == IF a \in 0..n - 1 THEN a ELSE 0
      second == IF b \in 0..n - 1 THEN b ELSE 1
  IN <<first, IF second = first THEN (first + 1) % n ELSE second>>

\* Both values, and whether the rows are coloured: not if one is missing.
BuildPathCompareSnapshot(i, j, steps, index, leaf) ==
  LET a == ResolvePathValue(i, steps, index, leaf)
      b == ResolvePathValue(j, steps, index, leaf)
  IN [a |-> a, b |-> b, differs |-> a # {} /\ b # {} /\ a # b]

\* The fields of the selected class, matched by name; one that only the other
\* instance has is a row too.
BuildClassCompareRows(klass, i, j) ==
  LET Vals(n, rows) == {r.val : r \in {q \in ToSet(rows) : q.name = n}}
      rowsA == FieldsOf(klass, i)
      rowsB == FieldsOf(klass, j)
  IN {[name |-> r.name, differs |-> Vals(r.name, rowsA) # Vals(r.name, rowsB)] :
        r \in ToSet(rowsA) \cup ToSet(rowsB)}

---------------------------------------------------------------------------
\* A search runs before anything is clicked.
Scan ==
  /\ session = 1 /\ clicks = MaxClicks /\ bookmark = NoBookmark
  /\ stack # <<>> => CanWalk /\ phase = "ready"
  /\ Next /\ UNCHANGED walk

WalkNext ==
  \/ Scan
  \/ \E k \in ToSet(Klasses) : \E i \in ToSet(Candidates[k]) : SelectInstance(k, i)
  \/ NavigateIntoPointer \/ NavigateIntoCollection \/ NavigateIntoValueTypeSlot
  \/ \E n \in DOMAIN hits : NavigateToValueSearchHit(n)
  \/ BookmarkCurrentView \/ RemoveBookmark \/ RenameBookmark
  \/ ReplayBookmark \/ RestoreBookmark
  \/ NextSession

WalkSpec == WalkInit /\ [][WalkNext]_allVars

---------------------------------------------------------------------------
(***************************************************************************)
(* What walks promise, stated over the objects: a place is an object or a  *)
(* list, and a step leads from it along a field or an index.               *)
(***************************************************************************)
ObjectAt(v) == IF v = Null THEN {} ELSE {[klass |-> ClassOf[v], inst |-> v]}
IsList(place) == "list" \in DOMAIN place

Hop(place, step) ==
  CASE step.to = "collection" ->
         IF IsList(place) THEN {}
         ELSE {[list |-> <<place.inst, f.name>>] : f \in {g \in ToSet(Fields[place.klass]) :
                                                          g.name = step.name /\ g.kind = "list"}}
    [] IsList(place) ->
         LET elements == heap[place.list[1]][place.list[2]]
         IN UNION {ObjectAt(elements[n]) : n \in {m \in DOMAIN elements : Index[m] = step.name}}
    [] OTHER -> IF \E n \in DOMAIN Fields[place.klass] : Fields[place.klass][n].name = step.name
                THEN ObjectAt(heap[place.inst][step.name]) ELSE {}

Place(klass, i, steps) ==
  FoldLeft(LAMBDA places, step : UNION {Hop(p, step) : p \in places}, {[klass |-> klass, inst |-> i]}, steps)

ViewOf(crumb) == IF crumb.is = "collection" THEN {[list |-> crumb.src]} ELSE Owner(crumb)

\* A search hit that is opened is on display: if its name, read as the drill
\* reads it, denotes a slot now, the view shows that slot, or the object an
\* element of a list refers to; the walk starts at the object of the hit.
HitOpensItsRow ==
  opened # NoHit =>
    LET h == hits[opened[1]]
        now == ResolveSearchField(GetRawFields(h.klass, h.inst, <<>>), h.name, 1)
    IN /\ stack[1].klass = h.klass /\ stack[1].inst = h.inst
       /\ \A r \in now :
            \/ \E s \in ShownRows(Top(stack)) : r.at \in {s.at, Append(s.at, "x")}
            \/ IsIndex(Last(r.name)) /\ ViewOf(Top(stack)) = ObjectAt(r.val)

\* A bookmark leads back in a later session.  Applied, it walks from the root
\* the game offers then to the place where the bookmarked fields and indices
\* lead from there, and what the next save writes leads the same way; it gives
\* up only when there is no such place, and then nothing has moved.  It is
\* never refused for what it stored, if its root class had a name.
BookmarkLeadsBack ==
  [][outcome' # outcome /\ meant.root # NoClass =>
       LET place == Place(meant.root, outcome'.root, meant.steps)
           Way(b) == [n \in 2..Len(b.crumbs) |-> [is |-> b.crumbs[n].is, field |-> b.crumbs[n].field,
                                                 index |-> b.crumbs[n].index]]
       IN /\ outcome'.result # "refused"
          /\ outcome'.result = "relinked" =>
               /\ stack'[1].klass = meant.root /\ ViewOf(Top(stack))' = place
               /\ RootClass(BuildBookmarksJson(bookmark')) = meant.root /\ Way(BuildBookmarksJson(bookmark')) = Way(file)
          /\ outcome'.result = "broken" => place = {} /\ UNCHANGED <<stack, selected, compare, bookmark>>
    ]_outcome

\* Compare is about two instances, whichever numbers are left from a longer
\* list.  Along the breadcrumbs it shows for each the value at the place where
\* they lead from it, an error exactly if there is none or a list has been
\* passed on the way, and a difference exactly if both have one and they are
\* not the same; at the root, the fields of the class that differ.
CompareFollowsThePath ==
  LET pairs == {p \in ToSet(Candidates[compare]) \X ToSet(Candidates[compare]) : p[1] # p[2]}
      steps == Steps(stack)
      passed == \E n \in 1..(Len(steps) - 1) : steps[n].to = "collection"
      At(i, leaf) ==
        IF passed THEN {}
        ELSE UNION {IF IsList(p)
                    THEN LET e == heap[p.list[1]][p.list[2]] IN {e[n] : n \in {m \in DOMAIN e : Index[m] = leaf}}
                    ELSE {heap[p.inst][f.name] : f \in {g \in ToSet(Fields[p.klass]) : g.name = leaf}} :
                      p \in Place(ClassOf[i], i, steps)}
  IN /\ \A n \in 2..3, a \in -1..3, b \in -1..3 :
          LET p == PickPair(a, b, n)
          IN p[1] # p[2] /\ \A x \in {1, 2} : p[x] \in 0..n - 1 /\ (a # b /\ {a, b} \subseteq 0..n - 1 => p = <<a, b>>)
     /\ Len(stack) = 1 /\ compare # NoClass =>
          \A p \in pairs :
            {r.name : r \in {q \in BuildClassCompareRows(compare, p[1], p[2]) : q.differs}}
              = {<<f.name>> : f \in {g \in ToSet(Fields[compare]) : heap[p[1]][g.name] # heap[p[2]][g.name]}}
     /\ Len(stack) > 1 /\ compare # NoClass =>
          \A leaf \in {Last(r.name) : r \in ShownRows(Top(stack))}, p \in pairs :
            LET c == BuildPathCompareSnapshot(p[1], p[2], BuildFieldPathSteps(stack), leaf, leaf)
            IN /\ c.a = At(p[1], leaf) /\ c.b = At(p[2], leaf)
               /\ c.differs = (At(p[1], leaf) # {} /\ At(p[2], leaf) # {} /\ At(p[1], leaf) # At(p[2], leaf))
=============================================================================
