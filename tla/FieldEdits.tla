----------------------------- MODULE FieldEdits -----------------------------
(***************************************************************************)
(* Values are edited, refreshed and compared with a snapshot in the Fields *)
(* and Analysis tabs (src/gui/views/inspector/fields_tab.cpp,              *)
(* src/gui/views/fields/field_edit_cells.cpp, analysis_tab.cpp and         *)
(* field_snapshot_model.cpp), while the game goes on and loaders replace   *)
(* the rows.  A row carries the address it was read at.  The elements of a *)
(* list move when the game grows or trims it, and the memory they leave is *)
(* used again; writes and "Add element" therefore look at the list first   *)
(* (src/dumper/instances/collection_view.cpp), one read after the other.   *)
(*                                                                         *)
(* The objects are of one class, with a number and a List of numbers.  How *)
(* an object gets on display is in Inspector: here objects are picked at   *)
(* the root, and one list can be opened.  Rows of enums, strings, structs  *)
(* are edited like numbers.  Loads that fail are left out.                 *)
(*                                                                         *)
(* A text is in two places: in the store, under the address of its value,  *)
(* and, while it is being typed, in the input widget, which ImGui knows by *)
(* the index of the row.  The widget's text comes first: whenever the row  *)
(* is drawn it is stored under the address that the row has by then.       *)
(***************************************************************************)
EXTENDS Naturals, Sequences, FiniteSets, TLC

CONSTANTS
  Owners, Null,
  Holders,     \* the objects whose List is not null
  Arrays,      \* the places in memory where elements are put
  Capacities,  \* lengths of arrays
  Numbers,     \* values, and what is typed
  Number0,     \* the numbers of the objects at first
  Size0,       \* the lengths of their lists
  MaxGame,     \* bound of the model: steps of the game
  MaxClicks    \* bound of the model: clicks of the user

ASSUME EditAssumption ==
  /\ Null \notin Owners /\ Holders \subseteq Owners
  /\ IsFiniteSet(Holders) /\ IsFiniteSet(Arrays) /\ Cardinality(Arrays) > Cardinality(Holders)
  /\ Capacities \subseteq Nat /\ Numbers \subseteq Nat /\ MaxGame \in Nat /\ MaxClicks \in Nat
  /\ Number0 \in [Owners -> Numbers] /\ Size0 \in Capacities

VARIABLES
  lists,      \* the header of each List: _items and _size
  arrays,     \* the elements at each place; its length is the array's
  number,     \* the number of each object
  active,     \* inspector.cache.activeInstancePtr
  loadedFor,  \* inspector.cache.fieldsLoadedForInstance
  rows,       \* inspector.cache.fields, and the place they show
  view,       \* walker.stack: the object at the root, and the one whose List is open
  fieldsJob, viewJob,   \* the two loaders
  frame,      \* "tick", "copy", "tab": where the GUI thread is in its frame
  drawn,      \* inspectorSnapshot, the rows the frame draws
  calm,       \* history: nothing has been published since the frame began
  buffers,    \* editBufferStore: for an address a text, and whose it is
  typing,     \* the active input: its row, its text, and whose it is
  click,      \* an edit or "Add element" on its way
  snapshot, showChanges, diff,
  games, pressed

heap  == <<lists, arrays, number>>
cache == <<active, loadedFor, rows>>
loaders  == <<fieldsJob, viewJob>>
study == <<snapshot, showChanges, diff>>
editVars == <<heap, cache, view, loaders, frame, drawn, calm, buffers, typing, click, study, games, pressed>>

Place(o, list) == [of |-> o, list |-> list]
Places == [of : Owners, list : BOOLEAN]
Displayed(v) == IF v.list = Null THEN Place(v.root, FALSE) ELSE Place(v.list, TRUE)
Cells  == [object : Owners] \cup [array : Arrays, index : Nat \ {0}]
NoJob   == [is |-> "none", place |-> Null, rows |-> <<>>]
NoClick == [step |-> "none", list |-> Null]
NoTyping == [row |-> 0, text |-> 0, cell |-> Null, carried |-> FALSE]
NoBaseline == [values |-> <<>>, scope |-> Null, of |-> Null]
NoDiff     == [tints |-> <<>>, of |-> Null]

Row == [name : Nat, at : Cells, shown : Numbers]
View == [place : Places, list : Seq(Row)]
LoaderStates == [is : {"none", "started", "read"}, place : Places \cup {Null}, rows : Seq(Row)]

EditTypeOK ==
  /\ lists \in [Holders -> [items : Arrays, size : Nat]]
  /\ arrays \in [Arrays -> Seq(Numbers)] /\ number \in [Owners -> Numbers]
  /\ active \in Owners /\ loadedFor \in Owners /\ rows \in View /\ view \in [root : Owners, list : Owners \cup {Null}]
  /\ fieldsJob \in LoaderStates /\ viewJob \in LoaderStates
  /\ frame \in {"tick", "copy", "tab"} /\ drawn \in View /\ calm \in BOOLEAN
  /\ DOMAIN buffers \subseteq Cells
  /\ \A at \in DOMAIN buffers : buffers[at] \in [text : Numbers, cell : Cells, carried : BOOLEAN]
  /\ typing = NoTyping \/ typing \in [row : Nat \ {0}, text : Numbers, cell : Cells, carried : BOOLEAN]
  /\ click.step \in {"none", "items", "size", "length", "write"}
  /\ showChanges \in BOOLEAN /\ games \in 0..MaxGame /\ pressed \in 0..MaxClicks

Smaller(a, b) == IF a < b THEN a ELSE b
InUse == {lists[o].items : o \in Holders}

---------------------------------------------------------------------------
\* GetRawFields: one row that can be edited; the List is a link.
GetRawFields(o) == <<[name |-> 0, at |-> [object |-> o], shown |-> number[o]]>>

\* GetCollectionView: never more rows than the array has elements.
GetCollectionView(o) ==
  IF o \notin Holders THEN <<>>
  ELSE LET a == lists[o].items
       IN [i \in 1..Smaller(lists[o].size, Len(arrays[a])) |->
             [name |-> i, at |-> [array |-> a, index |-> i], shown |-> arrays[a][i]]]

RowsOf(place) == IF place.list THEN GetCollectionView(place.of) ELSE GetRawFields(place.of)

EditInit ==
  /\ LET a == CHOOSE f \in [Holders -> Arrays] : \A o, p \in Holders : o # p => f[o] # f[p]
     IN /\ lists = [o \in Holders |-> [items |-> a[o], size |-> Size0]]
        /\ arrays = [b \in Arrays |-> IF b \in InUse THEN [i \in 1..Size0 |-> CHOOSE v \in Numbers : TRUE] ELSE <<>>]
  /\ number = Number0
  /\ active \in Owners /\ loadedFor = active /\ view = [root |-> active, list |-> Null]
  /\ rows = [place |-> Displayed(view), list |-> RowsOf(Displayed(view))] /\ drawn = rows
  /\ fieldsJob = NoJob /\ viewJob = NoJob
  /\ frame = "tick" /\ calm = TRUE /\ buffers = <<>> /\ typing = NoTyping /\ click = NoClick
  /\ snapshot = NoBaseline /\ showChanges = FALSE /\ diff = NoDiff
  /\ games = 0 /\ pressed = 0

---------------------------------------------------------------------------
(***************************************************************************)
(* The game, on its own threads.                                           *)
(***************************************************************************)
\* What is clicked at this moment is no longer of an undisturbed list.
Disturbs(o) == click' = IF click # NoClick /\ click.list = o THEN [click EXCEPT !.calm = FALSE] ELSE click

GameStep ==
  /\ games < MaxGame /\ games' = games + 1
  /\ UNCHANGED <<cache, view, loaders, frame, drawn, calm, buffers, typing, study, pressed>>

\* The elements are copied to a place that is not in use.
Moves(o, elements, size) ==
  \E a \in Arrays \ InUse :
    /\ arrays' = [arrays EXCEPT ![a] = elements]
    /\ lists' = [lists EXCEPT ![o] = [items |-> a, size |-> size]]

Add(o, v) ==
  LET l == lists[o]
      e == arrays[l.items]
  IN /\ IF l.size < Len(e)
        THEN /\ arrays' = [arrays EXCEPT ![l.items][l.size + 1] = v]
             /\ lists' = [lists EXCEPT ![o].size = @ + 1]
        ELSE l.size = Len(e) /\ Len(e) + 1 \in Capacities /\ Moves(o, Append(e, v), l.size + 1)
     /\ UNCHANGED number

RemoveLast(o) ==
  /\ lists[o].size > 0
  /\ lists' = [lists EXCEPT ![o].size = @ - 1]
  /\ UNCHANGED <<arrays, number>>

TrimExcess(o) ==
  LET l == lists[o] IN /\ l.size < Len(arrays[l.items])
                       /\ Moves(o, SubSeq(arrays[l.items], 1, l.size), l.size)
                       /\ UNCHANGED number

SetNumber(o, v) == number' = [number EXCEPT ![o] = v] /\ number' # number /\ UNCHANGED <<lists, arrays>>

GameActs ==
  /\ \/ \E o \in Holders :
          /\ (\E v \in Numbers : Add(o, v)) \/ RemoveLast(o) \/ TrimExcess(o)
          /\ Disturbs(o)
     \/ \E o \in Owners, v \in Numbers : SetNumber(o, v) /\ UNCHANGED click
  /\ GameStep

---------------------------------------------------------------------------
(***************************************************************************)
(* The loaders.  The one of the fields takes the active object when it     *)
(* begins; the other one also sets it.                                     *)
(***************************************************************************)
ReadFields ==
  /\ fieldsJob.is = "started"
  /\ fieldsJob' = [is |-> "read", place |-> Place(active, FALSE), rows |-> GetRawFields(active)]
  /\ UNCHANGED <<heap, cache, view, viewJob, frame, drawn, calm, buffers, typing, click, study, games, pressed>>

PublishFields ==
  /\ fieldsJob.is = "read" /\ fieldsJob' = NoJob
  /\ rows' = [place |-> fieldsJob.place, list |-> fieldsJob.rows]
  /\ loadedFor' = fieldsJob.place.of /\ calm' = FALSE
  /\ UNCHANGED <<heap, active, view, viewJob, frame, drawn, buffers, typing, click, study, games, pressed>>

ReadView ==
  /\ viewJob.is = "started"
  /\ viewJob' = [viewJob EXCEPT !.is = "read", !.rows = RowsOf(viewJob.place)]
  /\ UNCHANGED <<heap, cache, view, fieldsJob, frame, drawn, calm, buffers, typing, click, study, games, pressed>>

\* The owner of a list is the object that was active when it was opened.
PublishView ==
  /\ viewJob.is = "read" /\ viewJob' = NoJob
  /\ rows' = [place |-> viewJob.place, list |-> viewJob.rows]
  /\ active' = IF viewJob.place.list THEN active ELSE viewJob.place.of
  /\ loadedFor' = active' /\ calm' = FALSE
  /\ UNCHANGED <<heap, view, fieldsJob, frame, drawn, buffers, typing, click, study, games, pressed>>

fieldsBusy == fieldsJob # NoJob \/ viewJob # NoJob

StartFieldsLoad == fieldsJob' = [NoJob EXCEPT !.is = "started"] /\ UNCHANGED viewJob

\* The loads under way are stopped; what they would have published is not missed.
StartViewLoad(place) == fieldsJob' = NoJob /\ viewJob' = [NoJob EXCEPT !.is = "started", !.place = place]

\* A search for instances ends: another object is active, with the old rows.
InstancesFound ==
  /\ view.list = Null /\ viewJob = NoJob /\ pressed < MaxClicks /\ pressed' = pressed + 1
  /\ \E o \in Owners : active' = o /\ o # active
  /\ calm' = FALSE
  /\ UNCHANGED <<heap, loadedFor, rows, view, loaders, frame, drawn, buffers, typing, click, study, games>>

---------------------------------------------------------------------------
(***************************************************************************)
(* A frame: what is missing is loaded, the rows are copied, and one of the *)
(* two tabs is drawn, in which the user may click once.                    *)
(***************************************************************************)
\* TickPresentSideEffects
Tick ==
  /\ frame = "tick" /\ frame' = "copy" /\ calm' = TRUE
  /\ IF view.list = Null /\ ~fieldsBusy /\ active # loadedFor THEN StartFieldsLoad ELSE UNCHANGED loaders
  /\ UNCHANGED <<heap, cache, view, drawn, buffers, typing, click, study, games, pressed>>

\* Whether a row shows the place that it showed in the last frame.
SameRow(i) == i \in DOMAIN drawn.list /\ drawn.list[i].at = rows.list[i].at

\* GetInspectorSnapshot.  (History: another row comes under the text being typed.)
CopyRows ==
  /\ frame = "copy" /\ frame' = "tab"
  /\ drawn' = rows
  /\ typing' = IF typing.row \in DOMAIN rows.list THEN [typing EXCEPT !.carried = @ \/ ~SameRow(typing.row)] ELSE typing
  /\ UNCHANGED <<heap, cache, view, loaders, calm, buffers, click, study, games, pressed>>

\* What a text is kept under: the address of the value.
BufferKey(row) == row.at

\* The cells are drawn: one without a text gets the value on display.
Filled(texts, list) ==
  LET empty == {i \in DOMAIN list : BufferKey(list[i]) \notin DOMAIN texts}
      RowOf(key) == CHOOSE i \in empty : BufferKey(list[i]) = key
  IN [key \in DOMAIN texts \cup {BufferKey(list[i]) : i \in empty} |->
        IF key \in DOMAIN texts THEN texts[key]
        ELSE [text |-> list[RowOf(key)].shown, cell |-> list[RowOf(key)].at, carried |-> FALSE]]

Buffer(typed) == [text |-> typed.text, cell |-> typed.cell, carried |-> typed.carried]

\* InputText, of ImGui: the text of the active one goes to the buffer it is given.
Held(texts, list) ==
  [key \in DOMAIN texts |-> IF typing.row \in DOMAIN list /\ key = BufferKey(list[typing.row])
                            THEN Buffer(typing) ELSE texts[key]]

Painted(texts) == Held(Filled(texts, drawn.list), drawn.list)

\* An input that is not drawn is not active any more.
StillActive == IF typing.row \in DOMAIN drawn.list THEN typing ELSE NoTyping

\* The button of the mouse has gone down over something else in an earlier frame,
\* or Enter was pressed.
Released == typing = NoTyping /\ UNCHANGED typing

DiffFieldDisplay(before, now) == IF now > before THEN "increased" ELSE "decreased"

\* RecomputeDiff: fields are known by their names.
RecomputeDiff(baseline) ==
  LET changed == {i \in DOMAIN drawn.list : /\ drawn.list[i].name \in DOMAIN baseline.values
                                            /\ drawn.list[i].shown # baseline.values[drawn.list[i].name]}
  IN [name \in {drawn.list[i].name : i \in changed} |->
        LET row == CHOOSE r \in {drawn.list[i] : i \in changed} : r.name = name
        IN DiffFieldDisplay(baseline.values[name], row.shown)]

HasBaseline(baseline) == baseline.values # <<>>
Diffs(baseline, shows, of) ==
  IF shows /\ HasBaseline(baseline) /\ ~fieldsBusy THEN [tints |-> RecomputeDiff(baseline), of |-> of] ELSE diff

\* RenderFieldsTab colours the rows by whatever snapshot there is.
InFieldsTab ==
  /\ frame = "tab" /\ click = NoClick
  /\ diff' = Diffs(snapshot, showChanges, Null)
  /\ UNCHANGED <<snapshot, showChanges, games>>

Press == pressed < MaxClicks /\ pressed' = pressed + 1

DrawFields ==
  /\ InFieldsTab /\ frame' = "tick"
  /\ buffers' = Painted(buffers) /\ typing' \in {StillActive, NoTyping}
  /\ UNCHANGED <<heap, cache, view, loaders, drawn, calm, click, pressed>>

Reload == IF view.list = Null THEN StartFieldsLoad ELSE StartViewLoad(Displayed(view))

\* DoRefresh, by hand or by the timer: the texts go, although the rows they
\* are filled from again are still the old ones; but not the one being typed.
Refresh ==
  /\ InFieldsTab /\ frame' = "tick" /\ ~fieldsBusy
  /\ Reload /\ buffers' = Painted(<<>>) /\ typing' = StillActive
  /\ UNCHANGED <<heap, cache, view, drawn, calm, click, pressed>>

Type(i, text) ==
  /\ InFieldsTab /\ frame' = "tick" /\ Press
  /\ typing' = [row |-> i, text |-> text, cell |-> drawn.list[i].at, carried |-> FALSE]
  /\ buffers' = [Painted(buffers) EXCEPT ![BufferKey(drawn.list[i])] = Buffer(typing')]
  /\ UNCHANGED <<heap, cache, view, loaders, drawn, calm, click>>

\* SelectInstanceByIndex and StartFieldsLoad: here too the cells show the old rows again.
PickInstance(o) ==
  /\ InFieldsTab /\ Released /\ frame' = "tick" /\ Press /\ view.list = Null
  /\ active' = o /\ view' = [view EXCEPT !.root = o]
  /\ StartFieldsLoad /\ buffers' = Filled(<<>>, drawn.list)
  /\ UNCHANGED <<heap, loadedFor, rows, drawn, calm, click>>

\* The link of the object whose rows are drawn.
OpenList ==
  /\ InFieldsTab /\ Released /\ frame' = "tick" /\ Press
  /\ view.list = Null /\ ~drawn.place.list /\ drawn.place.of \in Holders
  /\ view' = [view EXCEPT !.list = drawn.place.of]
  /\ StartViewLoad(Displayed(view')) /\ buffers' = <<>>
  /\ UNCHANGED <<heap, cache, drawn, calm, click>>

\* The breadcrumb of the object, above the tabs.
Back ==
  /\ frame = "tab" /\ frame' = "tick" /\ click = NoClick /\ Released /\ Press /\ view.list # Null
  /\ view' = [view EXCEPT !.list = Null]
  /\ StartViewLoad(Displayed(view')) /\ buffers' = <<>>
  /\ UNCHANGED <<heap, cache, drawn, calm, click, study, games>>

---------------------------------------------------------------------------
(***************************************************************************)
(* A value is written.                                                     *)
(***************************************************************************)
\* TrySetFieldValueWithCollectionGuard: elements, while a list is open.
Guarded(row) == "array" \in DOMAIN row.at /\ view.list # Null

NewClick(op, row, step, at, typed) ==
  [op |-> op, row |-> row, step |-> step, list |-> view.list, items |-> Null, size |-> 0,
   calm |-> TRUE, at |-> at, text |-> typed.text, cell |-> typed.cell, carried |-> typed.carried]
ClickBegins ==
  /\ InFieldsTab /\ Released /\ Press /\ UNCHANGED frame
  /\ buffers' = Filled(buffers, drawn.list)
  /\ UNCHANGED <<heap, cache, view, loaders, drawn, calm>>

\* OK in the cell of a row
Apply(i) ==
  /\ ClickBegins
  /\ LET row == drawn.list[i]
         typed == buffers'[BufferKey(row)]
     IN click' = NewClick("edit", i, IF Guarded(row) THEN "items" ELSE "write", row.at, typed)

\* above the rows
AddElement ==
  /\ ClickBegins /\ view.list # Null /\ ~fieldsBusy
  /\ click' = NewClick("add", 0, "items", Null, NoTyping)

ClickGoes(from, to) == click.step = from /\ click' = to
InClick == UNCHANGED <<cache, view, drawn, calm, typing, study, games, pressed>>

ReadItems ==
  /\ ClickGoes("items", [click EXCEPT !.step = "size", !.items = lists[click.list].items])
  /\ InClick /\ UNCHANGED <<heap, loaders, frame, buffers>>

ReadSize ==
  /\ ClickGoes("size", [click EXCEPT !.step = "length", !.size = lists[click.list].size])
  /\ InClick /\ UNCHANGED <<heap, loaders, frame, buffers>>

MutAnyAllocated(at, items, size, allocated) == at.array = items /\ at.index <= allocated

\* IsAddressInLiveElementBuffer
InLiveBuffer(at, items, size, allocated) == at.array = items /\ at.index <= Smaller(size, allocated)

\* TryWriteListLogicalSize: spare capacity is made an element.
HasRoom(size, allocated) == size < allocated

ReadLength ==
  LET allocated == Len(arrays[click.items])
      accepted == IF click.op = "edit" THEN InLiveBuffer(click.at, click.items, click.size, allocated)
                  ELSE HasRoom(click.size, allocated)
  IN /\ click.step = "length"
     /\ \/ accepted /\ click' = [click EXCEPT !.step = "write"] /\ UNCHANGED frame
        \/ ~accepted /\ click' = NoClick /\ frame' = "tick"
     /\ InClick /\ UNCHANGED <<heap, loaders, buffers>>

\* An address outside of what is there now belongs to something else.
Stored(at, text) ==
  IF "object" \in DOMAIN at THEN number' = [number EXCEPT ![at.object] = text] /\ UNCHANGED arrays
  ELSE /\ arrays' = IF at.index <= Len(arrays[at.array]) THEN [arrays EXCEPT ![at.array][at.index] = text] ELSE arrays
       /\ UNCHANGED number

\* What follows a write: a refresh, unless something is being loaded.  The rows
\* below get their texts again in the same frame.
AfterWrite ==
  /\ frame' = "tick"
  /\ \/ fieldsBusy /\ UNCHANGED <<loaders, buffers>>
     \/ /\ ~fieldsBusy /\ Reload
        /\ buffers' = Filled(<<>>, SubSeq(drawn.list, click.row + 1, Len(drawn.list)))

\* The write itself may be refused by the memory.
Write ==
  /\ ClickGoes("write", NoClick)
  /\ \/ /\ click.op = "edit" /\ Stored(click.at, click.text) /\ UNCHANGED lists
        /\ AfterWrite
     \/ /\ click.op = "add" /\ lists' = [lists EXCEPT ![click.list].size = click.size + 1]
        /\ AfterWrite /\ UNCHANGED <<arrays, number>>
     \/ frame' = "tick" /\ UNCHANGED <<heap, loaders, buffers>>
  /\ InClick

---------------------------------------------------------------------------
(***************************************************************************)
(* The Analysis tab.                                                       *)
(***************************************************************************)
MutScopeOfCrumbs == <<view.list # Null>>

\* BuildFieldAnalysisScope: the active object and the breadcrumbs.
Scope == <<view.list # Null, active>>

\* Whether the rows that are drawn are those of the scope.
Settled == calm /\ (view.list # Null => view.list = active)

AnalysisTab ==
  /\ frame = "tab" /\ frame' = "tick" /\ click = NoClick /\ Released
  /\ LET kept   == IF snapshot.scope = Scope THEN snapshot ELSE NoBaseline
         shows  == showChanges /\ kept # NoBaseline
         values == [name \in {drawn.list[i].name : i \in DOMAIN drawn.list} |->
                      (CHOOSE r \in {drawn.list[i] : i \in DOMAIN drawn.list} : r.name = name).shown]
     IN /\ \/ snapshot' = kept /\ showChanges' = shows /\ UNCHANGED pressed
           \/ /\ Press /\ ~fieldsBusy /\ drawn.list # <<>>
              /\ snapshot' = [values |-> values, scope |-> Scope, of |-> IF Settled THEN drawn.place ELSE Null]
              /\ showChanges' = shows
           \/ Press /\ HasBaseline(kept) /\ snapshot' = NoBaseline /\ showChanges' = FALSE
           \/ Press /\ HasBaseline(kept) /\ snapshot' = kept /\ showChanges' = ~shows
        /\ diff' = IF snapshot' # snapshot /\ ~(showChanges' /\ ~fieldsBusy) THEN NoDiff
                   ELSE Diffs(snapshot', showChanges', IF Settled THEN drawn.place ELSE Null)
  /\ UNCHANGED <<heap, cache, view, loaders, drawn, calm, buffers, click, games>>

---------------------------------------------------------------------------
EditNext ==
  \/ GameActs
  \/ ReadFields \/ PublishFields \/ ReadView \/ PublishView \/ InstancesFound
  \/ Tick \/ CopyRows
  \/ DrawFields \/ Refresh \/ OpenList \/ Back \/ AddElement
  \/ \E o \in Owners : PickInstance(o)
  \/ \E i \in DOMAIN drawn.list : Apply(i) \/ \E v \in Numbers : Type(i, v)
  \/ ReadItems \/ ReadSize \/ ReadLength \/ Write
  \/ AnalysisTab

EditSpec == EditInit /\ [][EditNext]_editVars

---------------------------------------------------------------------------
\* What is written was typed for that very value, or read from it, whatever was
\* on display in between, unless other rows were published while the keyboard
\* was still in the cell: then it may be what was typed in the same row for
\* another value, which the user sees there before the click.  If the game
\* leaves the list alone during the click, an element that is written is one the
\* list has, however old its row is, and "Add element" makes one more, within
\* the array.  (field_edit_cells.cpp:24: "confirm the slot still lies in the live
\* Array/List buffer".)
EditsHitTheirValue ==
  [][click # NoClick /\ click.step = "write" /\ click' = NoClick /\ <<heap>>' # <<heap>> =>
       LET l == lists[click.list]
       IN IF click.op = "add" THEN click.calm => lists'[click.list].size = l.size + 1 /\ l.size < Len(arrays[l.items])
          ELSE /\ click.cell = click.at \/ click.carried
               /\ click.list # Null /\ "array" \in DOMAIN click.at /\ click.calm =>
                    click.at.array = l.items /\ click.at.index <= l.size /\ click.at.index <= Len(arrays[l.items])
    ]_<<click, heap>>

\* A difference shown by the Analysis tab is one of the same field of the same
\* object, or the same index of the same list, as when the snapshot was taken,
\* provided that both times nothing was published in the middle of the frame and
\* that an open list is one of the active object (InvalidateIfScopeChanged).
DiffsAreOfOnePlace ==
  EditTypeOK /\ (snapshot.of # Null /\ diff.of # Null /\ diff.tints # <<>> => diff.of = snapshot.of)
=============================================================================
