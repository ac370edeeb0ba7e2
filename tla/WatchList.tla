------------------------------ MODULE WatchList ------------------------------
(* The list of watched fields over several game sessions: FieldWatchModel     *)
(* (field_watch_model.cpp) edited by the GUI thread and read by its sampler   *)
(* thread, and watches.json (session_persist.cpp), which a later session      *)
(* loads and binds again.  The process may end between any two steps.         *)
(*                                                                            *)
(* A value is identified by where it is read: a member of an object, or a     *)
(* static field.  Plots, their modes and the wording of values are left out.  *)
EXTENDS Naturals, Sequences, FiniteSets

Lists == INSTANCE SequencesExt

CONSTANTS Statics,       \* static fields that can be watched
          Members,       \* fields of objects that can be watched
          Objects,       \* objects that have these fields
          Plottable,     \* the fields of a plottable type
          LateStatics,   \* static fields without storage when a session begins
          Nothing,       \* a null pointer or address
          MaxEntries,    \* FieldWatchModel::kMaxEntries
          MaxOps,        \* bound: changes of the list, over all sessions
          MaxSessions    \* bound: sessions

Fields == Statics \cup Members
Sites == [field : Statics, object : {Nothing}] \cup [field : Members, object : Objects]
Views == Objects \cup {Nothing}      \* the object selected in the inspector, or none

\* What an entry displays: a value, "??", or nothing yet.
Unknown == [field |-> "??", object |-> Nothing]
Displays == Sites \cup {Unknown, Nothing}

ASSUME WatchAssumption ==
    /\ Statics \cap Members = {} /\ LateStatics \subseteq Statics
    /\ Plottable \subseteq Fields
    /\ Nothing \notin Objects /\ Nothing \notin Sites /\ Unknown \notin Sites
    /\ MaxEntries \in Nat \ {0} /\ MaxOps \in Nat /\ MaxSessions \in Nat \ {0}

\* Contents of a file on the disk.
FileStates == {"absent", "unreadable", "partial", "whole"}
NoFile == [is |-> "absent", list |-> <<>>]
Whole(names) == [is |-> "whole", list |-> names]

VARIABLES entries,    \* the watch list; view is the object of restoreSnapshot
          nextId,     \* id of the next entry
          selected,   \* selectedPlotWatchId, 0 for none
          sampler,    \* where the sampler thread is
          jobs,       \* what SampleOnce copied: ids and addresses
          gui,        \* where the GUI thread is
          rebound,    \* sessionPersistRebound
          storage,    \* static fields whose storage exists
          file,       \* watches.json
          tmp,        \* watches.json.tmp
          bad,        \* watches.json.bad exists
          kept,       \* history: the list that was written last
          behind,     \* history: the last change has not been written
          seen,       \* history: the list when the last session ended
          ops, session

model   == <<entries, nextId, selected>>
thread  == <<sampler, jobs>>
disk    == <<file, tmp, bad>>
history == <<kept, behind, seen>>
vars    == <<model, thread, gui, rebound, storage, disk, history, ops, session>>

\* What a list leaves in the file: names only.
Recipes(list) == [i \in DOMAIN list |-> list[i].field]

Entry == [id : Nat \ {0}, field : Fields, view : Views, at : Sites \cup {Nothing},
          stale : BOOLEAN, shown : Displays]

TypeOK ==
    /\ entries \in Seq(Entry) /\ Len(entries) <= MaxEntries
    /\ nextId \in Nat \ {0} /\ selected \in Nat
    /\ sampler \in {"check", "asleep", "read", "pause"}
    /\ jobs \in Seq([id : Nat, at : Sites \cup {Nothing}])
    /\ gui \in {"init", "ready", "open", "fill", "move"}
    /\ rebound \in BOOLEAN
    /\ storage \subseteq Statics
    /\ file \in [is : FileStates, list : Seq(Fields)]
    /\ tmp \in [is : FileStates, list : Seq(Fields)]
    /\ bad \in BOOLEAN
    /\ kept \in Seq(Fields) /\ seen \in Seq(Fields) /\ behind \in BOOLEAN
    /\ ops \in 0 .. MaxOps /\ session \in 1 .. MaxSessions

Init ==
    /\ entries = <<>> /\ nextId = 1 /\ selected = 0
    /\ sampler = "check" /\ jobs = <<>>
    /\ gui = "init" /\ rebound = FALSE
    /\ storage = Statics \ LateStatics
    /\ file = NoFile /\ tmp = NoFile /\ bad \in BOOLEAN    \* from an earlier session
    /\ kept = <<>> /\ behind = FALSE /\ seen = <<>>
    /\ ops = 0 /\ session = 1
-----------------------------------------------------------------------------
(* Helpers of the model's methods. *)

Ids(list) == {list[i].id : i \in DOMAIN list}
PlottableIds(list) == {i \in DOMAIN list : list[i].field \in Plottable}

FirstPlottable(list) ==
    IF PlottableIds(list) = {} THEN 0
    ELSE list[CHOOSE i \in PlottableIds(list) : \A j \in PlottableIds(list) : i <= j].id

\* The selection is kept if its entry is still there, else the first plottable one.
EnsureValidPlotSelectionLocked(list, sel) ==
    IF \E i \in PlottableIds(list) : list[i].id = sel THEN sel ELSE FirstPlottable(list)

\* Mutant: the notification is forgotten.
MutNotifiesNobody == UNCHANGED sampler

\* A thread in its untimed wait wakes only if it is notified.
NotifySampler == sampler' = IF sampler = "asleep" THEN "check" ELSE sampler

\* Every change of the list ends in a save; nothing else happens on the GUI thread before.
Changed ==
    /\ gui' = "open"
    /\ ops' = ops + 1
    /\ behind' = TRUE
    /\ UNCHANGED <<jobs, rebound, storage, disk, kept, seen, session>>

Ready == gui = "ready" /\ ops < MaxOps
-----------------------------------------------------------------------------
(* Changes: Toggle of a row of the Fields tab, Remove and Clear of the dock. *)

\* EntriesMatchField: same field, seen in the same place.
Matches(e, f, v) == e.field = f /\ e.view = v

\* Rows of the inspector: they exist once the images are there, and Rebind came first.
Shown(f, v) == rebound /\ (IF f \in Statics THEN f \in storage ELSE v \in Objects)

Site(f, v) == [field |-> f, object |-> IF f \in Statics THEN Nothing ELSE v]

ToggleOff(f, v) ==
    /\ Ready /\ Shown(f, v)
    /\ \E i \in DOMAIN entries :
        /\ Matches(entries[i], f, v)
        /\ \A j \in 1 .. i - 1 : ~Matches(entries[j], f, v)
        /\ entries' = Lists!RemoveAt(entries, i)
    /\ selected' = EnsureValidPlotSelectionLocked(entries', selected)
    /\ NotifySampler /\ Changed
    /\ UNCHANGED nextId

ToggleOn(f, v) ==
    /\ Ready /\ Shown(f, v)
    /\ ~\E i \in DOMAIN entries : Matches(entries[i], f, v)
    /\ Len(entries) < MaxEntries
    /\ entries' = Append(entries, [id |-> nextId, field |-> f, view |-> v, at |-> Site(f, v),
                                   stale |-> FALSE, shown |-> Nothing])
    /\ nextId' = nextId + 1
    /\ selected' = IF f \in Plottable THEN nextId ELSE selected
    /\ NotifySampler /\ Changed

\* Mutant: the selection is not looked at.
MutRemoveKeepsSelection(i) ==
    /\ Ready
    /\ entries' = Lists!RemoveAt(entries, i)
    /\ NotifySampler /\ Changed
    /\ UNCHANGED <<nextId, selected>>

Remove(i) ==
    /\ Ready
    /\ entries' = Lists!RemoveAt(entries, i)
    /\ selected' = EnsureValidPlotSelectionLocked(entries', selected)
    /\ NotifySampler /\ Changed
    /\ UNCHANGED nextId

Clear ==
    /\ Ready
    /\ entries' = <<>>
    /\ selected' = 0
    /\ NotifySampler /\ Changed
    /\ UNCHANGED nextId
-----------------------------------------------------------------------------
(* SaveWatches: WriteTextFile writes a second file and renames it over the    *)
(* first.  Nobody looks at its result.                                        *)

\* Mutant: the file itself is emptied and written.
MutOpenInPlace ==
    /\ gui = "open"
    /\ file' = [NoFile EXCEPT !.is = "partial"] /\ tmp' = file' /\ gui' = "fill"
    /\ UNCHANGED <<model, thread, rebound, storage, bad, history, ops, session>>

\* The temporary file is created or emptied.
OpenTmp ==
    /\ gui = "open"
    /\ tmp' = [NoFile EXCEPT !.is = "partial"] /\ gui' = "fill"
    /\ UNCHANGED <<model, thread, rebound, storage, file, bad, history, ops, session>>

FillTmp ==
    /\ gui = "fill"
    /\ tmp' = Whole(Recipes(entries)) /\ gui' = "move"
    /\ UNCHANGED <<model, thread, rebound, storage, file, bad, history, ops, session>>

MoveTmp ==
    /\ gui = "move"
    /\ file' = tmp /\ tmp' = NoFile /\ gui' = "ready"
    /\ kept' = Recipes(entries) /\ behind' = FALSE
    /\ UNCHANGED <<model, thread, rebound, storage, bad, seen, ops, session>>

\* Opening, writing or renaming fails.  What is left of the temporary file is never read.
SaveFails ==
    /\ gui \in {"open", "fill", "move"}
    /\ tmp' = NoFile
    /\ gui' = "ready"
    /\ UNCHANGED <<model, thread, rebound, storage, file, bad, history, ops, session>>
-----------------------------------------------------------------------------
(* The first frames of a session. *)

\* WatchFromRecipe: ids from 1, no address, stale.
FromRecipes(names) ==
    [i \in DOMAIN names |-> [id |-> i, field |-> names[i], view |-> Nothing, at |-> Nothing,
                             stale |-> TRUE, shown |-> Nothing]]

Readable == file.is \in {"absent", "whole"}

\* "Init Dumper Engine": LoadInto reads the file; one it cannot parse is put aside,
\* unless there is one already, and the list is left as it is.
LoadInto ==
    /\ gui = "init"
    /\ gui' = "ready"
    /\ NotifySampler
    /\ \/ /\ Readable
          /\ entries' = FromRecipes(file.list)
          /\ nextId' = Len(entries') + 1
          /\ selected' = FirstPlottable(entries')
          /\ UNCHANGED <<file, bad>>
       \/ /\ ~Readable
          /\ file' = IF bad THEN file ELSE NoFile
          /\ bad' = TRUE
          /\ UNCHANGED model
    /\ behind' = FALSE
    /\ UNCHANGED <<jobs, rebound, storage, tmp, kept, seen, ops, session>>

\* Mutant: the mark is set and the address forgotten.
MutBoundWithoutAddress(e) ==
    IF e.field \in storage THEN [e EXCEPT !.view = Nothing, !.stale = FALSE]
    ELSE [e EXCEPT !.view = Nothing, !.at = Nothing, !.stale = TRUE]

\* Static fields get their address by name; everything else loses what it had.
Bound(e) ==
    IF e.field \in storage
    THEN [e EXCEPT !.view = Nothing, !.at = Site(e.field, Nothing), !.stale = FALSE]
    ELSE [e EXCEPT !.view = Nothing, !.at = Nothing, !.stale = TRUE]

\* Once per session, in the first frame that sees the list of the image loader.
Rebind ==
    /\ gui = "ready" /\ ~rebound
    /\ entries' = [i \in DOMAIN entries |-> Bound(entries[i])]
    /\ rebound' = TRUE
    /\ NotifySampler
    /\ UNCHANGED <<nextId, selected, jobs, gui, storage, disk, history, ops, session>>
-----------------------------------------------------------------------------
(* The sampler thread. *)

SamplerSleeps ==
    /\ sampler = "check" /\ entries = <<>>
    /\ sampler' = "asleep"
    /\ UNCHANGED <<model, jobs, gui, rebound, storage, disk, history, ops, session>>

\* First half of SampleOnce: ids and addresses are copied under the mutex.
TakeJobs ==
    /\ sampler = "check" /\ entries # <<>>
    /\ jobs' = [i \in DOMAIN entries |-> [id |-> entries[i].id, at |-> entries[i].at]]
    /\ sampler' = "read"
    /\ UNCHANGED <<model, gui, rebound, storage, disk, history, ops, session>>

\* What a read may give: an object may have been released, its memory readable or not.
ReadAt(at) ==
    IF at = Nothing THEN {Unknown}
    ELSE IF at.object # Nothing THEN {Unknown, at}
    ELSE {at}

\* Second half: the results are given to the entries that still have the id.
Updated(list, results) ==
    [i \in DOMAIN list |->
        IF list[i].id \in DOMAIN results
        THEN [list[i] EXCEPT !.shown = results[list[i].id], !.stale = results[list[i].id] = Unknown]
        ELSE list[i]]

ApplyResults ==
    /\ sampler = "read"
    /\ \E results \in [{jobs[i].id : i \in DOMAIN jobs} -> Sites \cup {Unknown}] :
        /\ \A i \in DOMAIN jobs : results[jobs[i].id] \in ReadAt(jobs[i].at)
        /\ entries' = Updated(entries, results)
    /\ sampler' = "pause" /\ jobs' = <<>>
    /\ UNCHANGED <<nextId, selected, gui, rebound, storage, disk, history, ops, session>>

\* The interval is over, or a notification ended it.
PauseEnds ==
    /\ sampler = "pause"
    /\ sampler' = "check"
    /\ UNCHANGED <<model, jobs, gui, rebound, storage, disk, history, ops, session>>
-----------------------------------------------------------------------------
(* The game, and what may happen to its process and the file. *)

ClassInitialised(s) ==
    /\ s \notin storage
    /\ storage' = storage \cup {s}
    /\ UNCHANGED <<model, thread, gui, rebound, disk, history, ops, session>>

\* The game ends, orderly or not, at any point of any thread; the next one starts.
NextProcess ==
    /\ session < MaxSessions
    /\ session' = session + 1
    /\ entries' = <<>> /\ nextId' = 1 /\ selected' = 0
    /\ sampler' = "check" /\ jobs' = <<>>
    /\ gui' = "init" /\ rebound' = FALSE
    /\ storage' = Statics \ LateStatics
    /\ seen' = IF gui = "init" THEN seen ELSE Recipes(entries)
    /\ tmp' = NoFile
    /\ UNCHANGED <<file, bad, kept, behind, ops>>

\* Someone edits the file while no session has loaded it.
Damage ==
    /\ gui = "init" /\ file.is = "whole" /\ ops < MaxOps
    /\ file' = [NoFile EXCEPT !.is = "unreadable"] /\ ops' = ops + 1
    /\ kept' = <<>> /\ behind' = TRUE
    /\ UNCHANGED <<model, thread, gui, rebound, storage, tmp, bad, seen, session>>
-----------------------------------------------------------------------------
Change ==
    \/ \E f \in Fields, v \in Views : ToggleOff(f, v) \/ ToggleOn(f, v)
    \/ \E i \in DOMAIN entries : Remove(i)
    \/ Clear
Save == OpenTmp \/ FillTmp \/ MoveTmp
Sample == SamplerSleeps \/ TakeJobs \/ ApplyResults \/ PauseEnds
Game == \E s \in Statics : ClassInitialised(s)

Next == Change \/ Save \/ SaveFails \/ LoadInto \/ Rebind \/ Sample \/ Game
        \/ NextProcess \/ Damage

\* Threads proceed, a load of the image list ends, and there are frames: the wake-up
\* test of the panel counts watch entries.  Nobody has to press a button.
Fairness ==
    /\ WF_vars(Sample) /\ WF_vars(Save \/ SaveFails)
    /\ WF_vars(Rebind)
    /\ \A s \in Statics : WF_vars(ClassInitialised(s))

Spec == Init /\ [][Next]_vars /\ Fairness
-----------------------------------------------------------------------------
(* Properties. *)

\* The plot selection names a plottable entry whenever there is one, and nothing else,
\* whatever is removed, loaded or added: selectedPlotWatchId is used without a test.
SelectionValid ==
    IF PlottableIds(entries) = {} THEN selected = 0
    ELSE \E i \in PlottableIds(entries) : entries[i].id = selected

\* A value on display was read where its own entry reads, although the sampler applies
\* results to a list that changed after it copied the addresses (SampleOnce).
SampleIsOwn ==
    \A i \in DOMAIN entries :
        entries[i].shown \in Sites => /\ entries[i].shown = entries[i].at
                                     /\ entries[i].shown.field = entries[i].field

\* The list is well formed in every state of every session, its selection and its values
\* on display included (FieldWatchModel under entriesMutex, and what LoadInto puts into it).
ListConsistent == TypeOK /\ SelectionValid /\ SampleIsOwn

\* A session begins with the list the session before ended with, or, if its last change
\* was not written (it ended first, or the write failed), with the last list that was;
\* a file is never half a list.  (README.md:98: watches are saved.)
ListSurvives ==
    [][gui = "init" /\ gui' = "ready" /\ file.is # "unreadable" =>
        file.is # "partial" /\ Recipes(entries') = IF behind THEN kept ELSE seen]_vars

Has(id, P(_)) == \E i \in DOMAIN entries : entries[i].id = id /\ P(entries[i])
EntryIds == 1 .. MaxOps + 1        \* every change adds at most one id

\* Every entry is sampled, unless it is removed first: the sampler sleeps only while the
\* list is empty and misses no change of it.
WatchesAreSampled ==
    \A id \in EntryIds :
        LET Unread(e) == e.shown = Nothing
        IN Has(id, Unread) ~> ~Has(id, Unread)

Reconnect(fields) ==
    \A id \in EntryIds :
        LET Watched(e) == e.field \in fields
            Unconnected(e) == e.field \in fields /\ e.shown \notin Sites
        IN Has(id, Watched) ~> ~Has(id, Unconnected)

\* A watched static field shows its value in every session in which its storage exists
\* when the image list arrives: Rebind runs once, and no result of the sampler that was
\* under way hides it for good.  (README.md:102: "static watches reconnect
\* automatically"; one without storage by then stays stale for the session.)
EarlyStaticsReconnect == Reconnect(Statics \ LateStatics)
=============================================================================
