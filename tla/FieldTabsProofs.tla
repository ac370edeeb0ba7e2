-------------------------- MODULE FieldTabsProofs ---------------------------
(* The watch list, and then the values that are edited and compared.         *)
EXTENDS WatchList, FieldEdits, FiniteSetTheorems, SequenceTheorems, WellFoundedInduction, TLAPS

-----------------------------------------------------------------------------
(* The inductive invariant.  A result of the sampler may be given to an entry *)
(* because ids are not used twice in a session and an entry keeps its address *)
(* once it has one (Sound); before Rebind nothing has an address, so that     *)
(* Rebind invalidates no address that was copied (Unbound).  What a session   *)
(* begins with rests on FileIsKept.                                           *)

SelectionIn(list, sel) ==
    IF PlottableIds(list) = {} THEN sel = 0
    ELSE \E i \in PlottableIds(list) : list[i].id = sel

Job == [id : Nat, at : Sites \cup {Nothing}]

\* A list of entries, the next id, and the jobs that were copied from it earlier.
Sound(list, next, copied) ==
    /\ list \in Seq(Entry) /\ Len(list) <= MaxEntries /\ next \in Nat \ {0}
    /\ copied \in Seq(Job)
    /\ \A i, j \in 1 .. Len(list) : list[i].id = list[j].id => i = j
    /\ \A i \in 1 .. Len(list) :
        /\ list[i].id < next
        /\ list[i].at # Nothing => list[i].at.field = list[i].field
        /\ list[i].shown \in Sites => list[i].shown = list[i].at
    /\ \A n \in 1 .. Len(copied) :
        /\ copied[n].id < next
        /\ \A i \in 1 .. Len(list) :
            copied[n].id = list[i].id => copied[n].at \in {Nothing, list[i].at}

Unbound ==
    ~rebound => /\ \A i \in 1 .. Len(entries) : entries[i].at = Nothing
                /\ \A n \in 1 .. Len(jobs) : jobs[n].at = Nothing

\* The file holds what was written last, and, unless a change is not written yet, the
\* list of this session or of the one before.
FileIsKept ==
    /\ file.is # "partial"
    /\ file.list = kept /\ Len(kept) <= MaxEntries
    /\ file.is = "unreadable" => kept = <<>>
    /\ gui = "move" => tmp = Whole(Recipes(entries))
    /\ ~behind => kept = IF gui = "init" THEN seen ELSE Recipes(entries)

Fresh == gui = "init" => entries = <<>> /\ jobs = <<>> /\ ~rebound

\* The types of the variables that Sound does not mention.
Types ==
    /\ selected \in Nat
    /\ sampler \in {"check", "asleep", "read", "pause"}
    /\ gui \in {"init", "ready", "open", "fill", "move"}
    /\ rebound \in BOOLEAN
    /\ storage \subseteq Statics
    /\ file \in [is : FileStates, list : Seq(Fields)]
    /\ tmp \in [is : FileStates, list : Seq(Fields)]
    /\ bad \in BOOLEAN
    /\ kept \in Seq(Fields) /\ seen \in Seq(Fields) /\ behind \in BOOLEAN
    /\ ops \in 0 .. MaxOps /\ session \in 1 .. MaxSessions

WInv ==
    /\ Types /\ Sound(entries, nextId, jobs) /\ SelectionIn(entries, selected)
    /\ Unbound /\ FileIsKept /\ Fresh

-----------------------------------------------------------------------------
(* Sequences. *)

LEMMA SeqOf ==
  ASSUME NEW S, NEW n \in Nat, NEW F \in [1..n -> S]
  PROVE  F \in Seq(S) /\ Len(F) = n /\ DOMAIN F = 1..n
OBVIOUS

LEMMA NoFileIsFile == NoFile \in [is : FileStates, list : Seq(Fields)]
<1>1. <<>> \in Seq(Fields) /\ "absent" \in FileStates
  BY DEF FileStates
<1> QED
  BY <1>1 DEF NoFile

LEMMA Removed ==
  ASSUME NEW S, NEW q \in Seq(S), NEW i \in 1 .. Len(q)
  PROVE  /\ Lists!RemoveAt(q, i) \in Seq(S)
         /\ Len(Lists!RemoveAt(q, i)) = Len(q) - 1
         /\ \A j \in 1 .. Len(q) - 1 :
              Lists!RemoveAt(q, i)[j] = IF j < i THEN q[j] ELSE q[j + 1]
<1> DEFINE l == SubSeq(q, 1, i - 1)
           r == SubSeq(q, i + 1, Len(q))
           w == Lists!RemoveAt(q, i)
<1>1. l \in Seq(S) /\ Len(l) = i - 1 /\ \A j \in 1..(i - 1) : l[j] = q[j]
  OBVIOUS
<1>2. r \in Seq(S) /\ Len(r) = Len(q) - i /\ \A j \in 1..(Len(q) - i) : r[j] = q[i + j]
  OBVIOUS
<1>3. w = l \o r
  BY DEF Lists!RemoveAt
<1> HIDE DEF l, r, w
<1>4. w \in Seq(S) /\ Len(w) = Len(l) + Len(r)
  BY <1>1, <1>2, <1>3, ConcatProperties
<1>5. ASSUME NEW j \in 1..(Len(q) - 1)
      PROVE  w[j] = IF j < i THEN l[j] ELSE r[j - (i - 1)]
  <2>1. \A k \in 1..(Len(l) + Len(r)) : w[k] = IF k <= Len(l) THEN l[k] ELSE r[k - Len(l)]
    BY <1>1, <1>2, <1>3, ConcatProperties
  <2>2. Len(l) = i - 1 /\ Len(l) + Len(r) = Len(q) - 1
    BY <1>1, <1>2
  <2> QED
    BY <2>1, <2>2
<1>6. ASSUME NEW j \in 1..(Len(q) - 1), j >= i
      PROVE  r[j - (i - 1)] = q[j + 1]
  BY <1>2, <1>6
<1>7. ASSUME NEW j \in 1..(Len(q) - 1)
      PROVE  w[j] = IF j < i THEN q[j] ELSE q[j + 1]
  <2>1. CASE j < i
    <3>1. j \in 1..(i - 1)
      BY <2>1
    <3> QED
      BY <1>1, <1>5, <2>1, <3>1
  <2>2. CASE ~(j < i)
    <3>1. j >= i
      BY <2>2
    <3>2. w[j] = r[j - (i - 1)] /\ r[j - (i - 1)] = q[j + 1]
      BY <1>5, <1>6, <2>2, <3>1
    <3> QED
      BY <2>2, <3>2
  <2> QED
    BY <2>1, <2>2
<1> QED
  BY <1>1, <1>2, <1>4, <1>7 DEF w

\* The names of a list.
LEMMA RecipesAre ==
  ASSUME NEW list \in Seq(Entry)
  PROVE  /\ Recipes(list) \in Seq(Fields) /\ Len(Recipes(list)) = Len(list)
         /\ \A i \in 1 .. Len(list) : Recipes(list)[i] = list[i].field
<1>0. \A i \in 1 .. Len(list) : list[i] \in Entry
  OBVIOUS
<1>1. DOMAIN list = 1 .. Len(list) /\ \A i \in 1 .. Len(list) : list[i].field \in Fields
  BY <1>0 DEF Entry
<1>2. Recipes(list) \in [1 .. Len(list) -> Fields]
  BY <1>1 DEF Recipes
<1> QED
  BY <1>1, <1>2, SeqOf DEF Recipes

LEMMA SameRecipes ==
  ASSUME NEW list \in Seq(Entry), NEW other \in Seq(Entry), Len(other) = Len(list),
         \A i \in 1 .. Len(list) : other[i].field = list[i].field
  PROVE  Recipes(other) = Recipes(list)
<1>1. DOMAIN list = 1 .. Len(list) /\ DOMAIN other = 1 .. Len(list)
  OBVIOUS
<1> QED
  BY <1>1 DEF Recipes

-----------------------------------------------------------------------------
(* The selection for plots. *)

LEMMA FirstIsFirst ==
  ASSUME NEW list \in Seq(Entry), PlottableIds(list) # {}
  PROVE  \E i \in PlottableIds(list) : FirstPlottable(list) = list[i].id
<1> DEFINE P == PlottableIds(list)
<1>1. P \subseteq Nat
  BY DEF PlottableIds
<1>2. FirstPlottable(list) = list[CHOOSE i \in P : \A j \in P : i <= j].id
  BY DEF FirstPlottable
<1> HIDE DEF P
<1>3. PICK i \in P : \A j \in P : <<j, i>> \notin OpToRel(<, Nat)
  BY <1>1, NatLessThanWellFounded, WFMin DEF P
<1>4. \A j \in P : i <= j
  <2> SUFFICES ASSUME NEW j \in P, j < i PROVE FALSE
    BY <1>1
  <2>1. i \in Nat /\ j \in Nat
    BY <1>1
  <2>2. <<j, i>> \in Nat \X Nat /\ <<j, i>>[1] < <<j, i>>[2]
    BY <2>1
  <2>3. <<j, i>> \in OpToRel(<, Nat)
    BY ONLY <2>2 DEF OpToRel
  <2> QED
    BY <1>3, <2>3
<1>5. (CHOOSE k \in P : \A j \in P : k <= j) \in P
  BY <1>4
<1> QED
  BY <1>2, <1>5 DEF P

LEMMA FirstIsValid ==
  ASSUME NEW list \in Seq(Entry)
  PROVE  SelectionIn(list, FirstPlottable(list)) /\ FirstPlottable(list) \in Nat
<1>1. CASE PlottableIds(list) = {}
  BY <1>1 DEF SelectionIn, FirstPlottable
<1>2. CASE PlottableIds(list) # {}
  <2>1. PICK i \in PlottableIds(list) : FirstPlottable(list) = list[i].id
    BY <1>2, FirstIsFirst
  <2>2. list[i] \in Entry
    BY DEF PlottableIds
  <2>3. list[i].id \in Nat
    BY <2>2 DEF Entry
  <2> QED
    BY <1>2, <2>1, <2>3 DEF SelectionIn
<1> QED
  BY <1>1, <1>2

\* EnsureValidPlotSelectionLocked does what its name says.
LEMMA EnsuredIsValid ==
  ASSUME NEW list \in Seq(Entry), NEW sel \in Nat
  PROVE  /\ SelectionIn(list, EnsureValidPlotSelectionLocked(list, sel))
         /\ EnsureValidPlotSelectionLocked(list, sel) \in Nat
BY FirstIsValid DEF EnsureValidPlotSelectionLocked, SelectionIn

\* The selection stays valid while ids and fields stay.
LEMMA SelectionStays ==
  ASSUME NEW list \in Seq(Entry), NEW other \in Seq(Entry), NEW sel, SelectionIn(list, sel),
         Len(other) = Len(list),
         \A i \in 1 .. Len(list) : other[i].field = list[i].field /\ other[i].id = list[i].id
  PROVE  SelectionIn(other, sel)
<1>1. DOMAIN list = 1 .. Len(list) /\ DOMAIN other = 1 .. Len(list)
  OBVIOUS
<1>2. PlottableIds(other) = PlottableIds(list) /\ PlottableIds(list) \subseteq 1 .. Len(list)
  BY <1>1 DEF PlottableIds
<1> QED
  BY <1>2 DEF SelectionIn

-----------------------------------------------------------------------------
(* A list stays sound when an entry goes, and when entries are written to. *)

LEMMA SoundWithout ==
  ASSUME NEW list, NEW next, NEW copied, Sound(list, next, copied), NEW i \in 1 .. Len(list)
  PROVE  Sound(Lists!RemoveAt(list, i), next, copied)
<1> DEFINE w == Lists!RemoveAt(list, i)
           was(j) == IF j < i THEN j ELSE j + 1
<1>1. list \in Seq(Entry) /\ Len(list) \in Nat
  BY DEF Sound
<1>2. /\ w \in Seq(Entry) /\ Len(w) = Len(list) - 1
      /\ \A j \in 1 .. Len(list) - 1 : w[j] = IF j < i THEN list[j] ELSE list[j + 1]
  BY <1>1, Removed
<1>3. \A j \in 1 .. Len(w) : was(j) \in 1 .. Len(list) /\ w[j] = list[was(j)]
  BY <1>1, <1>2
<1>4. \A j, k \in 1 .. Len(w) : was(j) = was(k) => j = k
  BY <1>1, <1>2
<1> HIDE DEF w, was
<1>5. Len(w) <= MaxEntries
  BY <1>1, <1>2, WatchAssumption DEF Sound
<1>6. \A j, k \in 1 .. Len(w) : w[j].id = w[k].id => j = k
  BY <1>3, <1>4 DEF Sound
<1>7. \A j \in 1 .. Len(w) :
        /\ w[j].id < next
        /\ w[j].at # Nothing => w[j].at.field = w[j].field
        /\ w[j].shown \in Sites => w[j].shown = w[j].at
  BY <1>3 DEF Sound
<1>8. \A n \in 1 .. Len(copied) :
        /\ copied[n].id < next
        /\ \A j \in 1 .. Len(w) : copied[n].id = w[j].id => copied[n].at \in {Nothing, w[j].at}
  BY <1>3 DEF Sound
<1>9. Sound(w, next, copied)
  BY <1>2, <1>5, <1>6, <1>7, <1>8 DEF Sound
<1> QED
  BY <1>9 DEF w

\* Every entry of the other list has the id, the field and the address of the one at
\* its place, or gets its first address while none was copied.
LEMMA SoundRewritten ==
  ASSUME NEW list, NEW next, NEW copied, Sound(list, next, copied),
         NEW other \in Seq(Entry), Len(other) = Len(list),
         NEW rest, rest \in {copied, <<>>},
         \A i \in 1 .. Len(list) :
            /\ other[i].id = list[i].id /\ other[i].field = list[i].field
            /\ \/ other[i].at = list[i].at
               \/ /\ other[i].at # Nothing => other[i].at.field = other[i].field
                  /\ \A n \in 1 .. Len(copied) : copied[n].at = Nothing
            /\ other[i].shown \in Sites => other[i].shown = other[i].at
  PROVE  Sound(other, next, rest)
<1>1. /\ \A i, j \in 1 .. Len(list) : list[i].id = list[j].id => i = j
      /\ Len(list) <= MaxEntries /\ next \in Nat \ {0}
      /\ copied \in Seq(Job)
  BY DEF Sound
<1>5. rest \in Seq(Job)
  <2>1. <<>> \in Seq(Job)
    OBVIOUS
  <2> QED
    BY <1>1, <2>1
<1>2. \A i, j \in 1 .. Len(other) : other[i].id = other[j].id => i = j
  BY <1>1
<1>3. \A i \in 1 .. Len(other) :
        /\ other[i].id < next
        /\ other[i].at # Nothing => other[i].at.field = other[i].field
  BY DEF Sound
<1>4. \A n \in 1 .. Len(copied) :
        /\ copied[n].id < next
        /\ \A i \in 1 .. Len(other) :
             copied[n].id = other[i].id => copied[n].at \in {Nothing, other[i].at}
  BY DEF Sound
<1>6. \A n \in 1 .. Len(rest) :
        /\ rest[n].id < next
        /\ \A i \in 1 .. Len(other) :
             rest[n].id = other[i].id => rest[n].at \in {Nothing, other[i].at}
  BY <1>4
<1> QED
  BY <1>1, <1>2, <1>3, <1>5, <1>6 DEF Sound

-----------------------------------------------------------------------------
(* The steps. *)

\* A change of the list: what is left to show is that the new list is sound.
LEMMA ChangeKeeps ==
  ASSUME WInv, Ready, Changed, Sound(entries', nextId', jobs), SelectionIn(entries', selected'),
         selected' \in Nat, NotifySampler,
         ~rebound => \A i \in 1 .. Len(entries') : entries'[i].at = Nothing
  PROVE  WInv'
<1>1. /\ gui = "ready" /\ gui' = "open" /\ ops < MaxOps /\ ops' = ops + 1 /\ behind' = TRUE
      /\ UNCHANGED <<jobs, rebound, storage, file, tmp, bad, kept, seen, session>>
      /\ sampler' \in {sampler, "check"}
  BY DEF Ready, Changed, NotifySampler, disk
<1>2. Types'
  BY <1>1, WatchAssumption DEF WInv, Types
<1>3. Sound(entries', nextId', jobs') /\ SelectionIn(entries', selected') /\ Unbound'
  BY <1>1 DEF WInv, Unbound
<1>4. FileIsKept' /\ Fresh'
  BY <1>1 DEF WInv, FileIsKept, Fresh
<1> QED
  BY <1>2, <1>3, <1>4 DEF WInv, Sound, SelectionIn, PlottableIds

LEMMA EntryGoes ==
  ASSUME WInv, Ready, NEW i \in 1 .. Len(entries), entries' = Lists!RemoveAt(entries, i),
         selected' = EnsureValidPlotSelectionLocked(entries', selected),
         NotifySampler, Changed, nextId' = nextId
  PROVE  WInv'
<1>1. entries \in Seq(Entry) /\ selected \in Nat
  BY DEF WInv, Sound, Types
<1>2. Sound(entries', nextId', jobs)
  BY SoundWithout DEF WInv
<1>3. SelectionIn(entries', selected') /\ selected' \in Nat
  BY <1>1, <1>2, EnsuredIsValid DEF Sound
<1>4. ~rebound => \A j \in 1 .. Len(entries') : entries'[j].at = Nothing
  <2>1. /\ Len(entries') = Len(entries) - 1
        /\ \A j \in 1 .. Len(entries) - 1 :
             entries'[j] = IF j < i THEN entries[j] ELSE entries[j + 1]
    BY <1>1, Removed
  <2> QED
    BY <1>1, <2>1 DEF WInv, Unbound
<1> QED
  BY <1>2, <1>3, <1>4, ChangeKeeps

LEMMA ToggleOffKeeps ==
  ASSUME WInv, NEW f \in Fields, NEW v \in Views, ToggleOff(f, v) PROVE WInv'
<1>1. PICK i \in DOMAIN entries : entries' = Lists!RemoveAt(entries, i)
  BY DEF ToggleOff
<1>2. i \in 1 .. Len(entries)
  BY DEF WInv, Sound
<1> QED
  BY <1>1, <1>2, EntryGoes DEF ToggleOff

LEMMA RemoveKeeps ==
  ASSUME WInv, NEW i \in DOMAIN entries, Remove(i) PROVE WInv'
<1>1. i \in 1 .. Len(entries)
  BY DEF WInv, Sound
<1> QED
  BY <1>1, EntryGoes DEF Remove

LEMMA ToggleOnKeeps ==
  ASSUME WInv, NEW f \in Fields, NEW v \in Views, ToggleOn(f, v) PROVE WInv'
<1>1. /\ Ready /\ Shown(f, v) /\ Len(entries) < MaxEntries /\ nextId' = nextId + 1
      /\ selected' = (IF f \in Plottable THEN nextId ELSE selected)
      /\ NotifySampler /\ Changed
  BY DEF ToggleOn
<1>2. PICK e : e = [id |-> nextId, field |-> f, view |-> v, at |-> Site(f, v),
                    stale |-> FALSE, shown |-> Nothing]
  OBVIOUS
<1>3. entries' = Append(entries, e)
  BY <1>2 DEF ToggleOn
<1>4. Sound(entries, nextId, jobs) /\ Types /\ nextId \in Nat \ {0} /\ rebound
  BY <1>1 DEF WInv, Sound, Shown
<1>5. Site(f, v) \in Sites /\ Site(f, v).field = f
  BY <1>1, <1>4, WatchAssumption DEF Site, Sites, Fields, Shown, Types
<1>6. /\ e \in Entry /\ e.id = nextId /\ e.field = f /\ e.at.field = f /\ e.shown \notin Sites
  BY <1>2, <1>4, <1>5, WatchAssumption DEF Entry, Displays
<1>7. entries \in Seq(Entry) /\ Len(entries) \in Nat /\ Len(entries) <= MaxEntries
  BY <1>4 DEF Sound
<1>8. /\ entries' \in Seq(Entry) /\ Len(entries') = Len(entries) + 1
      /\ \A i \in 1 .. Len(entries) : entries'[i] = entries[i]
      /\ entries'[Len(entries) + 1] = e
  BY <1>3, <1>6, <1>7
<1>9. Sound(entries', nextId', jobs)
  <2>1. \A i \in 1 .. Len(entries') : i \in 1 .. Len(entries) \/ i = Len(entries) + 1
    BY <1>7, <1>8
  <2>2. \A i \in 1 .. Len(entries) : entries[i].id < nextId /\ entries[i].id \in Nat
    <3>1. \A i \in 1 .. Len(entries) : entries[i] \in Entry
      BY <1>7
    <3> QED
      BY <1>4, <3>1 DEF Sound, Entry
  <2>3. \A i, j \in 1 .. Len(entries') : entries'[i].id = entries'[j].id => i = j
    BY <1>4, <1>6, <1>8, <2>1, <2>2 DEF Sound
  <2>4. \A i \in 1 .. Len(entries') :
          /\ entries'[i].id < nextId'
          /\ entries'[i].at # Nothing => entries'[i].at.field = entries'[i].field
          /\ entries'[i].shown \in Sites => entries'[i].shown = entries'[i].at
    <3>1. ASSUME NEW i \in 1 .. Len(entries)
          PROVE  /\ entries'[i].id < nextId'
                 /\ entries'[i].at # Nothing => entries'[i].at.field = entries'[i].field
                 /\ entries'[i].shown \in Sites => entries'[i].shown = entries'[i].at
      <4>1. entries'[i] = entries[i] /\ entries[i].id < nextId /\ entries[i].id \in Nat
        BY <1>8, <2>2
      <4> QED
        BY <1>1, <1>4, <4>1 DEF Sound
    <3>2. e.id < nextId' /\ e.at.field = e.field /\ e.shown \notin Sites
      BY <1>1, <1>4, <1>6
    <3> QED
      BY <1>8, <2>1, <3>1, <3>2
  <2>5. \A n \in 1 .. Len(jobs) : jobs[n].id < nextId /\ jobs[n].id \in Nat
    <3>1. jobs \in Seq(Job)
      BY <1>4 DEF Sound
    <3>2. \A n \in 1 .. Len(jobs) : jobs[n] \in Job
      BY <3>1
    <3>3. \A n \in 1 .. Len(jobs) : jobs[n].id \in Nat
      BY <3>2 DEF Job
    <3> QED
      BY <1>4, <3>3 DEF Sound
  <2>6. \A n \in 1 .. Len(jobs) :
          /\ jobs[n].id < nextId'
          /\ \A i \in 1 .. Len(entries') :
               jobs[n].id = entries'[i].id => jobs[n].at \in {Nothing, entries'[i].at}
    <3>1. ASSUME NEW n \in 1 .. Len(jobs), NEW i \in 1 .. Len(entries'), jobs[n].id = entries'[i].id
          PROVE  jobs[n].at \in {Nothing, entries'[i].at}
      <4>1. i \in 1 .. Len(entries)
        BY <1>4, <1>6, <1>8, <2>1, <2>5, <3>1
      <4>2. entries'[i] = entries[i]
        BY <1>8, <4>1
      <4> QED
        BY <1>4, <3>1, <4>1, <4>2 DEF Sound
    <3>2. \A n \in 1 .. Len(jobs) : jobs[n].id < nextId'
      BY <1>1, <1>4, <2>5
    <3> QED
      BY <3>1, <3>2
  <2> QED
    BY <1>1, <1>4, <1>7, <1>8, <2>3, <2>4, <2>6, WatchAssumption DEF Sound
<1>10. SelectionIn(entries', selected') /\ selected' \in Nat
  <2>1. DOMAIN entries = 1 .. Len(entries) /\ DOMAIN entries' = 1 .. Len(entries) + 1
    BY <1>7, <1>8
  <2>2. PlottableIds(entries') = IF f \in Plottable THEN PlottableIds(entries) \cup {Len(entries) + 1}
                                 ELSE PlottableIds(entries)
    BY <1>6, <1>7, <1>8, <2>1 DEF PlottableIds
  <2>3. PlottableIds(entries) \subseteq 1 .. Len(entries)
    BY <2>1 DEF PlottableIds
  <2>4. SelectionIn(entries, selected) /\ selected \in Nat
    BY DEF WInv, Types
  <2> QED
    BY <1>1, <1>4, <1>6, <1>8, <2>2, <2>3, <2>4 DEF SelectionIn
<1> QED
  BY <1>1, <1>4, <1>9, <1>10, ChangeKeeps

LEMMA ClearKeeps == ASSUME WInv, Clear PROVE WInv'
<1>1. Ready /\ entries' = <<>> /\ selected' = 0 /\ NotifySampler /\ Changed /\ nextId' = nextId
  BY DEF Clear
<1>2. Len(entries') = 0 /\ entries' \in Seq(Entry) /\ DOMAIN entries' = {}
  BY <1>1
<1>3. Sound(entries', nextId', jobs)
  BY <1>1, <1>2, WatchAssumption DEF WInv, Sound
<1>4. SelectionIn(entries', selected')
  BY <1>1, <1>2 DEF SelectionIn, PlottableIds
<1> QED
  BY <1>1, <1>2, <1>3, <1>4, ChangeKeeps

\* A step of the file or of the sampler that leaves the list alone.
LEMMA SaveKeeps == ASSUME WInv, Save \/ SaveFails PROVE WInv'
<1>1. /\ UNCHANGED <<entries, nextId, selected, sampler, jobs, rebound, storage, bad, seen, ops, session>>
      /\ gui \in {"open", "fill", "move"} /\ gui' \in {"fill", "move", "ready"}
  BY DEF Save, SaveFails, OpenTmp, FillTmp, MoveTmp, model, thread, history
<1>2. entries \in Seq(Entry) /\ Len(entries) <= MaxEntries
  BY DEF WInv, Sound
<1>3. Recipes(entries) \in Seq(Fields) /\ Len(Recipes(entries)) = Len(entries)
  BY <1>2, RecipesAre
<1>4. Types' /\ FileIsKept'
  <2>1. CASE OpenTmp
    <3>1. /\ tmp' = [is |-> "partial", list |-> <<>>] /\ gui' = "fill"
          /\ UNCHANGED <<file, kept, behind>>
      BY <2>1 DEF OpenTmp, history, NoFile
    <3>2. tmp' \in [is : FileStates, list : Seq(Fields)]
      BY <3>1 DEF FileStates
    <3> QED
      BY <1>1, <3>1, <3>2 DEF WInv, Types, FileIsKept, Recipes
  <2>2. CASE FillTmp
    BY <1>1, <1>3, <2>2 DEF FillTmp, WInv, Types, FileIsKept, history, Whole, FileStates, Recipes
  <2>3. CASE MoveTmp
    <3>1. /\ file' = Whole(Recipes(entries)) /\ kept' = Recipes(entries) /\ behind' = FALSE
          /\ tmp' = NoFile /\ gui' = "ready"
      BY <2>3 DEF MoveTmp, WInv, FileIsKept
    <3>2. Recipes(entries)' = Recipes(entries)
      BY <1>1 DEF Recipes
    <3>3. file' \in [is : FileStates, list : Seq(Fields)] /\ tmp' \in [is : FileStates, list : Seq(Fields)]
      BY <1>3, <3>1 DEF Whole, FileStates, NoFile
    <3>4. Types'
      BY <1>1, <1>3, <3>1, <3>3 DEF WInv, Types
    <3>5. FileIsKept'
      BY <1>1, <1>2, <1>3, <3>1, <3>2 DEF FileIsKept, Whole
    <3> QED
      BY <3>4, <3>5
  <2>4. CASE SaveFails
    BY <1>1, <2>4 DEF SaveFails, WInv, Types, FileIsKept, history, NoFile, FileStates, Recipes
  <2> QED
    BY <2>1, <2>2, <2>3, <2>4 DEF Save
<1> QED
  BY <1>1, <1>4 DEF WInv, Sound, SelectionIn, PlottableIds, Unbound, Fresh

LEMMA LoadKeeps == ASSUME WInv, LoadInto PROVE WInv'
<1>1. /\ gui = "init" /\ gui' = "ready" /\ sampler' \in {sampler, "check"} /\ behind' = FALSE
      /\ UNCHANGED <<jobs, rebound, storage, tmp, kept, seen, ops, session>>
  BY DEF LoadInto, NotifySampler
<1>2. entries = <<>> /\ jobs = <<>> /\ ~rebound /\ file.list = kept /\ Len(kept) <= MaxEntries
      /\ file.list \in Seq(Fields) /\ file.is # "partial"
  BY <1>1 DEF WInv, Fresh, FileIsKept, Types
<1>3. CASE Readable
  <2>1. entries' = FromRecipes(kept) /\ nextId' = Len(entries') + 1
        /\ selected' = FirstPlottable(entries') /\ file' = file /\ bad' = bad
    BY <1>2, <1>3 DEF LoadInto
  <2>2. \A i \in 1 .. Len(kept) :
          [id |-> i, field |-> kept[i], view |-> Nothing, at |-> Nothing,
           stale |-> TRUE, shown |-> Nothing] \in Entry
    BY <1>2 DEF Entry, Views, Displays
  <2>3. DOMAIN kept = 1 .. Len(kept) /\ Len(kept) \in Nat
    BY <1>2
  <2>4. FromRecipes(kept) \in [1 .. Len(kept) -> Entry]
    BY <2>2, <2>3 DEF FromRecipes
  <2>5. /\ entries' \in Seq(Entry) /\ Len(entries') = Len(kept)
        /\ \A i \in 1 .. Len(kept) :
             /\ entries'[i].id = i /\ entries'[i].field = kept[i]
             /\ entries'[i].at = Nothing /\ entries'[i].shown = Nothing
    <3>1. entries' \in Seq(Entry) /\ Len(entries') = Len(kept)
      BY <2>1, <2>3, <2>4, SeqOf
    <3> QED
      BY <2>1, <2>3, <3>1 DEF FromRecipes
  <2>6. Sound(entries', nextId', jobs')
    BY <1>1, <1>2, <2>1, <2>3, <2>5, WatchAssumption DEF Sound
  <2>7. SelectionIn(entries', selected') /\ selected' \in Nat
    BY <2>1, <2>5, FirstIsValid
  <2>8. Recipes(entries') = kept
    <3>1. /\ Recipes(entries') \in Seq(Fields) /\ Len(Recipes(entries')) = Len(kept)
          /\ \A i \in 1 .. Len(kept) : Recipes(entries')[i] = kept[i]
      BY <2>5, RecipesAre
    <3> QED
      BY <1>2, <3>1, SeqEqual
  <2>9. Types'
    BY <1>1, <2>1, <2>7 DEF WInv, Types
  <2>10. FileIsKept' /\ Fresh' /\ Unbound'
    BY <1>1, <1>2, <2>1, <2>5, <2>8 DEF WInv, FileIsKept, Fresh, Unbound, Recipes
  <2> QED
    BY <2>6, <2>7, <2>9, <2>10 DEF WInv, Sound, SelectionIn, PlottableIds
<1>4. CASE ~Readable
  <2>1. file.is = "unreadable" /\ kept = <<>>
    BY <1>2, <1>4 DEF WInv, FileIsKept, Types, Readable, FileStates
  <2>2. /\ UNCHANGED <<entries, nextId, selected>> /\ bad' = TRUE
        /\ file' = file \/ file' = NoFile
    BY <1>4 DEF LoadInto, model
  <2>3. Types'
    BY <1>1, <2>2, NoFileIsFile DEF WInv, Types
  <2>4. Recipes(entries') = <<>>
    BY <1>2, <2>2 DEF Recipes
  <2>5. FileIsKept'
    BY <1>1, <1>2, <2>1, <2>2, <2>4 DEF WInv, FileIsKept, NoFile
  <2> QED
    BY <1>1, <2>2, <2>3, <2>5 DEF WInv, Sound, SelectionIn, PlottableIds, Unbound, Fresh
<1> QED
  BY <1>3, <1>4

LEMMA RebindKeeps == ASSUME WInv, Rebind PROVE WInv'
<1>1. /\ gui = "ready" /\ ~rebound /\ rebound' = TRUE /\ sampler' \in {sampler, "check"}
      /\ UNCHANGED <<nextId, selected, jobs, gui, storage, file, tmp, bad, kept, behind, seen, ops, session>>
      /\ entries' = [i \in DOMAIN entries |-> Bound(entries[i])]
  BY DEF Rebind, NotifySampler, disk, history
<1>0. Sound(entries, nextId, jobs) /\ SelectionIn(entries, selected) /\ storage \subseteq Statics
  BY DEF WInv, Types
<1>2. /\ entries \in Seq(Entry) /\ DOMAIN entries = 1 .. Len(entries) /\ Len(entries) \in Nat
      /\ storage \subseteq Statics
      /\ Sound(entries, nextId, jobs) /\ SelectionIn(entries, selected)
  BY <1>0 DEF Sound
<1>3. ASSUME NEW i \in 1 .. Len(entries)
      PROVE  /\ Bound(entries[i]) \in Entry
             /\ Bound(entries[i]).id = entries[i].id /\ Bound(entries[i]).field = entries[i].field
             /\ Bound(entries[i]).at # Nothing => Bound(entries[i]).at.field = entries[i].field
             /\ Bound(entries[i]).shown = entries[i].shown
  <2>1. PICK e \in Entry : e = entries[i]
    BY <1>2
  <2>2. CASE e.field \in storage
    <3>1. Site(e.field, Nothing) \in Sites /\ Site(e.field, Nothing).field = e.field
      BY <1>2, <2>2 DEF Site, Sites
    <3>2. Bound(e) = [e EXCEPT !.view = Nothing, !.at = Site(e.field, Nothing), !.stale = FALSE]
      BY <2>2 DEF Bound
    <3> QED
      BY <2>1, <3>1, <3>2 DEF Entry, Views
  <2>3. CASE e.field \notin storage
    <3>1. Bound(e) = [e EXCEPT !.view = Nothing, !.at = Nothing, !.stale = TRUE]
      BY <2>3 DEF Bound
    <3> QED
      BY <2>1, <3>1 DEF Entry, Views
  <2> QED
    BY <2>2, <2>3
<1>4. entries' \in [1 .. Len(entries) -> Entry]
  BY <1>1, <1>2, <1>3
<1>5. entries' \in Seq(Entry) /\ Len(entries') = Len(entries)
  BY <1>2, <1>4, SeqOf
<1>6. \A i \in 1 .. Len(entries) :
        /\ entries'[i].id = entries[i].id /\ entries'[i].field = entries[i].field
        /\ entries'[i].at # Nothing => entries'[i].at.field = entries'[i].field
        /\ entries'[i].shown = entries[i].shown
  BY <1>1, <1>2, <1>3
<1>7. /\ \A i \in 1 .. Len(entries) : entries[i].at = Nothing
      /\ \A n \in 1 .. Len(jobs) : jobs[n].at = Nothing
  BY <1>1 DEF WInv, Unbound
<1>8. \A i \in 1 .. Len(entries) : entries'[i].shown \notin Sites
  BY <1>2, <1>6, <1>7, WatchAssumption DEF Sound
<1>9. Sound(entries', nextId, jobs)
  BY <1>2, <1>5, <1>6, <1>7, <1>8, SoundRewritten
<1>10. SelectionIn(entries', selected) /\ Recipes(entries') = Recipes(entries)
  BY <1>2, <1>5, <1>6, SelectionStays, SameRecipes
<1>11. Types' /\ FileIsKept' /\ Fresh' /\ Unbound'
  BY <1>1, <1>10 DEF WInv, Types, FileIsKept, Fresh, Unbound, Recipes
<1>12. Sound(entries, nextId, jobs)'
  <2>1. nextId' = nextId /\ jobs' = jobs
    BY <1>1
  <2> QED
    BY <1>9, <2>1 DEF Sound
<1>13. SelectionIn(entries, selected)'
  BY <1>1, <1>10 DEF SelectionIn, PlottableIds
<1> QED
  BY <1>11, <1>12, <1>13 DEF WInv

LEMMA ApplyKeeps == ASSUME WInv, ApplyResults PROVE WInv'
<1>1. PICK results \in [{jobs[n].id : n \in DOMAIN jobs} -> Sites \cup {Unknown}] :
        /\ \A n \in DOMAIN jobs : results[jobs[n].id] \in ReadAt(jobs[n].at)
        /\ entries' = Updated(entries, results)
  BY DEF ApplyResults
<1>2. /\ sampler' = "pause" /\ jobs' = <<>>
      /\ UNCHANGED <<nextId, selected, gui, rebound, storage, file, tmp, bad, kept, behind, seen, ops, session>>
  BY DEF ApplyResults, disk, history
<1>3. /\ entries \in Seq(Entry) /\ DOMAIN entries = 1 .. Len(entries) /\ Len(entries) \in Nat
      /\ DOMAIN jobs = 1 .. Len(jobs)
      /\ Sound(entries, nextId, jobs) /\ SelectionIn(entries, selected)
  BY DEF WInv, Sound
<1>4. PICK list : list = [i \in 1 .. Len(entries) |->
        IF entries[i].id \in DOMAIN results
        THEN [entries[i] EXCEPT !.shown = results[entries[i].id],
                                !.stale = results[entries[i].id] = Unknown]
        ELSE entries[i]]
  OBVIOUS
<1>5. entries' = list
  BY <1>1, <1>3, <1>4 DEF Updated
<1>6. ASSUME NEW i \in 1 .. Len(entries)
      PROVE  /\ list[i] \in Entry
             /\ list[i].id = entries[i].id /\ list[i].field = entries[i].field
             /\ list[i].at = entries[i].at
             /\ list[i].shown \in Sites => list[i].shown = list[i].at
  <2>1. PICK e \in Entry : e = entries[i]
    BY <1>3
  <2>2. CASE e.id \in DOMAIN results
    <3>1. PICK n \in 1 .. Len(jobs) : jobs[n].id = e.id
      BY <1>1, <1>3, <2>2
    <3>2. results[e.id] \in Sites \cup {Unknown} /\ results[e.id] \in ReadAt(jobs[n].at)
      BY <1>1, <1>3, <3>1
    <3>3. PICK v \in BOOLEAN : v <=> results[e.id] = Unknown
      OBVIOUS
    <3>4. list[i] = [e EXCEPT !.shown = results[e.id], !.stale = v]
      BY <1>4, <2>1, <2>2, <3>3
    <3>5. jobs[n].at \in {Nothing, e.at}
      BY <1>3, <2>1, <3>1 DEF Sound
    <3>6. results[e.id] \in Sites => results[e.id] = e.at
      BY <3>2, <3>5, WatchAssumption DEF ReadAt
    <3> QED
      BY <2>1, <3>2, <3>4, <3>6 DEF Entry, Displays
  <2>3. CASE e.id \notin DOMAIN results
    <3>1. list[i] = e
      BY <1>4, <2>1, <2>3
    <3> QED
      BY <1>3, <2>1, <3>1 DEF Sound
  <2> QED
    BY <2>2, <2>3
<1>7. list \in [1 .. Len(entries) -> Entry]
  BY <1>4, <1>6
<1>8. list \in Seq(Entry) /\ Len(list) = Len(entries)
  BY <1>3, <1>7, SeqOf
<1>9. Sound(list, nextId, <<>>)
  BY <1>3, <1>6, <1>8, SoundRewritten
<1>10. SelectionIn(list, selected) /\ Recipes(list) = Recipes(entries)
  BY <1>3, <1>6, <1>8, SelectionStays, SameRecipes
<1>11. Unbound'
  BY <1>2, <1>5, <1>6, <1>8 DEF WInv, Unbound
<1>12. Fresh'
  <2>1. CASE gui = "init"
    <3>1. entries = <<>> /\ jobs = <<>> /\ ~rebound
      BY <2>1 DEF WInv, Fresh
    <3>2. Len(list) = 0
      BY <1>8, <3>1
    <3>3. list = <<>>
      BY <1>8, <3>2
    <3> QED
      BY <1>2, <1>5, <3>1, <3>3 DEF Fresh
  <2>2. CASE gui # "init"
    BY <1>2, <2>2 DEF Fresh
  <2> QED
    BY <2>1, <2>2
<1>13. Types' /\ FileIsKept'
  BY <1>2, <1>5, <1>10 DEF WInv, Types, FileIsKept, Recipes
<1> QED
  BY <1>2, <1>5, <1>9, <1>10, <1>11, <1>12, <1>13 DEF WInv, Sound, SelectionIn, PlottableIds

LEMMA TakeKeeps == ASSUME WInv, TakeJobs PROVE WInv'
<1>1. /\ sampler' = "read" /\ entries # <<>>
      /\ UNCHANGED <<entries, nextId, selected, gui, rebound, storage, file, tmp, bad, kept, behind, seen, ops, session>>
      /\ jobs' = [i \in DOMAIN entries |-> [id |-> entries[i].id, at |-> entries[i].at]]
  BY DEF TakeJobs, model, disk, history
<1>2. entries \in Seq(Entry) /\ DOMAIN entries = 1 .. Len(entries) /\ Len(entries) \in Nat
      /\ Sound(entries, nextId, jobs)
  BY DEF WInv, Sound
<1>3. ASSUME NEW i \in 1 .. Len(entries)
      PROVE  [id |-> entries[i].id, at |-> entries[i].at] \in Job
  <2>1. entries[i] \in Entry
    BY <1>2
  <2> QED
    BY <2>1 DEF Entry, Job
<1>4. jobs' \in [1 .. Len(entries) -> Job]
  BY <1>1, <1>2, <1>3
<1>5. jobs' \in Seq(Job) /\ Len(jobs') = Len(entries)
  BY <1>2, <1>4, SeqOf
<1>6. \A n \in 1 .. Len(entries) : jobs'[n].id = entries[n].id /\ jobs'[n].at = entries[n].at
  BY <1>1, <1>2
<1>7. Sound(entries, nextId, jobs')
  BY <1>2, <1>5, <1>6 DEF Sound
<1>8. Types' /\ FileIsKept' /\ Fresh' /\ Unbound'
  BY <1>1, <1>5, <1>6 DEF WInv, Types, FileIsKept, Fresh, Unbound, Recipes
<1>9. Sound(entries, nextId, jobs)'
  BY <1>1, <1>7 DEF Sound
<1>10. SelectionIn(entries, selected)'
  BY <1>1 DEF WInv, SelectionIn, PlottableIds
<1> QED
  BY <1>8, <1>9, <1>10 DEF WInv

LEMMA OthersKeep ==
  ASSUME WInv, SamplerSleeps \/ PauseEnds \/ (\E s \in Statics : ClassInitialised(s)) \/ Damage \/ UNCHANGED vars
  PROVE  WInv'
<1>1. UNCHANGED <<entries, nextId, selected, jobs, gui, rebound>>
  BY DEF SamplerSleeps, PauseEnds, ClassInitialised, Damage, vars, model, thread
<1>2. Sound(entries, nextId, jobs)'
  BY <1>1 DEF WInv, Sound
<1>3. SelectionIn(entries, selected)'
  BY <1>1 DEF WInv, SelectionIn, PlottableIds
<1>4. Unbound' /\ Fresh'
  BY <1>1 DEF WInv, Unbound, Fresh
<1>5. SUFFICES Types' /\ FileIsKept'
  BY <1>2, <1>3, <1>4 DEF WInv
<1>6. CASE Damage
  <2>1. /\ gui = "init" /\ ops < MaxOps /\ ops' = ops + 1 /\ kept' = <<>> /\ behind' = TRUE
        /\ file' = [is |-> "unreadable", list |-> <<>>]
        /\ UNCHANGED <<sampler, storage, tmp, bad, seen, session>>
    BY <1>6 DEF Damage, NoFile, thread
  <2>2. file' \in [is : FileStates, list : Seq(Fields)] /\ kept' \in Seq(Fields) /\ Len(kept') = 0
    BY <2>1 DEF FileStates
  <2>3. Types' /\ FileIsKept'
    BY <1>1, <2>1, <2>2, WatchAssumption DEF WInv, Types, FileIsKept
  <2> QED
    BY <2>3
<1>7. CASE ~Damage
  <2>1. /\ sampler' \in {sampler, "asleep", "check"} /\ storage' \subseteq storage \cup Statics
        /\ UNCHANGED <<file, tmp, bad, kept, behind, seen, ops, session>>
    BY <1>7 DEF SamplerSleeps, PauseEnds, ClassInitialised, vars, disk, history, thread
  <2>2. Types' /\ FileIsKept'
    BY <1>1, <2>1 DEF WInv, Types, FileIsKept, Recipes
  <2> QED
    BY <2>2
<1> QED
  BY <1>6, <1>7

LEMMA ProcessKeeps == ASSUME WInv, NextProcess PROVE WInv'
<1>1. /\ session < MaxSessions /\ session' = session + 1
      /\ entries' = <<>> /\ nextId' = 1 /\ selected' = 0 /\ sampler' = "check" /\ jobs' = <<>>
      /\ gui' = "init" /\ rebound' = FALSE /\ storage' = Statics \ LateStatics
      /\ seen' = (IF gui = "init" THEN seen ELSE Recipes(entries))
      /\ tmp' = NoFile /\ UNCHANGED <<file, bad, kept, behind, ops>>
  BY DEF NextProcess
<1>2. <<>> \in Seq(Entry) /\ <<>> \in Seq(Job) /\ <<>> \in Seq(Fields) /\ Len(<<>>) = 0
  OBVIOUS
<1>3. Sound(entries', nextId', jobs')
  BY <1>1, <1>2, WatchAssumption DEF Sound
<1>4. SelectionIn(entries', selected') /\ Unbound' /\ Fresh'
  BY <1>1 DEF SelectionIn, PlottableIds, Unbound, Fresh
<1>5. entries \in Seq(Entry)
  BY DEF WInv, Sound
<1>6. Recipes(entries) \in Seq(Fields)
  BY <1>5, RecipesAre
<1>7. Types'
  <2>1. file' \in [is : FileStates, list : Seq(Fields)] /\ tmp' \in [is : FileStates, list : Seq(Fields)]
    BY <1>1, NoFileIsFile DEF WInv, Types
  <2>2. kept' \in Seq(Fields) /\ seen' \in Seq(Fields)
    BY <1>1, <1>6 DEF WInv, Types
  <2>3. ops' \in 0 .. MaxOps /\ session' \in 1 .. MaxSessions
    BY <1>1, WatchAssumption DEF WInv, Types
  <2>4. storage' \subseteq Statics /\ selected' \in Nat /\ bad' \in BOOLEAN /\ rebound' \in BOOLEAN /\ behind' \in BOOLEAN
    BY <1>1 DEF WInv, Types
  <2> QED
    BY <1>1, <2>1, <2>2, <2>3, <2>4 DEF Types
<1>8. FileIsKept'
  BY <1>1 DEF WInv, FileIsKept
<1> QED
  BY <1>3, <1>4, <1>7, <1>8 DEF WInv, Sound, SelectionIn, PlottableIds

LEMMA InitWInv == Init => WInv
<1> SUFFICES ASSUME Init PROVE WInv
  OBVIOUS
<1>1. <<>> \in Seq(Entry) /\ <<>> \in Seq(Job) /\ <<>> \in Seq(Fields) /\ Len(<<>>) = 0
  OBVIOUS
<1>2. Sound(entries, nextId, jobs) /\ SelectionIn(entries, selected)
  BY <1>1, WatchAssumption DEF Init, Sound, SelectionIn, PlottableIds
<1>3. Types
  <2>1. file \in [is : FileStates, list : Seq(Fields)] /\ tmp \in [is : FileStates, list : Seq(Fields)]
    BY NoFileIsFile DEF Init
  <2>2. kept \in Seq(Fields) /\ seen \in Seq(Fields)
    BY <1>1 DEF Init
  <2>3. ops \in 0 .. MaxOps /\ session \in 1 .. MaxSessions
    BY WatchAssumption DEF Init
  <2>4. storage \subseteq Statics /\ selected \in Nat /\ bad \in BOOLEAN /\ rebound \in BOOLEAN /\ behind \in BOOLEAN
    BY DEF Init
  <2>5. sampler = "check" /\ gui = "init"
    BY DEF Init
  <2> QED
    BY <2>1, <2>2, <2>3, <2>4, <2>5 DEF Types
<1>4. FileIsKept /\ Fresh /\ Unbound
  BY <1>1, WatchAssumption DEF Init, FileIsKept, Fresh, Unbound, NoFile
<1> QED
  BY <1>2, <1>3, <1>4 DEF WInv

LEMMA NextWInv == WInv /\ [Next]_vars => WInv'
<1> SUFFICES ASSUME WInv, [Next]_vars PROVE WInv'
  OBVIOUS
<1>1. CASE Change
  BY <1>1, ToggleOffKeeps, ToggleOnKeeps, RemoveKeeps, ClearKeeps DEF Change
<1>2. CASE Sample
  BY <1>2, TakeKeeps, ApplyKeeps, OthersKeep DEF Sample
<1>3. CASE Save \/ SaveFails \/ LoadInto \/ Rebind \/ NextProcess
  BY <1>3, SaveKeeps, LoadKeeps, RebindKeeps, ProcessKeeps
<1>4. CASE Game \/ Damage \/ UNCHANGED vars
  BY <1>4, OthersKeep DEF Game
<1> QED
  BY <1>1, <1>2, <1>3, <1>4 DEF Next

LEMMA WatchInvariance == Spec => []WInv
  BY InitWInv, NextWInv, PTL DEF Spec

\* The list is well formed in every state of every session: types, the selection for
\* plots, and that a value on display was read where its own entry reads.
THEOREM WatchesConsistent == Spec => []ListConsistent
<1>1. WInv => ListConsistent
  <2> SUFFICES ASSUME WInv PROVE ListConsistent
    OBVIOUS
  <2>1. DOMAIN entries = 1 .. Len(entries) /\ Sound(entries, nextId, jobs) /\ Types
        /\ SelectionIn(entries, selected)
    BY DEF WInv, Sound
  <2>2. TypeOK
    BY <2>1 DEF TypeOK, Types, Sound, Job
  <2>3. SampleIsOwn
    BY <2>1, WatchAssumption DEF SampleIsOwn, Sound
  <2> QED
    BY <2>1, <2>2, <2>3 DEF ListConsistent, SelectionValid, SelectionIn
<1> QED
  BY <1>1, WatchInvariance, PTL

\* A session begins with the list the session before ended with, or with the last list
\* that was written if the last change was not; a file is never half a list.
THEOREM WatchesSurvive == Spec => ListSurvives
<1>1. WInv /\ [Next]_vars =>
        [gui = "init" /\ gui' = "ready" /\ file.is # "unreadable" =>
           file.is # "partial" /\ Recipes(entries') = IF behind THEN kept ELSE seen]_vars
  <2> SUFFICES ASSUME WInv, Next, gui = "init", gui' = "ready", file.is # "unreadable"
               PROVE  file.is # "partial" /\ Recipes(entries') = IF behind THEN kept ELSE seen
    OBVIOUS
  <2>1. file.list = kept /\ file.is # "partial" /\ kept \in Seq(Fields) /\ file \in [is : FileStates, list : Seq(Fields)]
        /\ (~behind => kept = seen)
    BY DEF WInv, FileIsKept, Types
  <2>2. LoadInto
    BY DEF Next, Change, ToggleOff, ToggleOn, Remove, Clear, Ready, Save, OpenTmp, FillTmp, MoveTmp,
           SaveFails, Rebind, Sample, SamplerSleeps, TakeJobs, ApplyResults, PauseEnds, Game,
           ClassInitialised, NextProcess, Damage
  <2>3. Readable
    BY <2>1 DEF Readable, FileStates
  <2>4. entries' = FromRecipes(kept)
    BY <2>1, <2>2, <2>3 DEF LoadInto
  <2>5. WInv'
    BY NextWInv
  <2>6. ~behind' /\ gui' # "init"
    BY <2>2 DEF LoadInto
  <2>7. kept' = kept /\ Recipes(entries)' = kept'
    BY <2>2, <2>5, <2>6 DEF WInv, FileIsKept, LoadInto
  <2> QED
    BY <2>1, <2>7
<1> QED
  BY <1>1, WatchInvariance, PTL DEF Spec, ListSurvives

-----------------------------------------------------------------------------
(* The inductive invariant. *)

HeapOK ==
  /\ lists \in [Holders -> [items : Arrays, size : Nat]]
  /\ arrays \in [Arrays -> Seq(Numbers)]
  /\ number \in [Owners -> Numbers]

\* What the rows show: nothing is loaded for another place than the one on display,
\* and a list is never replaced by a load of the fields.
Loaded ==
  /\ active \in Owners /\ loadedFor \in Owners /\ rows \in View
  /\ view \in [root : Owners, list : Holders \cup {Null}]
  /\ fieldsJob \in LoaderStates /\ viewJob \in LoaderStates
  /\ fieldsJob.is = "read" => fieldsJob.place \in Places /\ fieldsJob.place.list = FALSE
  /\ viewJob # NoJob =>
       /\ viewJob.place \in Places
       /\ IF view.list = Null THEN viewJob.place.list = FALSE ELSE viewJob.place = Place(view.list, TRUE)
  /\ view.list # Null => fieldsJob = NoJob
  /\ viewJob = NoJob =>
       rows.place = IF view.list = Null THEN Place(loadedFor, FALSE) ELSE Place(view.list, TRUE)

\* In a calm frame without a load the rows are those of the active object.
InFrame ==
  /\ frame \in {"tick", "copy", "tab"} /\ drawn \in View /\ calm \in BOOLEAN
  /\ frame # "tick" /\ calm /\ ~fieldsBusy /\ view.list = Null => active = loadedFor
  /\ frame = "tab" /\ calm => drawn = rows

\* A text is kept for the value it was typed for or read from, or it was carried there.
Texts == [text : Numbers, cell : Cells, carried : BOOLEAN]
Own(texts) ==
  /\ DOMAIN texts \subseteq Cells
  /\ \A at \in DOMAIN texts : texts[at] \in Texts /\ (texts[at].carried \/ texts[at].cell = at)

\* The active input is in the row of its value, unless another row has come under it.
Active(typed, list) ==
  \/ typed = NoTyping
  \/ /\ typed \in [row : Nat \ {0}, text : Numbers, cell : Cells, carried : BOOLEAN]
     /\ ~typed.carried /\ typed.row \in DOMAIN list => list[typed.row].at = typed.cell

Elements == [array : Arrays, index : Nat \ {0}]

Click == [op : {"edit", "add"}, row : Nat, step : {"items", "size", "length", "write"},
          list : Holders \cup {Null}, items : Arrays \cup {Null}, size : Nat, calm : BOOLEAN,
          at : Cells \cup {Null}, text : Nat, cell : Cells \cup {Null}, carried : BOOLEAN]

\* What a click has read of an undisturbed list is still so.
Unchanged(c) ==
  LET l == lists[c.list] IN
  /\ c.step \in {"size", "length"} => c.items = l.items
  /\ c.step = "length" => c.size = l.size
  /\ c.step = "write" /\ c.op = "add" => c.size = l.size /\ l.size < Len(arrays[l.items])
  /\ c.step = "write" /\ c.op = "edit" /\ c.at \in Elements =>
       c.at.array = l.items /\ c.at.index <= l.size /\ c.at.index <= Len(arrays[l.items])

ClickIsSound(c) ==
  /\ c \in Click
  /\ c.op = "edit" => c.at \in Cells /\ c.text \in Numbers /\ (c.carried \/ c.cell = c.at)
  /\ c.op = "add" \/ c.step # "write" => c.list # Null
  /\ c.op = "edit" /\ c.step # "write" => c.at \in Elements
  /\ c.step \in {"size", "length"} => c.items \in Arrays
  /\ c.list # Null /\ c.calm => Unchanged(c)

\* A snapshot that counts is of the place its scope tells.
Study ==
  /\ showChanges \in BOOLEAN
  /\ snapshot.of # Null => snapshot.of = Place(snapshot.scope[2], snapshot.scope[1])
  /\ snapshot.of # Null /\ diff.of # Null /\ diff.tints # <<>> => diff.of = snapshot.of

Counters == games \in 0..MaxGame /\ pressed \in 0..MaxClicks

EInv ==
  /\ HeapOK /\ Loaded /\ InFrame /\ Own(buffers) /\ Active(typing, drawn.list) /\ Study /\ Counters
  /\ click = NoClick \/ ClickIsSound(click)

-----------------------------------------------------------------------------
(* Operators of the model. *)

LEMMA CellKinds ==
  ASSUME NEW at \in Cells
  PROVE  /\ "array" \in DOMAIN at <=> at \in Elements
         /\ "object" \in DOMAIN at <=> at \in [object : Owners]
<1>1. CASE at \in [object : Owners]
  <2>1. DOMAIN at = {"object"}
    BY <1>1
  <2>2. at \notin Elements
    <3>1. \A e \in Elements : "array" \in DOMAIN e
      BY DEF Elements
    <3> QED
      BY <2>1, <3>1
  <2> QED
    BY <1>1, <2>1, <2>2
<1>2. CASE at \in Elements
  <2>1. DOMAIN at = {"array", "index"}
    BY <1>2 DEF Elements
  <2>2. at \notin [object : Owners]
    <3>1. \A e \in [object : Owners] : "object" \in DOMAIN e
      OBVIOUS
    <3> QED
      BY <2>1, <3>1
  <2> QED
    BY <1>2, <2>1, <2>2
<1> QED
  BY <1>1, <1>2 DEF Cells, Elements

LEMMA RowsAreRows ==
  ASSUME HeapOK, NEW o \in Owners
  PROVE  RowsOf(Place(o, TRUE)) \in Seq(Row) /\ RowsOf(Place(o, FALSE)) \in Seq(Row)
<1>1. GetRawFields(o) \in Seq(Row)
  <2>1. [object |-> o] \in Cells /\ number[o] \in Numbers
    BY DEF Cells, HeapOK
  <2>2. [name |-> 0, at |-> [object |-> o], shown |-> number[o]] \in Row
    BY <2>1 DEF Row
  <2> QED
    BY <2>2 DEF GetRawFields
<1>2. GetCollectionView(o) \in Seq(Row)
  <2>1. CASE o \notin Holders
    <3>1. <<>> \in Seq(Row)
      OBVIOUS
    <3> QED
      BY <2>1, <3>1 DEF GetCollectionView
  <2>2. CASE o \in Holders
    <3>1. PICK a \in Arrays : a = lists[o].items
      BY <2>2 DEF HeapOK
    <3>2. lists[o].size \in Nat /\ arrays[a] \in Seq(Numbers) /\ Len(arrays[a]) \in Nat
      BY <2>2 DEF HeapOK
    <3>3. PICK n \in Nat : n = Smaller(lists[o].size, Len(arrays[a])) /\ n <= Len(arrays[a])
      BY <3>2 DEF Smaller
    <3>4. \A i \in 1..n : [name |-> i, at |-> [array |-> a, index |-> i], shown |-> arrays[a][i]] \in Row
      <4> SUFFICES ASSUME NEW i \in 1..n
                   PROVE  [name |-> i, at |-> [array |-> a, index |-> i], shown |-> arrays[a][i]] \in Row
        OBVIOUS
      <4>1. arrays[a][i] \in Numbers
        BY <3>2, <3>3
      <4>2. [array |-> a, index |-> i] \in Cells
        BY <3>3 DEF Cells
      <4> QED
        BY <3>3, <4>1, <4>2 DEF Row
    <3>5. GetCollectionView(o) =
            [i \in 1..n |-> [name |-> i, at |-> [array |-> a, index |-> i], shown |-> arrays[a][i]]]
      BY <2>2, <3>1, <3>3 DEF GetCollectionView
    <3>6. GetCollectionView(o) \in [1..n -> Row]
      BY <3>4, <3>5
    <3> QED
      BY <3>3, <3>6, SeqOf
  <2> QED
    BY <2>1, <2>2
<1> QED
  BY <1>1, <1>2 DEF RowsOf, Place

\* Filling keeps what is there, and what it adds is of the value it is kept for.
LEMMA FilledIsOwn ==
  ASSUME NEW texts, Own(texts), NEW list \in Seq(Row)
  PROVE  /\ Own(Filled(texts, list))
         /\ \A i \in 1..Len(list) : BufferKey(list[i]) \in DOMAIN Filled(texts, list)
<1> DEFINE empty == {i \in DOMAIN list : BufferKey(list[i]) \notin DOMAIN texts}
           keys == DOMAIN texts \cup {BufferKey(list[i]) : i \in empty}
           RowAt(key) == CHOOSE i \in empty : BufferKey(list[i]) = key
           filled == [key \in keys |-> IF key \in DOMAIN texts THEN texts[key]
                                       ELSE [text |-> list[RowAt(key)].shown, cell |-> list[RowAt(key)].at,
                                             carried |-> FALSE]]
<1>1. Filled(texts, list) = filled
  BY DEF Filled
<1>2. \A i \in DOMAIN list : list[i] \in Row /\ list[i].at \in Cells /\ list[i].shown \in Numbers
  <2>1. \A i \in DOMAIN list : list[i] \in Row
    OBVIOUS
  <2> QED
    BY <2>1 DEF Row
<1>3. DOMAIN filled = keys /\ keys \subseteq Cells
  BY <1>2 DEF Own, BufferKey
<1>4. ASSUME NEW key \in keys
      PROVE  filled[key] \in Texts /\ (filled[key].carried \/ filled[key].cell = key)
  <2>1. CASE key \in DOMAIN texts
    BY <2>1 DEF Own
  <2>2. CASE key \notin DOMAIN texts
    <3>1. PICK i \in DOMAIN list : i = RowAt(key) /\ BufferKey(list[i]) = key
      BY <1>4, <2>2
    <3>2. filled[key] = [text |-> list[i].shown, cell |-> list[i].at, carried |-> FALSE]
      BY <1>4, <2>2, <3>1
    <3> HIDE DEF filled
    <3> QED
      BY <1>2, <3>1, <3>2 DEF BufferKey, Texts
  <2> QED
    BY <2>1, <2>2
<1>5. \A i \in 1..Len(list) : BufferKey(list[i]) \in keys
  OBVIOUS
<1> HIDE DEF keys, filled, empty
<1> QED
  BY <1>1, <1>3, <1>4, <1>5 DEF Own

LEMMA NothingIsOwn == Own(<<>>)
BY DEF Own

\* The text of the active input is of the row it is stored for, or carried.
LEMMA HeldIsOwn ==
  ASSUME NEW texts, Own(texts), NEW list \in Seq(Row), Active(typing, list)
  PROVE  Own(Held(texts, list)) /\ DOMAIN Held(texts, list) = DOMAIN texts
<1>1. Held(texts, list) = [key \in DOMAIN texts |->
                             IF typing.row \in DOMAIN list /\ key = list[typing.row].at
                             THEN Buffer(typing) ELSE texts[key]]
  BY DEF Held, BufferKey
<1>2. ASSUME NEW key \in DOMAIN texts, typing.row \in DOMAIN list, key = list[typing.row].at
      PROVE  Buffer(typing) \in Texts /\ (Buffer(typing).carried \/ Buffer(typing).cell = key)
  <2>1. typing # NoTyping
    BY <1>2 DEF NoTyping
  <2> QED
    BY <1>2, <2>1 DEF Active, Buffer, Texts
<1>3. \A key \in DOMAIN texts : texts[key] \in Texts /\ (texts[key].carried \/ texts[key].cell = key)
  BY DEF Own
<1>4. DOMAIN Held(texts, list) = DOMAIN texts
  BY <1>1
<1> QED
  BY <1>1, <1>2, <1>3, <1>4 DEF Own

-----------------------------------------------------------------------------
(* The game. *)

LEMMA ClickIsNone == \A c \in Click : c # NoClick
BY DEF Click, NoClick

\* The list of one object changes; no array that is in use changes its length.
OnlyTouches(o) ==
  /\ lists' \in [Holders -> [items : Arrays, size : Nat]]
  /\ arrays' \in [Arrays -> Seq(Numbers)]
  /\ \A p \in Holders : p # o => lists'[p] = lists[p]
  /\ \A a \in InUse : Len(arrays'[a]) = Len(arrays[a])

\* Nothing but the heap and the click changes: the click if its list is disturbed.
LEMMA GameKeeps == ASSUME EInv, GameActs PROVE EInv'
<1>1. /\ UNCHANGED <<active, loadedFor, rows, view, fieldsJob, viewJob, frame, drawn, calm, buffers, typing,
                     snapshot, showChanges, diff, pressed>>
      /\ games < MaxGame /\ games' = games + 1
  BY DEF GameActs, GameStep, cache, loaders, study
<1>2. Loaded' /\ InFrame' /\ Own(buffers)' /\ Active(typing, drawn.list)' /\ Study' /\ Counters'
  <2>1. Loaded'
    BY <1>1 DEF EInv, Loaded
  <2>2. InFrame'
    BY <1>1 DEF EInv, InFrame, fieldsBusy
  <2>3. Own(buffers)' /\ Active(typing, drawn.list)' /\ Study'
    BY <1>1 DEF EInv, Own, Active, Study
  <2>4. Counters'
    BY <1>1, EditAssumption DEF EInv, Counters
  <2> QED
    BY <2>1, <2>2, <2>3, <2>4
<1>3. ASSUME NEW c \in Click, ClickIsSound(c)
      PROVE  LET d == [c EXCEPT !.calm = FALSE] IN d \in Click /\ ClickIsSound(d)'
  <2>1. PICK d : d = [c EXCEPT !.calm = FALSE]
    OBVIOUS
  <2>2. /\ d \in Click /\ d.op = c.op /\ d.step = c.step /\ d.list = c.list /\ d.items = c.items
        /\ d.at = c.at /\ d.text = c.text /\ d.cell = c.cell /\ d.carried = c.carried /\ d.calm = FALSE
    BY <2>1 DEF Click
  <2>3. ClickIsSound(d)'
    BY <1>3, <2>2 DEF ClickIsSound
  <2> QED
    BY <2>1, <2>2, <2>3
<1>4. CASE \E o \in Owners, v \in Numbers : SetNumber(o, v) /\ UNCHANGED click
  <2>1. /\ UNCHANGED <<lists, arrays, click>>
        /\ \E o \in Owners, v \in Numbers : number' = [number EXCEPT ![o] = v]
    BY <1>4 DEF SetNumber
  <2>2. HeapOK'
    BY <2>1 DEF EInv, HeapOK
  <2>3. (click = NoClick \/ ClickIsSound(click))'
    BY <2>1 DEF EInv, ClickIsSound, Unchanged
  <2> QED
    BY <1>2, <2>2, <2>3 DEF EInv
<1>5. ASSUME NEW o \in Holders, (\E v \in Numbers : Add(o, v)) \/ RemoveLast(o) \/ TrimExcess(o), Disturbs(o)
      PROVE  EInv'
  <2>0. /\ HeapOK /\ lists[o].items \in Arrays /\ lists[o].size \in Nat
        /\ arrays[lists[o].items] \in Seq(Numbers) /\ Len(arrays[lists[o].items]) \in Nat
    BY DEF EInv, HeapOK
  <2>00. PICK n \in Nat, m \in Nat : n = lists[o].size /\ m = Len(arrays[lists[o].items])
    BY <2>0
  <2>1. number' = number
    BY <1>5 DEF Add, RemoveLast, TrimExcess
  <2>2. OnlyTouches(o)
    <3>1. ASSUME NEW elements \in Seq(Numbers), NEW size \in Nat, Moves(o, elements, size)
          PROVE  OnlyTouches(o)
      <4>1. PICK a \in Arrays \ InUse :
              /\ arrays' = [arrays EXCEPT ![a] = elements]
              /\ lists' = [lists EXCEPT ![o] = [items |-> a, size |-> size]]
        BY <3>1 DEF Moves
      <4>2. InUse \subseteq Arrays
        BY <2>0 DEF InUse, HeapOK
      <4> QED
        BY <2>0, <4>1, <4>2 DEF HeapOK, OnlyTouches
    <3>2. ASSUME NEW v \in Numbers, Add(o, v) PROVE OnlyTouches(o)
      <4>1. CASE lists[o].size < Len(arrays[lists[o].items])
        <5>0. n < m
          BY <2>00, <4>1
        <5>1. PICK a \in Arrays, k \in Nat : a = lists[o].items /\ k = n + 1 /\ k \in 1..m
          BY <2>0, <5>0
        <5>2. arrays' = [arrays EXCEPT ![a] = [arrays[a] EXCEPT ![k] = v]]
              /\ lists' = [lists EXCEPT ![o] = [lists[o] EXCEPT !.size = k]]
          BY <2>00, <3>2, <4>1, <5>1 DEF Add
        <5>3. [arrays[a] EXCEPT ![k] = v] \in Seq(Numbers) /\ Len([arrays[a] EXCEPT ![k] = v]) = Len(arrays[a])
          BY <2>0, <2>00, <5>1
        <5>4. [lists[o] EXCEPT !.size = k] \in [items : Arrays, size : Nat]
          BY <2>0, <5>1 DEF HeapOK, OnlyTouches
        <5>5. InUse \subseteq Arrays
          BY <2>0 DEF InUse, HeapOK
        <5> QED
          BY <2>0, <5>1, <5>2, <5>3, <5>4, <5>5 DEF HeapOK, OnlyTouches
      <4>2. CASE ~(lists[o].size < Len(arrays[lists[o].items]))
        <5>1. Append(arrays[lists[o].items], v) \in Seq(Numbers)
          BY <2>0
        <5>2. Moves(o, Append(arrays[lists[o].items], v), n + 1)
          BY <2>00, <3>2, <4>2 DEF Add
        <5>3. n + 1 \in Nat
          OBVIOUS
        <5> QED
          BY <3>1, <5>1, <5>2, <5>3
      <4> QED
        BY <4>1, <4>2
    <3>3. CASE RemoveLast(o)
      <4>1. lists' = [lists EXCEPT ![o] = [lists[o] EXCEPT !.size = n - 1]] /\ arrays' = arrays
            /\ n > 0
        BY <2>00, <3>3 DEF RemoveLast
      <4>2. [lists[o] EXCEPT !.size = n - 1] \in [items : Arrays, size : Nat]
        <5>1. n - 1 \in Nat /\ lists[o] \in [items : Arrays, size : Nat]
          BY <2>0, <4>1 DEF HeapOK
        <5> QED
          BY <5>1
      <4> QED
        BY <2>0, <4>1, <4>2 DEF HeapOK, OnlyTouches
    <3>4. CASE TrimExcess(o)
      <4>1. SubSeq(arrays[lists[o].items], 1, lists[o].size) \in Seq(Numbers)
        BY <2>0, <3>4 DEF TrimExcess
      <4> QED
        BY <2>0, <3>1, <3>4, <4>1 DEF TrimExcess
    <3> QED
      BY <1>5, <3>2, <3>3, <3>4
  <2>3. HeapOK'
    BY <2>0, <2>1, <2>2 DEF HeapOK, OnlyTouches
  <2>4. (click = NoClick \/ ClickIsSound(click))'
    <3>1. CASE click = NoClick
      BY <1>5, <3>1 DEF Disturbs
    <3>2. CASE click # NoClick /\ click.list = o
      BY <1>3, <1>5, <3>2 DEF Disturbs, EInv, ClickIsSound
    <3>3. CASE click # NoClick /\ click.list # o
      <4>1. click' = click /\ ClickIsSound(click)
        BY <1>5, <3>3 DEF Disturbs, EInv
      <4>2. click.list \in Holders =>
              /\ lists'[click.list] = lists[click.list]
              /\ Len(arrays'[lists[click.list].items]) = Len(arrays[lists[click.list].items])
        BY <2>2, <3>3 DEF InUse, OnlyTouches
      <4>3. click.list \in Holders \cup {Null}
        BY <4>1 DEF ClickIsSound, Click
      <4> QED
        BY <4>1, <4>2, <4>3 DEF ClickIsSound, Unchanged
    <3> QED
      BY <3>1, <3>2, <3>3
  <2> QED
    BY <1>2, <2>3, <2>4 DEF EInv
<1> QED
  BY <1>4, <1>5 DEF GameActs

-----------------------------------------------------------------------------
(* The loaders. *)

LEMMA NoJobIsJob == NoJob \in LoaderStates
<1>1. <<>> \in Seq(Row)
  OBVIOUS
<1> QED
  BY <1>1 DEF NoJob, LoaderStates

\* What a step may leave alone.
HeapRests  == UNCHANGED <<lists, arrays, number>>
StudyRests == UNCHANGED <<snapshot, showChanges, diff>>
LoadRests  == UNCHANGED <<active, loadedFor, rows, view, fieldsJob, viewJob>>

LEMMA Rests ==
  ASSUME EInv
  PROVE  /\ HeapRests => HeapOK'
         /\ StudyRests => Study'
         /\ LoadRests => Loaded'
         /\ UNCHANGED buffers => Own(buffers')
         /\ UNCHANGED <<typing, drawn>> => Active(typing', drawn'.list)
         /\ UNCHANGED <<games, pressed>> => Counters'
         /\ HeapRests /\ UNCHANGED click => (click = NoClick \/ ClickIsSound(click))'
<1>1. HeapRests => HeapOK'
  BY DEF EInv, HeapRests, HeapOK
<1>2. StudyRests => Study'
  BY DEF EInv, StudyRests, Study
<1>3. LoadRests => Loaded'
  BY DEF EInv, LoadRests, Loaded
<1>4. UNCHANGED buffers => Own(buffers')
  BY DEF EInv
<1>5. UNCHANGED <<games, pressed>> => Counters'
  BY DEF EInv, Counters
<1>6. HeapRests /\ UNCHANGED click => (click = NoClick \/ ClickIsSound(click))'
  BY DEF EInv, HeapRests, ClickIsSound, Unchanged
<1>7. UNCHANGED <<typing, drawn>> => Active(typing', drawn'.list)
  BY DEF EInv
<1> QED
  BY <1>1, <1>2, <1>3, <1>4, <1>5, <1>6, <1>7

\* A step of a loader.
LEMMA LoaderKeeps ==
  ASSUME EInv, ReadFields \/ PublishFields \/ ReadView \/ PublishView \/ InstancesFound
  PROVE  EInv'
<1>1. /\ HeapRests /\ StudyRests
      /\ UNCHANGED <<view, frame, drawn, buffers, typing, click, games>>
      /\ pressed' = pressed \/ (pressed < MaxClicks /\ pressed' = pressed + 1)
  BY DEF ReadFields, PublishFields, ReadView, PublishView, InstancesFound, heap, study, cache,
       HeapRests, StudyRests
<1>2. /\ HeapOK' /\ Study' /\ Own(buffers') /\ Active(typing', drawn'.list)
      /\ (click = NoClick \/ ClickIsSound(click))'
      /\ HeapOK /\ Loaded /\ InFrame
  BY <1>1, Rests DEF EInv
<1>3. Counters'
  BY <1>1, EditAssumption DEF EInv, Counters
<1>4. CASE ReadFields
  <2>1. /\ fieldsJob.is = "started"
        /\ fieldsJob' = [is |-> "read", place |-> Place(active, FALSE), rows |-> GetRawFields(active)]
        /\ UNCHANGED <<active, loadedFor, rows, viewJob, calm>>
    BY <1>4 DEF ReadFields, cache
  <2>2. RowsOf(Place(active, FALSE)) \in Seq(Row) /\ RowsOf(Place(active, FALSE)) = GetRawFields(active)
    BY <1>2, RowsAreRows DEF Loaded, RowsOf, Place
  <2>3. Place(active, FALSE) \in Places /\ Place(active, FALSE).list = FALSE
    BY <1>2 DEF Place, Places, Loaded
  <2>4. /\ fieldsJob' \in LoaderStates /\ fieldsJob'.is = "read" /\ fieldsJob'.place = Place(active, FALSE)
    BY <2>1, <2>2, <2>3 DEF LoaderStates
  <2>5. fieldsJob # NoJob /\ fieldsJob' # NoJob
    BY <2>1, <2>4 DEF NoJob
  <2>6. Loaded'
    BY <1>1, <1>2, <2>1, <2>3, <2>4, <2>5 DEF Loaded
  <2>7. InFrame'
    BY <1>1, <1>2, <2>1, <2>5 DEF InFrame, fieldsBusy
  <2> QED
    BY <1>2, <1>3, <2>6, <2>7 DEF EInv
<1>5. CASE PublishFields
  <2>1. /\ fieldsJob.is = "read" /\ fieldsJob' = NoJob
        /\ rows' = [place |-> fieldsJob.place, list |-> fieldsJob.rows]
        /\ loadedFor' = fieldsJob.place.of /\ calm' = FALSE
        /\ UNCHANGED <<active, viewJob>>
    BY <1>5 DEF PublishFields
  <2>2. /\ fieldsJob.place \in Places /\ fieldsJob.place.list = FALSE /\ fieldsJob.rows \in Seq(Row)
        /\ fieldsJob # NoJob
    BY <1>2, <2>1 DEF Loaded, LoaderStates, NoJob
  <2>3. rows' \in View /\ rows'.place = fieldsJob.place /\ loadedFor' \in Owners
        /\ fieldsJob.place = Place(loadedFor', FALSE)
    BY <2>1, <2>2 DEF View, Places, Place
  <2>4. view.list = Null
    BY <1>2, <2>2 DEF Loaded
  <2>5. NoJob \in LoaderStates /\ NoJob.is = "none"
    BY NoJobIsJob DEF NoJob
  <2>6. Loaded'
    BY <1>1, <1>2, <2>1, <2>3, <2>4, <2>5 DEF Loaded
  <2>7. InFrame'
    BY <1>1, <1>2, <2>1 DEF InFrame
  <2> QED
    BY <1>2, <1>3, <2>6, <2>7 DEF EInv
<1>6. CASE ReadView
  <2>1. /\ viewJob.is = "started"
        /\ viewJob' = [viewJob EXCEPT !.is = "read", !.rows = RowsOf(viewJob.place)]
        /\ UNCHANGED <<active, loadedFor, rows, fieldsJob, calm>>
    BY <1>6 DEF ReadView, cache
  <2>2. viewJob # NoJob /\ viewJob \in LoaderStates
    BY <1>2, <2>1 DEF NoJob, Loaded
  <2>3. viewJob.place \in Places
    BY <1>2, <2>2 DEF Loaded
  <2>4. RowsOf(viewJob.place) \in Seq(Row)
    <3>1. PICK o \in Owners, b \in BOOLEAN : viewJob.place = Place(o, b)
      BY <2>3 DEF Places, Place
    <3> QED
      BY <1>2, <3>1, RowsAreRows
  <2>5. viewJob' \in LoaderStates /\ viewJob'.is = "read" /\ viewJob'.place = viewJob.place
    BY <2>1, <2>2, <2>4 DEF LoaderStates
  <2>6. viewJob' # NoJob
    BY <2>5 DEF NoJob
  <2>7. Loaded'
    BY <1>1, <1>2, <2>1, <2>2, <2>5, <2>6 DEF Loaded
  <2>8. InFrame'
    BY <1>1, <1>2, <2>1, <2>2, <2>6 DEF InFrame, fieldsBusy
  <2> QED
    BY <1>2, <1>3, <2>7, <2>8 DEF EInv
<1>7. CASE PublishView
  <2>1. /\ viewJob.is = "read" /\ viewJob' = NoJob
        /\ rows' = [place |-> viewJob.place, list |-> viewJob.rows]
        /\ active' = (IF viewJob.place.list THEN active ELSE viewJob.place.of)
        /\ loadedFor' = active' /\ calm' = FALSE
        /\ UNCHANGED fieldsJob
    BY <1>7 DEF PublishView
  <2>2. /\ viewJob # NoJob /\ viewJob.rows \in Seq(Row)
    BY <1>2, <2>1 DEF Loaded, LoaderStates, NoJob
  <2>3. /\ viewJob.place \in Places
        /\ IF view.list = Null THEN viewJob.place.list = FALSE ELSE viewJob.place = Place(view.list, TRUE)
    BY <1>2, <2>2 DEF Loaded
  <2>4. rows' \in View /\ rows'.place = viewJob.place
    BY <2>1, <2>2, <2>3 DEF View
  <2>5. active' \in Owners /\ loadedFor' \in Owners
    BY <1>2, <2>1, <2>3 DEF Loaded, Places
  <2>6. rows'.place = IF view.list = Null THEN Place(loadedFor', FALSE) ELSE Place(view.list, TRUE)
    BY <2>1, <2>3, <2>4 DEF Place, Places
  <2>7. NoJob \in LoaderStates
    BY NoJobIsJob
  <2>8. Loaded'
    BY <1>1, <1>2, <2>1, <2>4, <2>5, <2>6, <2>7 DEF Loaded
  <2>9. InFrame'
    BY <1>1, <1>2, <2>1 DEF InFrame
  <2> QED
    BY <1>2, <1>3, <2>8, <2>9 DEF EInv
<1>8. CASE InstancesFound
  <2>1. /\ view.list = Null /\ active' \in Owners /\ calm' = FALSE
        /\ UNCHANGED <<loadedFor, rows, fieldsJob, viewJob>>
    BY <1>8 DEF InstancesFound, loaders
  <2>2. Loaded' /\ InFrame'
    BY <1>1, <1>2, <2>1 DEF Loaded, InFrame
  <2> QED
    BY <1>2, <1>3, <2>2 DEF EInv
<1> QED
  BY <1>4, <1>5, <1>6, <1>7, <1>8

-----------------------------------------------------------------------------
(* Loads that are started. *)

\* A load of the fields, while no list is open.
LEMMA FieldsStart ==
  ASSUME Loaded, StartFieldsLoad, view.list = Null, view' \in [root : Owners, list : {Null}],
         active' \in Owners, UNCHANGED <<loadedFor, rows>>
  PROVE  Loaded' /\ fieldsBusy'
<1>1. fieldsJob' = [is |-> "started", place |-> Null, rows |-> <<>>] /\ viewJob' = viewJob
  BY DEF StartFieldsLoad, NoJob
<1>2. <<>> \in Seq(Row)
  OBVIOUS
<1>3. fieldsJob' \in LoaderStates /\ fieldsJob'.is = "started" /\ fieldsJob' # NoJob
  BY <1>1, <1>2 DEF LoaderStates, NoJob
<1>4. view' \in [root : Owners, list : Holders \cup {Null}] /\ view'.list = Null
  OBVIOUS
<1>5. Loaded'
  BY <1>1, <1>3, <1>4 DEF Loaded
<1> QED
  BY <1>3, <1>5 DEF fieldsBusy

\* A load of what is on display, or will be.
LEMMA ViewStart ==
  ASSUME Loaded, StartViewLoad(Displayed(view')),
         view' \in [root : Owners, list : Holders \cup {Null}],
         UNCHANGED <<active, loadedFor, rows>>
  PROVE  Loaded' /\ fieldsBusy'
<1>1. fieldsJob' = NoJob /\ viewJob' = [is |-> "started", place |-> Displayed(view'), rows |-> <<>>]
  BY DEF StartViewLoad, NoJob
<1>2. <<>> \in Seq(Row) /\ NoJob \in LoaderStates /\ NoJob.is = "none"
  BY NoJobIsJob DEF NoJob
<1>3. /\ Displayed(view') \in Places
      /\ IF view'.list = Null THEN Displayed(view').list = FALSE ELSE Displayed(view') = Place(view'.list, TRUE)
  BY EditAssumption DEF Displayed, Place, Places
<1>4. viewJob' \in LoaderStates /\ viewJob'.is = "started" /\ viewJob'.place = Displayed(view') /\ viewJob' # NoJob
  BY <1>1, <1>2, <1>3 DEF LoaderStates, NoJob
<1>5. Loaded'
  BY <1>1, <1>2, <1>3, <1>4 DEF Loaded
<1> QED
  BY <1>4, <1>5 DEF fieldsBusy

LEMMA ReloadStarts ==
  ASSUME Loaded, Reload, UNCHANGED <<active, loadedFor, rows, view>>
  PROVE  Loaded' /\ fieldsBusy'
<1>1. view \in [root : Owners, list : Holders \cup {Null}] /\ active \in Owners
  BY DEF Loaded
<1>2. CASE view.list = Null
  <2>1. view' \in [root : Owners, list : {Null}]
    BY <1>1, <1>2
  <2> QED
    BY <1>1, <1>2, <2>1, FieldsStart DEF Reload
<1>3. CASE view.list # Null
  <2>1. StartViewLoad(Displayed(view'))
    BY <1>3 DEF Reload
  <2> QED
    BY <1>1, <2>1, ViewStart
<1> QED
  BY <1>2, <1>3

-----------------------------------------------------------------------------
(* A frame. *)

\* A click in the Fields tab: the frame ends, or the click goes on in it.
LEMMA TabKeeps ==
  ASSUME EInv, InFieldsTab, HeapRests, UNCHANGED <<drawn, calm>>,
         UNCHANGED pressed \/ Press, Loaded', Own(buffers'), Active(typing', drawn'.list),
         frame' = "tick" \/ (UNCHANGED frame /\ LoadRests),
         click' = NoClick \/ ClickIsSound(click)'
  PROVE  EInv'
<1>1. UNCHANGED <<snapshot, showChanges, games>> /\ diff' = Diffs(snapshot, showChanges, Null)
  BY DEF InFieldsTab
<1>2. diff' = diff \/ diff'.of = Null
  BY <1>1 DEF Diffs
<1>3. Study'
  BY <1>1, <1>2 DEF EInv, Study
<1>4. Counters'
  BY <1>1, EditAssumption DEF EInv, Counters, Press
<1>5. InFrame'
  <2>1. CASE frame' = "tick"
    BY <2>1 DEF EInv, InFrame
  <2>2. CASE UNCHANGED frame /\ LoadRests
    BY <2>2 DEF EInv, InFrame, LoadRests, fieldsBusy
  <2> QED
    BY <2>1, <2>2
<1>6. HeapOK'
  BY Rests
<1> QED
  BY <1>3, <1>4, <1>5, <1>6 DEF EInv

LEMMA FrameKeeps ==
  ASSUME EInv, Tick \/ CopyRows
  PROVE  EInv'
<1>1. HeapRests /\ StudyRests /\ UNCHANGED <<active, loadedFor, rows, view, buffers, click, games, pressed>>
  BY DEF Tick, CopyRows, heap, cache, study, HeapRests, StudyRests
<1>2. /\ HeapOK' /\ Study' /\ Own(buffers') /\ Counters' /\ (click = NoClick \/ ClickIsSound(click))'
      /\ Loaded /\ InFrame /\ (UNCHANGED <<typing, drawn>> => Active(typing', drawn'.list))
  BY <1>1, Rests DEF EInv
<1>3. CASE Tick
  <2>1. frame = "tick" /\ frame' = "copy" /\ calm' = TRUE /\ drawn' = drawn /\ typing' = typing
    BY <1>3 DEF Tick
  <2>2. CASE view.list = Null /\ ~fieldsBusy /\ active # loadedFor
    <3>1. StartFieldsLoad
      BY <1>3, <2>2 DEF Tick
    <3>2. view' \in [root : Owners, list : {Null}] /\ active' \in Owners
      BY <1>1, <1>2, <2>2 DEF Loaded
    <3>3. Loaded' /\ fieldsBusy'
      BY <1>1, <1>2, <2>2, <3>1, <3>2, FieldsStart
    <3>4. InFrame'
      BY <1>2, <2>1, <3>3 DEF InFrame
    <3> QED
      BY <1>2, <2>1, <3>3, <3>4 DEF EInv
  <2>3. CASE ~(view.list = Null /\ ~fieldsBusy /\ active # loadedFor)
    <3>1. UNCHANGED <<fieldsJob, viewJob>>
      BY <1>3, <2>3 DEF Tick, loaders
    <3>2. Loaded'
      BY <1>1, <3>1, Rests DEF LoadRests
    <3>3. InFrame'
      BY <1>1, <1>2, <2>1, <2>3, <3>1 DEF InFrame, fieldsBusy
    <3> QED
      BY <1>2, <2>1, <3>2, <3>3 DEF EInv
  <2> QED
    BY <2>2, <2>3
<1>4. CASE CopyRows
  <2>1. frame = "copy" /\ frame' = "tab" /\ drawn' = rows /\ UNCHANGED <<fieldsJob, viewJob, calm>>
    BY <1>4 DEF CopyRows, loaders
  <2>2. Loaded'
    BY <1>1, <2>1, Rests DEF LoadRests
  <2>3. InFrame'
    BY <1>1, <1>2, <2>1 DEF InFrame, Loaded, fieldsBusy
  <2>4. Active(typing', drawn'.list)
    <3>1. typing' = IF typing.row \in DOMAIN rows.list
                    THEN [typing EXCEPT !.carried = typing.carried \/ ~SameRow(typing.row)] ELSE typing
      BY <1>4 DEF CopyRows
    <3>2. rows.list \in Seq(Row) /\ Active(typing, drawn.list)
      BY <1>2 DEF Loaded, View, EInv
    <3>3. CASE typing = NoTyping
      <4>1. typing.row \notin DOMAIN rows.list
        BY <3>2, <3>3 DEF NoTyping
      <4> QED
        BY <3>1, <3>3, <4>1 DEF Active
    <3>4. CASE typing # NoTyping
      <4>1. PICK t \in [row : Nat \ {0}, text : Numbers, cell : Cells, carried : BOOLEAN] : t = typing
        BY <3>2, <3>4 DEF Active
      <4>2. CASE t.row \notin DOMAIN rows.list
        BY <2>1, <3>1, <4>1, <4>2 DEF Active
      <4>3. CASE t.row \in DOMAIN rows.list
        <5>1. PICK b \in BOOLEAN : b <=> t.carried \/ ~SameRow(t.row)
          OBVIOUS
        <5>2. typing' = [t EXCEPT !.carried = b]
          BY <3>1, <4>1, <4>3, <5>1
        <5>3. /\ typing' \in [row : Nat \ {0}, text : Numbers, cell : Cells, carried : BOOLEAN]
              /\ typing'.row = t.row /\ typing'.cell = t.cell /\ typing'.carried = b
          BY <5>2
        <5>4. ~b => rows.list[t.row].at = t.cell
          BY <3>2, <3>4, <4>1, <5>1 DEF Active, SameRow
        <5> QED
          BY <2>1, <5>3, <5>4 DEF Active
      <4> QED
        BY <4>2, <4>3
    <3> QED
      BY <3>3, <3>4
  <2> QED
    BY <1>2, <2>2, <2>3, <2>4 DEF EInv
<1> QED
  BY <1>3, <1>4

\* What a row is of, and what its cell contains once it is drawn.
LEMMA DrawnRow ==
  ASSUME EInv
  PROVE  /\ drawn.list \in Seq(Row) /\ drawn.place \in Places
         /\ \A i \in DOMAIN drawn.list :
              /\ i \in Nat /\ drawn.list[i] \in Row /\ drawn.list[i].at \in Cells
              /\ BufferKey(drawn.list[i]) \in DOMAIN Filled(buffers, drawn.list)
              /\ BufferKey(drawn.list[i]) \in DOMAIN Painted(buffers)
         /\ Own(Filled(buffers, drawn.list)) /\ Own(Filled(<<>>, drawn.list))
         /\ Own(Painted(buffers)) /\ Own(Painted(<<>>))
<1>1. drawn.list \in Seq(Row) /\ drawn.place \in Places
  BY DEF EInv, InFrame, View
<1>2. \A i \in DOMAIN drawn.list : i \in 1..Len(drawn.list) /\ i \in Nat /\ drawn.list[i] \in Row
  BY <1>1
<1>3. \A r \in Row : r.at \in Cells
  BY DEF Row
<1>4. Own(buffers) /\ Active(typing, drawn.list)
  BY DEF EInv
<1>5. /\ Own(Filled(buffers, drawn.list)) /\ Own(Filled(<<>>, drawn.list))
      /\ \A i \in DOMAIN drawn.list : BufferKey(drawn.list[i]) \in DOMAIN Filled(buffers, drawn.list)
  BY <1>1, <1>2, <1>4, FilledIsOwn, NothingIsOwn
<1>6. Own(Painted(buffers)) /\ Own(Painted(<<>>)) /\ DOMAIN Painted(buffers) = DOMAIN Filled(buffers, drawn.list)
  BY <1>1, <1>4, <1>5, HeldIsOwn DEF Painted
<1> QED
  BY <1>1, <1>2, <1>3, <1>5, <1>6

\* A step of the Fields tab that starts no click.
LEMMA TabActs ==
  ASSUME EInv, DrawFields \/ Refresh \/ OpenList \/ (\E o \in Owners : PickInstance(o))
               \/ (\E i \in DOMAIN drawn.list, v \in Numbers : Type(i, v))
  PROVE  EInv'
<1>1. InFieldsTab /\ frame' = "tick" /\ HeapRests /\ UNCHANGED <<drawn, calm, click>>
      /\ (UNCHANGED pressed \/ Press)
  BY DEF DrawFields, Refresh, OpenList, PickInstance, Type, heap, HeapRests
<1>2. click' = NoClick /\ Loaded
  BY <1>1 DEF InFieldsTab, EInv
<1>3. SUFFICES Loaded' /\ Own(buffers') /\ Active(typing', drawn.list)
  BY <1>1, <1>2, TabKeeps
<1>0. Active(typing, drawn.list) /\ Active(NoTyping, drawn.list)
  BY DEF EInv, Active
<1>4. CASE DrawFields
  <2>1. LoadRests /\ buffers' = Painted(buffers) /\ typing' \in {typing, NoTyping}
    BY <1>4 DEF DrawFields, StillActive, LoadRests, cache, loaders
  <2> QED
    BY <1>0, <2>1, Rests, DrawnRow
<1>5. CASE Refresh
  <2>1. /\ Reload /\ UNCHANGED <<active, loadedFor, rows, view>>
        /\ buffers' = Painted(<<>>) /\ typing' \in {typing, NoTyping}
    BY <1>5 DEF Refresh, StillActive, cache
  <2> QED
    BY <1>0, <1>2, <2>1, ReloadStarts, DrawnRow
<1>6. CASE OpenList
  <2>1. /\ drawn.place.of \in Holders /\ view' = [view EXCEPT !.list = drawn.place.of]
        /\ StartViewLoad(Displayed(view')) /\ buffers' = <<>>
        /\ UNCHANGED <<active, loadedFor, rows, typing>>
    BY <1>6 DEF OpenList, Released, cache
  <2>2. view' \in [root : Owners, list : Holders \cup {Null}]
    BY <1>2, <2>1 DEF Loaded
  <2> QED
    BY <1>0, <1>2, <2>1, <2>2, ViewStart, NothingIsOwn
<1>7. ASSUME NEW o \in Owners, PickInstance(o)
      PROVE  Loaded' /\ Own(buffers') /\ Active(typing', drawn.list)
  <2>1. /\ view.list = Null /\ active' = o /\ view' = [view EXCEPT !.root = o]
        /\ StartFieldsLoad /\ buffers' = Filled(<<>>, drawn.list)
        /\ UNCHANGED <<loadedFor, rows, typing>>
    BY <1>7 DEF PickInstance, Released
  <2>2. view' \in [root : Owners, list : {Null}]
    BY <1>2, <2>1 DEF Loaded
  <2> QED
    BY <1>0, <1>2, <2>1, <2>2, FieldsStart, DrawnRow
<1>8. ASSUME NEW i \in DOMAIN drawn.list, NEW v \in Numbers, Type(i, v)
      PROVE  Loaded' /\ Own(buffers') /\ Active(typing', drawn.list)
  <2>1. PICK at \in Cells : at = drawn.list[i].at
    BY DrawnRow
  <2>2. PICK typed : typed = [row |-> i, text |-> v, cell |-> at, carried |-> FALSE]
    OBVIOUS
  <2>3. /\ LoadRests /\ typing' = typed
        /\ buffers' = [Painted(buffers) EXCEPT ![at] = Buffer(typed)]
    BY <1>8, <2>1, <2>2 DEF Type, LoadRests, cache, loaders, BufferKey
  <2>4. Active(typed, drawn.list)
    <3>1. i \in Nat \ {0}
      <4>1. drawn.list \in Seq(Row)
        BY DrawnRow
      <4> QED
        BY <4>1
    <3> QED
      BY <2>1, <2>2, <3>1 DEF Active
  <2>5. Buffer(typed) \in Texts /\ Buffer(typed).cell = at
    BY <2>2 DEF Buffer, Texts
  <2>6. PICK texts : texts = Painted(buffers) /\ Own(texts)
    BY DrawnRow
  <2>7. PICK entry \in Texts : entry = Buffer(typed) /\ entry.cell = at
    BY <2>5
  <2>8. Own([texts EXCEPT ![at] = entry])
    BY <2>6, <2>7 DEF Own
  <2>9. buffers' = [texts EXCEPT ![at] = entry]
    BY <2>3, <2>6, <2>7
  <2> QED
    BY <2>3, <2>4, <2>8, <2>9, Rests
<1> QED
  BY <1>4, <1>5, <1>6, <1>7, <1>8

\* The breadcrumb.
LEMMA BackKeeps == ASSUME EInv, Back PROVE EInv'
<1>1. /\ frame' = "tick" /\ click = NoClick /\ Press /\ HeapRests /\ StudyRests
      /\ UNCHANGED <<active, loadedFor, rows, drawn, calm, typing, click, games>>
      /\ view' = [view EXCEPT !.list = Null] /\ StartViewLoad(Displayed(view')) /\ buffers' = <<>>
  BY DEF Back, Released, heap, cache, study, HeapRests, StudyRests
<1>2. HeapOK' /\ Study' /\ Own(buffers') /\ Active(typing', drawn'.list) /\ click' = NoClick
  BY <1>1, Rests, NothingIsOwn
<1>3. Counters'
  BY <1>1, EditAssumption DEF EInv, Counters, Press
<1>4. view' \in [root : Owners, list : Holders \cup {Null}]
  BY <1>1 DEF EInv, Loaded
<1>5. Loaded'
  BY <1>1, <1>4, ViewStart DEF EInv
<1>6. InFrame'
  BY <1>1 DEF EInv, InFrame
<1> QED
  BY <1>2, <1>3, <1>5, <1>6 DEF EInv

-----------------------------------------------------------------------------
(* A click. *)

\* A click has read nothing when it begins; one that is not guarded against a list
\* that changes is not of an element, or no list is open.
LEMMA NewClickIsSound ==
  ASSUME NEW op \in {"edit", "add"}, NEW row \in Nat, NEW step \in {"items", "write"},
         NEW at \in Cells \cup {Null}, NEW text \in Nat, NEW cell \in Cells \cup {Null},
         NEW carried \in BOOLEAN, NEW typed,
         typed.text = text, typed.cell = cell, typed.carried = carried,
         view.list \in Holders \cup {Null}, HeapRests,
         op = "edit" => at \in Cells /\ text \in Numbers /\ (carried \/ cell = at),
         op = "add" \/ step # "write" => view.list # Null,
         op = "add" => step # "write",
         op = "edit" /\ step # "write" => at \in Elements,
         step = "write" => at \notin Elements \/ view.list = Null,
         click' = NewClick(op, row, step, at, typed)
  PROVE  ClickIsSound(click)'
<1>1. PICK c : c = NewClick(op, row, step, at, typed)
  OBVIOUS
<1>2. c = [op |-> op, row |-> row, step |-> step, list |-> view.list, items |-> Null, size |-> 0,
           calm |-> TRUE, at |-> at, text |-> text, cell |-> cell, carried |-> carried]
  BY <1>1 DEF NewClick
<1>3. c \in Click
  BY <1>2 DEF Click
<1>4. c.op = op /\ c.step = step /\ c.list = view.list /\ c.at = at /\ c.text = text /\ c.cell = cell
      /\ c.carried = carried
  BY <1>2
<1>5. ClickIsSound(c)'
  BY <1>3, <1>4 DEF ClickIsSound, Unchanged
<1> QED
  BY <1>1, <1>5

LEMMA ClickStarts ==
  ASSUME EInv, AddElement \/ \E i \in DOMAIN drawn.list : Apply(i)
  PROVE  EInv'
<1>1. ClickBegins
  BY DEF AddElement, Apply
<1>2. /\ InFieldsTab /\ Press /\ UNCHANGED <<frame, drawn, calm>> /\ HeapRests /\ LoadRests
      /\ buffers' = Filled(buffers, drawn.list) /\ typing' = typing
  BY <1>1 DEF ClickBegins, Released, HeapRests, LoadRests, heap, cache, loaders
<1>3. Loaded' /\ Own(buffers') /\ Active(typing', drawn'.list)
  BY <1>2, Rests, DrawnRow
<1>4. SUFFICES ClickIsSound(click)'
  BY <1>2, <1>3, TabKeeps
<1>5. view.list \in Holders \cup {Null}
  BY DEF EInv, Loaded
<1>6. CASE AddElement
  <2>1. view.list # Null /\ click' = NewClick("add", 0, "items", Null, NoTyping)
    BY <1>6 DEF AddElement
  <2>2. NoTyping.text = 0 /\ NoTyping.cell = Null /\ NoTyping.carried = FALSE
    BY DEF NoTyping
  <2>3. PICK none, op, step, no : none = NoTyping /\ op = "add" /\ step = "items" /\ no = FALSE
    OBVIOUS
  <2>4. /\ click' = NewClick(op, 0, step, Null, none)
        /\ none.text = 0 /\ none.cell = Null /\ none.carried = no /\ no \in BOOLEAN
        /\ op \in {"edit", "add"} /\ op # "edit" /\ step \in {"items", "write"} /\ step # "write"
    BY <2>1, <2>2, <2>3
  <2>5. 0 \in Nat /\ Null \in Cells \cup {Null} /\ view.list # Null
    BY <2>1
  <2> QED
    BY <1>2, <1>5, <2>4, <2>5, NewClickIsSound
<1>7. ASSUME NEW i \in DOMAIN drawn.list, Apply(i) PROVE ClickIsSound(click)'
  <2>1. PICK at \in Cells : at = drawn.list[i].at /\ at \in DOMAIN Filled(buffers, drawn.list)
    BY DrawnRow DEF BufferKey
  <2>2. PICK typed \in Texts : typed = buffers'[at] /\ (typed.carried \/ typed.cell = at)
    BY <1>2, <1>3, <2>1 DEF Own
  <2>3. PICK step \in {"items", "write"} : step = IF Guarded(drawn.list[i]) THEN "items" ELSE "write"
    OBVIOUS
  <2>4. click' = NewClick("edit", i, step, at, typed)
    BY <1>7, <2>1, <2>2, <2>3 DEF Apply, BufferKey
  <2>5. typed.text \in Numbers /\ typed.text \in Nat /\ typed.cell \in Cells /\ typed.carried \in BOOLEAN
    BY <2>2, EditAssumption DEF Texts
  <2>6. Guarded(drawn.list[i]) <=> at \in Elements /\ view.list # Null
    BY <2>1, CellKinds DEF Guarded
  <2>7. i \in Nat
    BY DrawnRow
  <2>8. (step = "write" => at \notin Elements \/ view.list = Null) /\ (step # "write" => at \in Elements /\ view.list # Null)
    BY <2>3, <2>6
  <2> QED
    BY <1>2, <1>5, <2>2, <2>4, <2>5, <2>7, <2>8, NewClickIsSound
<1> QED
  BY <1>6, <1>7

\* What a click leaves alone until it is over.
LEMMA ClickRests ==
  ASSUME EInv, InClick, Loaded', HeapOK', Own(buffers'), (frame' = frame /\ LoadRests) \/ frame' = "tick",
         click' = NoClick \/ ClickIsSound(click)'
  PROVE  EInv'
<1>1. UNCHANGED <<active, loadedFor, rows, view, drawn, calm, typing, snapshot, showChanges, diff, games, pressed>>
  BY DEF InClick, cache, study
<1>2. Study' /\ Counters' /\ Active(typing', drawn'.list)
  BY <1>1, Rests DEF StudyRests
<1>3. InFrame'
  <2>1. CASE frame' = "tick"
    BY <1>1, <2>1 DEF EInv, InFrame
  <2>2. CASE frame' = frame /\ LoadRests
    BY <1>1, <2>2 DEF EInv, InFrame, LoadRests, fieldsBusy
  <2> QED
    BY <2>1, <2>2
<1> QED
  BY <1>2, <1>3 DEF EInv

\* The list is looked at, one read after the other.
LEMMA ReadKeeps ==
  ASSUME EInv, ReadItems \/ ReadSize \/ ReadLength
  PROVE  EInv'
<1>1. /\ InClick /\ HeapRests /\ LoadRests /\ UNCHANGED buffers
      /\ (frame' = frame \/ frame' = "tick")
  BY DEF ReadItems, ReadSize, ReadLength, InClick, heap, cache, loaders, HeapRests, LoadRests
<1>2. Loaded' /\ HeapOK' /\ Own(buffers') /\ HeapOK
  BY <1>1, Rests DEF EInv
<1>3. SUFFICES click' = NoClick \/ ClickIsSound(click)'
  BY <1>1, <1>2, ClickRests
<1>4. click.step # "none"
  BY DEF ReadItems, ReadSize, ReadLength, ClickGoes
<1>5. PICK c \in Click : c = click /\ ClickIsSound(c) /\ c.step # "write" /\ c.list \in Holders
  <2>1. ClickIsSound(click)
    BY <1>4 DEF EInv, NoClick
  <2>2. click.step # "write"
    BY DEF ReadItems, ReadSize, ReadLength, ClickGoes
  <2> QED
    BY <2>1, <2>2 DEF ClickIsSound, Click
<1>6. PICK l \in [items : Arrays, size : Nat] : l = lists[c.list]
  BY <1>2, <1>5 DEF HeapOK
<1>7. CASE ReadItems
  <2>1. PICK d : d = [c EXCEPT !.step = "size", !.items = l.items]
    OBVIOUS
  <2>2. click' = d
    BY <1>5, <1>6, <1>7, <2>1 DEF ReadItems, ClickGoes
  <2>3. /\ d \in Click /\ d.op = c.op /\ d.step = "size" /\ d.list = c.list /\ d.items = l.items
        /\ d.at = c.at /\ d.text = c.text /\ d.cell = c.cell /\ d.carried = c.carried /\ d.calm = c.calm
    BY <1>6, <2>1 DEF Click
  <2>4. ClickIsSound(d)'
    BY <1>1, <1>5, <1>6, <2>3 DEF ClickIsSound, Unchanged, HeapRests
  <2> QED
    BY <2>2, <2>4
<1>8. CASE ReadSize
  <2>1. PICK d : d = [c EXCEPT !.step = "length", !.size = l.size]
    OBVIOUS
  <2>2. click' = d /\ c.step = "size"
    BY <1>5, <1>6, <1>8, <2>1 DEF ReadSize, ClickGoes
  <2>3. /\ d \in Click /\ d.op = c.op /\ d.step = "length" /\ d.list = c.list /\ d.items = c.items /\ d.size = l.size
        /\ d.at = c.at /\ d.text = c.text /\ d.cell = c.cell /\ d.carried = c.carried /\ d.calm = c.calm
    BY <1>6, <2>1 DEF Click
  <2>4. ClickIsSound(d)'
    BY <1>1, <1>5, <1>6, <2>2, <2>3 DEF ClickIsSound, Unchanged, HeapRests
  <2> QED
    BY <2>2, <2>4
<1>9. CASE ReadLength
  <2>1. CASE click' = NoClick
    BY <2>1
  <2>2. CASE click' # NoClick
    <3>1. PICK d : d = [c EXCEPT !.step = "write"]
      OBVIOUS
    <3>2. PICK m \in Nat : m = Len(arrays[c.items])
      <4>1. c.step = "length"
        BY <1>5, <1>9 DEF ReadLength
      <4>2. c.items \in Arrays
        BY <1>5, <4>1 DEF ClickIsSound
      <4>3. arrays[c.items] \in Seq(Numbers)
        BY <1>2, <4>2 DEF HeapOK
      <4> QED
        BY <4>3
    <3>3. /\ click' = d /\ c.step = "length"
          /\ IF c.op = "edit" THEN InLiveBuffer(c.at, c.items, c.size, m) ELSE HasRoom(c.size, m)
      BY <1>5, <1>9, <2>2, <3>1, <3>2 DEF ReadLength
    <3>4. /\ d \in Click /\ d.op = c.op /\ d.step = "write" /\ d.list = c.list /\ d.items = c.items /\ d.size = c.size
          /\ d.at = c.at /\ d.text = c.text /\ d.cell = c.cell /\ d.carried = c.carried /\ d.calm = c.calm
      BY <3>1 DEF Click
    <3>5. c.op \in {"edit", "add"} /\ c.size \in Nat
      BY <1>5 DEF Click
    <3>6. ASSUME c.calm
          PROVE  Unchanged(d)
      <4>1. c.items = l.items /\ c.size = l.size
        BY <1>5, <1>6, <3>3, <3>6, EditAssumption DEF ClickIsSound, Unchanged
      <4>2. CASE c.op = "add"
        BY <1>6, <3>2, <3>3, <3>4, <4>1, <4>2 DEF Unchanged, HasRoom
      <4>3. CASE c.op = "edit"
        <5>1. c.at \in Elements
          BY <1>5, <4>3 DEF ClickIsSound
        <5>2. PICK k \in Nat : k = c.at.index
          BY <5>1 DEF Elements
        <5>3. c.at.array = l.items /\ k <= l.size /\ k <= m
          <6>1. l.size \in Nat /\ c.at.array = c.items /\ k <= Smaller(l.size, m)
            BY <3>3, <4>1, <4>3, <5>2 DEF InLiveBuffer
          <6> QED
            BY <4>1, <6>1 DEF Smaller
        <5> QED
          BY <1>6, <3>2, <3>4, <4>1, <4>3, <5>2, <5>3 DEF Unchanged
      <4> QED
        BY <3>5, <4>2, <4>3
    <3>7. ClickIsSound(d)'
      BY <1>1, <1>5, <3>4, <3>6 DEF ClickIsSound, Unchanged, HeapRests
    <3> QED
      BY <3>3, <3>7
  <2> QED
    BY <2>1, <2>2
<1> QED
  BY <1>7, <1>8, <1>9

\* The write, and the reload that follows it.
LEMMA WriteKeeps == ASSUME EInv, Write PROVE EInv'
<1>1. InClick /\ click.step = "write" /\ click' = NoClick /\ frame' = "tick"
  BY DEF Write, ClickGoes, AfterWrite
<1>2. UNCHANGED <<active, loadedFor, rows, view, drawn>>
  BY <1>1 DEF InClick, cache
<1>3. PICK c \in Click : c = click /\ ClickIsSound(c)
  BY <1>1 DEF EInv, NoClick, ClickIsSound
<1>4. HeapOK /\ Loaded
  BY DEF EInv
<1>5. ASSUME AfterWrite PROVE Loaded' /\ Own(buffers')
  <2>1. CASE UNCHANGED <<loaders, buffers>>
    BY <1>2, <2>1, Rests DEF LoadRests, loaders
  <2>2. CASE /\ Reload
             /\ buffers' = Filled(<<>>, SubSeq(drawn.list, click.row + 1, Len(drawn.list)))
    <3>1. Loaded'
      BY <1>2, <1>4, <2>2, ReloadStarts
    <3>2. PICK n \in Nat : n = click.row + 1
      BY <1>3 DEF Click
    <3>3. drawn.list \in Seq(Row)
      BY DrawnRow
    <3>4. SubSeq(drawn.list, n, Len(drawn.list)) \in Seq(Row)
      <4>1. PICK s \in Seq(Row), m \in Nat : s = drawn.list /\ m = Len(s)
        BY <3>3
      <4>2. SubSeq(s, n, m) \in Seq(Row)
        <5>1. n >= 1
          BY <1>3, <3>2 DEF Click
        <5>2. CASE n <= m
          BY <4>1, <5>1, <5>2, SubSeqProperties
        <5>3. CASE m < n
          <6>1. SubSeq(s, n, m) = <<>>
            BY <4>1, <5>3, SubSeqEmpty
          <6> QED
            BY <6>1
        <5> QED
          BY <4>1, <5>2, <5>3
      <4> QED
        BY <4>1, <4>2
    <3> QED
      BY <2>2, <3>1, <3>2, <3>4, FilledIsOwn, NothingIsOwn
  <2> QED
    BY <1>5, <2>1, <2>2 DEF AfterWrite
<1>6. SUFFICES HeapOK' /\ Loaded' /\ Own(buffers')
  BY <1>1, ClickRests
<1>7. CASE c.op = "edit" /\ Stored(c.at, c.text) /\ UNCHANGED lists /\ AfterWrite
  <2>1. c.at \in Cells /\ c.text \in Numbers
    BY <1>3, <1>7 DEF ClickIsSound
  <2>2. PICK at \in Cells, v \in Numbers : at = c.at /\ v = c.text
    BY <2>1
  <2>3. CASE at \in [object : Owners]
    <3>1. number' = [number EXCEPT ![at.object] = v] /\ UNCHANGED <<lists, arrays>>
      BY <1>7, <2>2, <2>3 DEF Stored
    <3> QED
      BY <1>4, <1>5, <1>7, <3>1 DEF HeapOK
  <2>4. CASE at \in Elements
    <3>1. at \notin [object : Owners]
      BY <2>4, CellKinds DEF Elements
    <3>2. "object" \notin DOMAIN at
      BY <3>1, CellKinds
    <3>3. PICK a \in Arrays, k \in Nat \ {0} : a = at.array /\ k = at.index
      BY <2>4 DEF Elements
    <3>4. UNCHANGED <<number, lists>>
          /\ arrays' = IF k <= Len(arrays[a]) THEN [arrays EXCEPT ![a] = [arrays[a] EXCEPT ![k] = v]] ELSE arrays
      BY <1>7, <2>2, <3>2, <3>3 DEF Stored
    <3>5. k <= Len(arrays[a]) => [arrays[a] EXCEPT ![k] = v] \in Seq(Numbers)
      BY <1>4 DEF HeapOK
    <3> QED
      BY <1>4, <1>5, <1>7, <3>4, <3>5 DEF HeapOK
  <2> QED
    BY <2>3, <2>4 DEF Cells, Elements
<1>8. CASE c.op = "add" /\ lists' = [lists EXCEPT ![c.list].size = c.size + 1] /\ AfterWrite /\ UNCHANGED <<arrays, number>>
  <2>1. c.list \in Holders /\ c.size \in Nat
    BY <1>3, <1>8 DEF ClickIsSound, Click
  <2>2. PICK n \in Nat : n = c.size + 1
    BY <2>1
  <2>3. lists' = [lists EXCEPT ![c.list] = [lists[c.list] EXCEPT !.size = n]]
    BY <1>8, <2>2
  <2>4. [lists[c.list] EXCEPT !.size = n] \in [items : Arrays, size : Nat]
    <3>1. lists[c.list] \in [items : Arrays, size : Nat]
      BY <1>4, <2>1 DEF HeapOK
    <3> QED
      BY <3>1
  <2>5. HeapOK'
    BY <1>4, <1>8, <2>1, <2>3, <2>4 DEF HeapOK
  <2> QED
    BY <1>5, <1>8, <2>5
<1>9. CASE UNCHANGED <<heap, loaders, buffers>>
  BY <1>2, <1>9, Rests DEF HeapRests, LoadRests, heap, loaders
<1> QED
  BY <1>3, <1>7, <1>8, <1>9 DEF Write

-----------------------------------------------------------------------------
(* The Analysis tab. *)

\* Rows that are settled, with no load under way, are of the place the scope tells.
LEMMA SettledRows ==
  ASSUME EInv, frame = "tab", Settled, ~fieldsBusy, NEW b \in BOOLEAN, b <=> view.list # Null
  PROVE  drawn.place = Place(active, b)
<1>1. calm /\ drawn = rows /\ viewJob = NoJob
  BY DEF EInv, InFrame, Settled, fieldsBusy
<1>2. rows.place = IF view.list = Null THEN Place(loadedFor, FALSE) ELSE Place(view.list, TRUE)
  BY <1>1 DEF EInv, Loaded
<1>3. CASE view.list = Null
  BY <1>1, <1>2, <1>3 DEF EInv, InFrame
<1>4. CASE view.list # Null
  BY <1>1, <1>2, <1>4 DEF Settled
<1> QED
  BY <1>3, <1>4

LEMMA AnalysisKeeps == ASSUME EInv, AnalysisTab PROVE EInv'
<1>1. /\ frame = "tab" /\ frame' = "tick" /\ HeapRests /\ LoadRests
      /\ UNCHANGED <<drawn, calm, buffers, typing, click, games>>
  BY DEF AnalysisTab, Released, heap, cache, loaders, HeapRests, LoadRests
<1>2. HeapOK' /\ Loaded' /\ Own(buffers') /\ Active(typing', drawn'.list) /\ (click = NoClick \/ ClickIsSound(click))'
  BY <1>1, Rests
<1>3. InFrame'
  BY <1>1 DEF EInv, InFrame
<1> DEFINE base == IF snapshot.scope = Scope THEN snapshot ELSE NoBaseline
           shows == showChanges /\ base # NoBaseline
           names == {drawn.list[i].name : i \in DOMAIN drawn.list}
           values == [name \in names |-> (CHOOSE r \in {drawn.list[i] : i \in DOMAIN drawn.list} : r.name = name).shown]
           where == IF Settled THEN drawn.place ELSE Null
           Stays == snapshot' = base \/ snapshot' = NoBaseline
           Taken == /\ ~fieldsBusy /\ drawn.list # <<>>
                    /\ snapshot' = [values |-> values, scope |-> Scope, of |-> where]
<1>4. (Stays \/ Taken) /\ showChanges' \in BOOLEAN
  BY DEF AnalysisTab, EInv, Study
<1>5. Counters'
  BY <1>1, EditAssumption DEF AnalysisTab, EInv, Counters, Press
<1>6. diff' = IF snapshot' # snapshot /\ ~(showChanges' /\ ~fieldsBusy) THEN NoDiff
              ELSE Diffs(snapshot', showChanges', where)
  BY DEF AnalysisTab
<1>7. NoDiff.of = Null /\ NoBaseline.of = Null
  BY DEF NoDiff, NoBaseline
<1>8. PICK b \in BOOLEAN : b <=> view.list # Null
  OBVIOUS
<1>9. Scope = <<b, active>>
  BY <1>8 DEF Scope
<1>10. where # Null /\ ~fieldsBusy => where = Place(active, b)
  BY <1>1, <1>8, SettledRows
<1>11. Taken => snapshot'.of = where /\ snapshot'.scope = <<b, active>> /\ HasBaseline(snapshot')
  <2>1. SUFFICES ASSUME Taken PROVE snapshot'.of = where /\ snapshot'.scope = <<b, active>> /\ HasBaseline(snapshot')
    OBVIOUS
  <2>2. snapshot'.values = values /\ snapshot'.of = where /\ snapshot'.scope = <<b, active>>
    BY <1>9, <2>1
  <2>3. PICK i : i \in DOMAIN drawn.list
    <3>1. drawn.list \in Seq(Row)
      BY DrawnRow
    <3> QED
      BY <2>1, <3>1
  <2>4. DOMAIN values # {}
    BY <2>3
  <2>5. values # <<>>
    <3>1. DOMAIN <<>> = {}
      OBVIOUS
    <3> HIDE DEF values
    <3> QED
      BY <2>4, <3>1
  <2> QED
    BY <2>2, <2>5 DEF HasBaseline
<1>12. Stays /\ snapshot'.of # Null => snapshot' = snapshot /\ snapshot.scope = <<b, active>>
  BY <1>7, <1>9
<1>13. snapshot.of # Null => snapshot.of = Place(snapshot.scope[2], snapshot.scope[1])
  BY DEF EInv, Study
<1> HIDE DEF Stays, Taken, where, values, base, shows
<1>14. ASSUME snapshot'.of # Null
       PROVE  snapshot'.of = Place(snapshot'.scope[2], snapshot'.scope[1])
  <2>1. CASE Stays
    BY <1>12, <1>13, <1>14, <2>1
  <2>2. CASE Taken
    BY <1>10, <1>11, <1>14, <2>2 DEF Taken
  <2> QED
    BY <1>4, <2>1, <2>2
<1>15. ASSUME snapshot'.of # Null, diff'.of # Null, diff'.tints # <<>>
       PROVE  diff'.of = snapshot'.of
  <2>1. /\ snapshot' = snapshot \/ (showChanges' /\ ~fieldsBusy)
        /\ diff' = Diffs(snapshot', showChanges', where)
    BY <1>6, <1>7, <1>15
  <2>2. CASE showChanges' /\ HasBaseline(snapshot') /\ ~fieldsBusy
    <3>1. diff'.of = where
      BY <2>1, <2>2 DEF Diffs
    <3>2. where = Place(active, b)
      BY <1>10, <1>15, <2>2, <3>1
    <3>3. CASE Stays
      <4>1. snapshot'.of = Place(active, b)
        BY <1>12, <1>13, <1>15, <3>3
      <4> QED
        BY <3>1, <3>2, <4>1
    <3>4. CASE Taken
      BY <1>11, <3>1, <3>4
    <3> QED
      BY <1>4, <3>3, <3>4
  <2>3. CASE ~(showChanges' /\ HasBaseline(snapshot') /\ ~fieldsBusy)
    <3>1. diff' = diff
      BY <2>1, <2>3 DEF Diffs
    <3>2. snapshot' = snapshot
      BY <1>4, <1>11, <1>12, <1>15, <2>1, <2>3
    <3> QED
      BY <1>15, <3>1, <3>2 DEF EInv, Study
  <2> QED
    BY <2>2, <2>3
<1>16. Study'
  BY <1>4, <1>14, <1>15 DEF Study
<1> QED
  BY <1>2, <1>3, <1>5, <1>16 DEF EInv

-----------------------------------------------------------------------------
(* The start. *)

\* There is a place for the elements of every list.
LEMMA PlacesEnough == \E f \in [Holders -> Arrays] : \A o, p \in Holders : o # p => f[o] # f[p]
<1>1. IsFiniteSet(Holders) /\ IsFiniteSet(Arrays) /\ Cardinality(Arrays) > Cardinality(Holders)
  BY EditAssumption
<1>2. PICK m \in Nat, n \in Nat : m = Cardinality(Holders) /\ n = Cardinality(Arrays) /\ m < n
  BY <1>1, FS_CardinalityType
<1>3. ExistsBijection(1..m, Holders) /\ ExistsBijection(1..n, Arrays)
  BY <1>1, <1>2, FS_CardinalityType
<1>4. PICK g \in Bijection(1..m, Holders) : TRUE
  BY <1>3 DEF ExistsBijection
<1>5. PICK h \in Bijection(1..n, Arrays) : TRUE
  BY <1>3 DEF ExistsBijection
<1>6. g \in [1..m -> Holders] /\ \A o \in Holders : \E i \in 1..m : g[i] = o
  BY <1>4 DEF Bijection, Injection, Surjection
<1>7. h \in [1..n -> Arrays] /\ \A i, j \in 1..n : h[i] = h[j] => i = j
  BY <1>5 DEF Bijection, Injection, IsInjective
<1> DEFINE nr(o) == CHOOSE i \in 1..m : g[i] = o
           f == [o \in Holders |-> h[nr(o)]]
<1>8. \A o \in Holders : nr(o) \in 1..m /\ g[nr(o)] = o
  BY <1>6
<1>9. \A i \in 1..m : i \in 1..n
  BY <1>2
<1>10. f \in [Holders -> Arrays]
  BY <1>7, <1>8, <1>9
<1>11. ASSUME NEW o \in Holders, NEW p \in Holders, o # p
       PROVE  f[o] # f[p]
  <2>1. nr(o) # nr(p)
    BY <1>8, <1>11
  <2>2. nr(o) \in 1..n /\ nr(p) \in 1..n
    BY <1>8, <1>9
  <2> HIDE DEF nr
  <2> QED
    BY <1>7, <2>1, <2>2
<1> QED
  BY <1>10, <1>11

LEMMA InitEInv == ASSUME EditInit PROVE EInv
<1> DEFINE a == CHOOSE f \in [Holders -> Arrays] : \A o, p \in Holders : o # p => f[o] # f[p]
<1>1. a \in [Holders -> Arrays]
  BY PlacesEnough
<1>2. Size0 \in Nat /\ active \in Owners /\ number \in [Owners -> Numbers]
  BY EditAssumption DEF EditInit
<1>3. HeapOK
  <2>1. lists = [o \in Holders |-> [items |-> a[o], size |-> Size0]]
    BY DEF EditInit
  <2>2. arrays = [b \in Arrays |-> IF b \in InUse THEN [i \in 1..Size0 |-> CHOOSE v \in Numbers : TRUE] ELSE <<>>]
    BY DEF EditInit
  <2>3. PICK w \in Numbers : w = CHOOSE v \in Numbers : TRUE
    BY <1>2
  <2>4. [i \in 1..Size0 |-> w] \in Seq(Numbers)
    BY <1>2, <2>3, SeqOf
  <2>5. <<>> \in Seq(Numbers)
    OBVIOUS
  <2>6. lists \in [Holders -> [items : Arrays, size : Nat]]
    BY <1>1, <1>2, <2>1
  <2>7. arrays \in [Arrays -> Seq(Numbers)]
    BY <2>2, <2>3, <2>4, <2>5
  <2> QED
    BY <1>2, <2>6, <2>7 DEF HeapOK
<1>4. /\ loadedFor = active /\ view = [root |-> active, list |-> Null]
      /\ rows = [place |-> Displayed(view), list |-> RowsOf(Displayed(view))] /\ drawn = rows
      /\ fieldsJob = NoJob /\ viewJob = NoJob
      /\ frame = "tick" /\ calm = TRUE /\ buffers = <<>> /\ typing = NoTyping /\ click = NoClick
      /\ snapshot = NoBaseline /\ showChanges = FALSE /\ diff = NoDiff
      /\ games = 0 /\ pressed = 0
  BY DEF EditInit
<1>5. Displayed(view) = Place(active, FALSE) /\ Place(active, FALSE) \in Places
  BY <1>2, <1>4 DEF Displayed, Place, Places
<1>6. RowsOf(Place(active, FALSE)) \in Seq(Row)
  BY <1>2, <1>3, RowsAreRows
<1>7. rows \in View /\ rows.place = Place(active, FALSE)
  BY <1>4, <1>5, <1>6 DEF View
<1>8. Loaded
  <2>1. view \in [root : Owners, list : Holders \cup {Null}] /\ view.list = Null
    BY <1>2, <1>4
  <2>2. NoJob \in LoaderStates /\ NoJob.is = "none"
    BY NoJobIsJob DEF NoJob
  <2> QED
    BY <1>2, <1>4, <1>7, <2>1, <2>2 DEF Loaded
<1>9. InFrame /\ Own(buffers) /\ Active(typing, drawn.list)
  BY <1>4, <1>7, NothingIsOwn DEF InFrame, Active
<1>10. Study
  BY <1>4 DEF Study, NoBaseline, NoDiff
<1>11. Counters
  BY <1>4, EditAssumption DEF Counters
<1> QED
  BY <1>3, <1>4, <1>8, <1>9, <1>10, <1>11 DEF EInv

-----------------------------------------------------------------------------
(* The theorems. *)

LEMMA NextEInv == ASSUME EInv, [EditNext]_editVars PROVE EInv'
<1>1. CASE EditNext
  <2>1. CASE GameActs \/ ReadFields \/ PublishFields \/ ReadView \/ PublishView \/ InstancesFound \/ Tick \/ CopyRows
    BY <2>1, GameKeeps, LoaderKeeps, FrameKeeps
  <2>2. CASE DrawFields \/ Refresh \/ OpenList \/ (\E o \in Owners : PickInstance(o))
             \/ (\E i \in DOMAIN drawn.list, v \in Numbers : Type(i, v))
    BY <2>2, TabActs
  <2>3. CASE Back
    BY <2>3, BackKeeps
  <2>4. CASE AddElement \/ \E i \in DOMAIN drawn.list : Apply(i)
    BY <2>4, ClickStarts
  <2>5. CASE ReadItems \/ ReadSize \/ ReadLength \/ Write
    BY <2>5, ReadKeeps, WriteKeeps
  <2>6. CASE AnalysisTab
    BY <2>6, AnalysisKeeps
  <2> QED
    BY <1>1, <2>1, <2>2, <2>3, <2>4, <2>5, <2>6 DEF EditNext
<1>2. CASE UNCHANGED editVars
  <2>1. /\ HeapRests /\ StudyRests /\ LoadRests /\ UNCHANGED <<buffers, typing, click, games, pressed, frame, drawn, calm>>
    BY <1>2 DEF editVars, heap, cache, loaders, study, HeapRests, StudyRests, LoadRests
  <2>2. InFrame'
    BY <2>1 DEF EInv, InFrame, LoadRests, fieldsBusy
  <2> QED
    BY <2>1, <2>2, Rests DEF EInv
<1> QED
  BY <1>1, <1>2

THEOREM EditsInvariance == EditSpec => []EInv
<1>1. EditInit => EInv
  BY InitEInv
<1>2. EInv /\ [EditNext]_editVars => EInv'
  BY NextEInv
<1> QED
  BY <1>1, <1>2, PTL DEF EditSpec

\* A difference that the Analysis tab shows is of the place its snapshot was taken at
\* (RecomputeDiff, InvalidateIfScopeChanged).
THEOREM DiffsOfOnePlace == EditSpec => []DiffsAreOfOnePlace
<1>1. EInv => DiffsAreOfOnePlace
  <2> SUFFICES ASSUME EInv PROVE DiffsAreOfOnePlace
    OBVIOUS
  <2>1. HeapOK /\ Loaded /\ InFrame /\ Own(buffers) /\ Active(typing, drawn.list) /\ Study /\ Counters
    BY DEF EInv
  <2>2. view \in [root : Owners, list : Owners \cup {Null}]
    BY <2>1, EditAssumption DEF Loaded
  <2>3. click.step \in {"none", "items", "size", "length", "write"}
    <3>1. CASE click = NoClick
      BY <3>1 DEF NoClick
    <3>2. CASE click \in Click
      BY <3>2 DEF Click
    <3> QED
      BY <3>1, <3>2 DEF EInv, ClickIsSound
  <2>4. EditTypeOK
    BY <2>1, <2>2, <2>3 DEF EditTypeOK, HeapOK, Loaded, InFrame, Own, Texts, Active, Study, Counters
  <2> QED
    BY <2>1, <2>4 DEF Study, DiffsAreOfOnePlace
<1> QED
  BY <1>1, EditsInvariance, PTL

\* What is written was typed for that value, or the rows were replaced under it while it
\* was being typed; and a list that was left alone during the click is written within
\* its elements (RenderScalarFieldEditCell, TrySetFieldValueWithCollectionGuard,
\* TryWriteListLogicalSize).
THEOREM EditsHit == EditSpec => EditsHitTheirValue
<1> DEFINE Hits ==
      click # NoClick /\ click.step = "write" /\ click' = NoClick /\ <<heap>>' # <<heap>> =>
       LET l == lists[click.list]
       IN IF click.op = "add" THEN click.calm => lists'[click.list].size = l.size + 1 /\ l.size < Len(arrays[l.items])
          ELSE /\ click.cell = click.at \/ click.carried
               /\ click.list # Null /\ "array" \in DOMAIN click.at /\ click.calm =>
                    click.at.array = l.items /\ click.at.index <= l.size /\ click.at.index <= Len(arrays[l.items])
<1>1. EInv /\ [EditNext]_editVars => [Hits]_<<click, heap>>
  <2> SUFFICES ASSUME EInv, EditNext, click # NoClick, click.step = "write", click' = NoClick,
                      <<heap>>' # <<heap>>
               PROVE  Hits
    BY DEF editVars
  <2>1. PICK c \in Click : c = click /\ ClickIsSound(c) /\ c.op \in {"edit", "add"}
    BY DEF EInv, ClickIsSound, Click
  <2>2. HeapOK
    BY DEF EInv
  <2>3. \/ c.op = "edit"
        \/ c.op = "add" /\ lists' = [lists EXCEPT ![c.list].size = c.size + 1]
    <3>1. CASE GameActs
      <4>1. click'.step = "write"
        BY <2>1, <3>1 DEF GameActs, Disturbs, Click
      <4> QED
        BY <4>1 DEF NoClick
    <3>2. CASE Write
      BY <2>1, <3>2 DEF Write
    <3>3. ASSUME ~GameActs, ~Write PROVE FALSE
      <4>1. UNCHANGED heap
        BY <3>3 DEF EditNext, ReadFields, PublishFields, ReadView, PublishView, InstancesFound, Tick, CopyRows,
          DrawFields, Refresh, OpenList, Back, AddElement, PickInstance, Apply, Type, ClickBegins, InFieldsTab,
          ReadItems, ReadSize, ReadLength, ClickGoes, AnalysisTab
      <4> QED
        BY <4>1
    <3> QED
      BY <3>1, <3>2, <3>3
  <2>4. CASE c.op = "add" /\ lists' = [lists EXCEPT ![c.list].size = c.size + 1]
    <3>1. c.list \in Holders /\ c.step = "write"
      BY <2>1, <2>4 DEF ClickIsSound, Click
    <3>2. c.calm => c.size = lists[c.list].size /\ lists[c.list].size < Len(arrays[lists[c.list].items])
      BY <2>1, <2>4, <3>1, EditAssumption DEF ClickIsSound, Unchanged
    <3>3. lists'[c.list].size = c.size + 1
      BY <2>2, <2>4, <3>1 DEF HeapOK
    <3> QED
      BY <2>1, <2>4, <3>2, <3>3
  <2>5. CASE c.op = "edit"
    <3>1. c.at \in Cells /\ (c.cell = c.at \/ c.carried) /\ c.step = "write"
      BY <2>1, <2>5 DEF ClickIsSound
    <3>2. "array" \in DOMAIN c.at => c.at \in Elements
      BY <3>1, CellKinds
    <3>3. c.list # Null /\ c.calm => Unchanged(c)
      BY <2>1 DEF ClickIsSound
    <3> QED
      BY <2>1, <2>5, <3>1, <3>2, <3>3 DEF Unchanged
  <2> QED
    BY <2>3, <2>4, <2>5
<1> QED
  BY <1>1, EditsInvariance, PTL DEF EditSpec, EditsHitTheirValue
=============================================================================
