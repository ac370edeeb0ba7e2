------------------------------ MODULE ValueScan ------------------------------
(***************************************************************************)
(* The scan of the value search (src/dumper/value_search): which fields of *)
(* which objects a search by kind, name and value reports, and what a      *)
(* drill keeps of them.                                                    *)
(*                                                                         *)
(* The live walk visits the fields of an object, the leaves of its inline  *)
(* structs, the elements of its lists with their members, and, through at  *)
(* most MaxDepth pointer fields, the same of other objects.  A schema      *)
(* built from metadata alone tells beforehand which names can occur; it    *)
(* prunes the walk, class by class and name by name.                       *)
(*                                                                         *)
(* A name is the sequence of its segments: a field, an index or, in a      *)
(* schema, "[]" for any index and "*" for members that are not known.  In  *)
(* the text a segment follows a dot and an index does not.  Strings, enums *)
(* and booleans are searched like numbers, under a chip of their own, and  *)
(* are left out, and so are static fields.                                 *)
(***************************************************************************)
EXTENDS Naturals, Sequences, FiniteSets, SequencesExt

CONSTANTS
  Klasses,      \* the classes of the image, in the order they are scanned
  Instances,    \* managed objects
  Null,         \* the null reference
  Fields,       \* class -> its fields: [name, kind, of], in metadata order
  Unresolved,   \* declared classes the metadata does not resolve
  Structs,      \* value types of the game: their objects lie in lists, at a cell
  ClassOf,      \* object -> the class its header names
  Candidates,   \* class -> the objects found for it, derived ones included
  Heaps,        \* initial contents: object -> field name -> value
  Needles,      \* name needles
  Index,        \* the segments of the indices 0, 1, ...
  MaxElements,  \* kValueSearchMaxCollectionElements
  MaxInterior,  \* kValueSearchMaxElementInteriorFields
  MaxFollowed,  \* kValueSearchMaxPtrFieldsFollowed
  HitCap,       \* kValueSearchHitCap
  MaxWrites     \* bound: what the host changes before a drill

MaxDepth == 2   \* kValueSearchMaxPtrFollowDepth

ASSUME ScanAssumption ==
  /\ Null \notin Instances
  /\ \A i \in Instances : ClassOf[i] \in ToSet(Klasses)
  /\ Structs \subseteq ToSet(Klasses) /\ \A s \in Structs : Candidates[s] = <<>>
  /\ {MaxElements, MaxInterior, MaxFollowed, HitCap} \subseteq Nat \ {0}
  /\ MaxWrites \in Nat

VARIABLES
  heap,      \* what the fields of each object hold
  params,    \* ValueSearchParams: chips, name, strictness, value
  usable,    \* did the schema of each class build completely?
  phase,     \* "ready", "found", "drilled"
  baseline,  \* hits of the search a drill starts from
  hits,      \* ValueSearchScanResult
  capped,    \* truncReason is HitCap
  writes     \* the bounded counter

vars == <<heap, params, usable, phase, baseline, hits, capped, writes>>

Map(s, Op(_)) == [n \in DOMAIN s |-> Op(s[n])]
UpTo(s, n) == SubSeq(s, 1, IF Len(s) < n THEN Len(s) ELSE n)
When(cond, s) == IF cond THEN s ELSE <<>>

IsIndex(segment) == segment \in ToSet(Index)
Pattern(name) == Map(name, LAMBDA s : IF IsIndex(s) THEN "[]" ELSE s)
\* Is name a path below prefix?  The next segment must follow a dot.
Below(prefix, name) ==
  IsStrictPrefix(prefix, name) /\ name[Len(prefix) + 1] # "[]" /\ ~IsIndex(name[Len(prefix) + 1])

---------------------------------------------------------------------------
(***************************************************************************)
(* The gates on kind, name and value.                                      *)
(***************************************************************************)
KindAllowed(kind) ==
  CASE kind \in {"number", "inline"} -> params.number
    [] kind = "ptr"                  -> params.ptr
    [] kind = "struct"               -> FALSE
    [] OTHER                         -> params.deep

ElementKindAllowed(kind) == kind # "list" /\ KindAllowed(kind)

\* Strict: the needle occurs in the name; otherwise as a subsequence.
NamePasses(name) ==
  \/ params.name = <<>>
  \/ params.name \in IF params.strict THEN SubSeqs(name) ELSE AllSubSeqs(name)

\* An empty value needle asks for names only; a drill always has a value.
ValuePasses(row, value) ==
  CASE value = ""          -> params.name # <<>>
    [] row.kind = "number" -> row.val = value
    [] row.kind = "ptr"    -> \/ value = "null" /\ row.val = Null
                              \/ value = "non-null" /\ row.val # Null
    [] OTHER               -> FALSE

---------------------------------------------------------------------------
(***************************************************************************)
(* Rows of live data.  at is the address the value is read from.           *)
(***************************************************************************)
GetRawFields(klass, i, prefix) ==
  Map(Fields[klass], LAMBDA f :
        [name |-> Append(prefix, f.name), kind |-> f.kind, of |-> f.of,
         at |-> <<i, f.name>>, val |-> heap[i][f.name]])

NestedLeaf(row) == [row EXCEPT !.name = Append(@, "x"), !.at = Append(@, "x"), !.kind = "number"]

ExpandNestedLeaves(rows) ==
  rows \o Map(SelectSeq(rows, LAMBDA r : r.kind = "inline"), NestedLeaf)

ElementKind(class) ==
  CASE class \in Structs -> "struct" [] class \in ToSet(Klasses) \ Structs -> "ptr" [] OTHER -> "number"

GetCollectionView(row, max) ==
  [j \in DOMAIN UpTo(row.val, max) |->
     [name |-> Append(row.name, Index[j]), kind |-> ElementKind(row.of), of |-> row.of,
      at |-> Append(row.at, Index[j]), val |-> row.val[j]]]

\* The members of a struct, or of the object an element refers to, by its own class.
ExpandElementInterior(element) ==
  IF element.kind = "number" \/ element.val = Null THEN <<>>
  ELSE UpTo(GetRawFields(ClassOf[element.val], element.val, element.name), MaxInterior)

---------------------------------------------------------------------------
(***************************************************************************)
(* The schema of a class, from the declared types alone.                   *)
(***************************************************************************)
SchemaRow(prefix, f, follow) ==
  [name |-> Append(prefix, f.name), kind |-> f.kind, follow |-> follow]

SchemaLeaves(prefix, f, follow) ==
  When(f.kind = "inline",
       <<[name |-> prefix \o <<f.name, "x">>, kind |-> "number", follow |-> follow]>>)

SchemaInteriors(prefix, f, follow) ==
  When(f.kind = "list" /\ f.of \in ToSet(Klasses) \ Unresolved,
       Map(UpTo(Fields[f.of], MaxInterior), LAMBDA g :
             SchemaRow(prefix \o <<f.name, "[]">>, g, follow)))

RECURSIVE PtrFollowSchemaLeaves(_, _, _)
PtrFollowSchemaLeaves(prefix, f, depth) ==
  LET under == Append(prefix, f.name)
  IN IF f.of \in Unresolved
     THEN <<[name |-> Append(under, "*"), kind |-> "ptr", follow |-> TRUE]>>
     ELSE FlattenSeq(Map(Fields[f.of], LAMBDA g :
            <<SchemaRow(under, g, TRUE)>>
            \o SchemaLeaves(under, g, TRUE) \o SchemaInteriors(under, g, TRUE)
            \o When(depth > 1 /\ g.kind = "ptr", PtrFollowSchemaLeaves(under, g, depth - 1))))

Schema ==
  [klass \in ToSet(Klasses) |->
     FlattenSeq(Map(Fields[klass], LAMBDA f :
       <<SchemaRow(<<>>, f, FALSE)>>
       \o SchemaLeaves(<<>>, f, FALSE) \o SchemaInteriors(<<>>, f, FALSE)
       \o When(f.kind = "ptr", PtrFollowSchemaLeaves(<<>>, f, MaxDepth))))]

IsUnresolved(row) == Last(row.name) = "*"
IsInterior(row) == Len(row.name) > 2 /\ row.name[Len(row.name) - 1] = "[]"
FollowableSlot(row) == params.deep /\ row.kind = "ptr" /\ Len(row.name) = 1

MayContribute(row, forNameAllow) ==
  IF IsUnresolved(row) THEN ~forNameAllow /\ params.deep
  ELSE /\ (IsInterior(row) \/ row.follow) => params.deep
       /\ FollowableSlot(row) \/ KindAllowed(row.kind)
       /\ NamePasses(row.name)

ClassMayMatch(klass) == \E n \in DOMAIN Schema[klass] : MayContribute(Schema[klass][n], FALSE)

\* What the walk of one class knows: whether names are filtered, the names
\* that may contribute, and the schema (none when it did not build).
Gate(klass) ==
  LET rows == When(usable, Schema[klass])
  IN [on |-> usable /\ params.name # <<>>,
      allow |-> {r.name : r \in {s \in ToSet(rows) : MayContribute(s, TRUE)}},
      passing |-> {r.name : r \in {s \in ToSet(rows) : ~IsUnresolved(s) /\ NamePasses(s.name)}}]

---------------------------------------------------------------------------
(***************************************************************************)
(* The walk.                                                               *)
(***************************************************************************)
AllowContains(gate, name) == name \in gate.allow \/ Pattern(name) \in gate.allow

IncludesCollection(gate, name) ==
  \/ ~gate.on \/ AllowContains(gate, name)
  \/ params.deep /\ \E n \in gate.allow : IsStrictPrefix(Append(name, "[]"), n)

IncludesPtr(gate, name) ==
  \/ ~gate.on \/ AllowContains(gate, name)
  \/ params.deep /\ \E n \in gate.allow : Below(name, n)

Hit(klass, i, row) == [klass |-> klass, inst |-> i, name |-> row.name, at |-> row.at]

\* A list whose own name passes yields its slots; a list that is only entered
\* because a member may pass yields members alone.
TryMatchCollectionElements(klass, i, row, gate) ==
  LET byName   == NamePasses(row.name)
      byMember == \E n \in gate.passing :
                    IsPrefix(Append(row.name, "[]"), n) /\ Len(n) = Len(row.name) + 2
      Slot(e)  == When(/\ byName /\ ElementKindAllowed(e.kind) /\ ValuePasses(e, params.value),
                       <<e>>)
      Members(e) == SelectSeq(ExpandElementInterior(e), LAMBDA m :
                      /\ ElementKindAllowed(m.kind) /\ NamePasses(m.name)
                      /\ ValuePasses(m, params.value))
  IN When(params.deep /\ (byName \/ byMember),
          Map(FlattenSeq(Map(GetCollectionView(row, MaxElements), LAMBDA e : Slot(e) \o Members(e))),
              LAMBDA r : Hit(klass, i, r)))

DirectMatch(klass, i, row) ==
  When(KindAllowed(row.kind) /\ NamePasses(row.name) /\ ValuePasses(row, params.value),
       <<Hit(klass, i, row)>>)

MutAncestorOk(i, ancestors, target) == ancestors # {} => target \notin ancestors

\* The first hop may lead anywhere, back to the object itself too; a second
\* one not back to where the path has been.
AncestorOk(i, ancestors, target) == ancestors # {} => target \notin ancestors \cup {i}

\* The rows of one object.  filter: does the set of allowed names apply?
\* At most MaxFollowed pointers of an object are followed.
RECURSIVE Walk(_, _, _, _, _, _, _)
Walk(klass, i, rows, gate, filter, depth, ancestors) ==
  LET Follows(row) ==
        /\ params.deep /\ row.kind = "ptr" /\ depth > 0
        /\ IncludesPtr(gate, row.name)
        /\ NamePasses(row.name) \/ \E n \in gate.passing : Below(row.name, n)
        /\ row.val # Null /\ AncestorOk(i, ancestors, row.val)
      Nested(row) ==
        Walk(klass, i, ExpandNestedLeaves(GetRawFields(ClassOf[row.val], row.val, row.name)),
             gate, gate.on /\ ~NamePasses(row.name), depth - 1,
             IF depth = MaxDepth THEN {row.val} ELSE ancestors \cup {row.val})
      Enters(row) == ~filter \/ IncludesCollection(gate, row.name)
      Direct(row) == \/ ~filter \/ AllowContains(gate, row.name)
                     \/ depth = MaxDepth /\ params.deep /\ row.kind = "ptr" /\ IncludesPtr(gate, row.name)
      Visit(acc, row) ==
        IF row.kind = "list"
        THEN [acc EXCEPT !.hits = @ \o When(Enters(row), TryMatchCollectionElements(klass, i, row, gate))]
        ELSE LET follow == acc.followed < MaxFollowed /\ Follows(row)
             IN [hits |-> acc.hits \o When(Direct(row), DirectMatch(klass, i, row))
                            \o When(follow, IF follow THEN Nested(row) ELSE <<>>),
                 followed |-> acc.followed + IF follow THEN 1 ELSE 0]
  IN FoldLeft(Visit, [hits |-> <<>>, followed |-> 0], rows).hits

ScanClass(klass) ==
  LET gate == Gate(klass)
  IN FlattenSeq(Map(Candidates[klass], LAMBDA i :
       Walk(klass, i, ExpandNestedLeaves(GetRawFields(klass, i, <<>>)),
            gate, gate.on, MaxDepth, {})))

Skipped(klass) == usable /\ ~ClassMayMatch(klass)

ImageHits == FlattenSeq(Map(Klasses, LAMBDA k : When(~Skipped(k), ScanClass(k))))

---------------------------------------------------------------------------
(***************************************************************************)
(* The drill: find a baseline hit again by its name.  A set of at most one *)
(* row; the ways to read a name are tried in the order of the code.        *)
(***************************************************************************)
FirstOf(s) == IF \E n \in DOMAIN s : s[n] # {}
              THEN s[CHOOSE n \in DOMAIN s : s[n] # {} /\ \A m \in 1..(n - 1) : s[m] = {}]
              ELSE {}

Named(rows, name) == {rows[n] : n \in {m \in DOMAIN rows : rows[m].name = name}}

MutResolveLeaf(rows, name, from) == IF Len(name) = 2 /\ from = 1 THEN Named(rows, Front(name)) ELSE {}

ResolveLeaf(rows, name, from) ==
  IF Len(name) = from + 1
  THEN {NestedLeaf(r) : r \in {s \in Named(rows, Front(name)) : s.kind = "inline" /\ Last(name) = "x"}}
  ELSE {}

ResolveInterior(rows, name, from) ==
  IF Len(name) > from + 1 /\ ~IsIndex(Last(name)) /\ IsIndex(name[Len(name) - 1])
  THEN UNION {Named(ExpandElementInterior(e), name) :
                e \in UNION {Named(GetCollectionView(r, Len(Index)), Front(name)) :
                               r \in {s \in Named(rows, Front(Front(name))) : s.kind = "list"}}}
  ELSE {}

ResolveSlot(rows, name) ==
  IF IsIndex(Last(name))
  THEN UNION {Named(GetCollectionView(r, Len(Index)), name) :
                r \in {s \in Named(rows, Front(name)) : s.kind = "list"}}
  ELSE {}

\* from: the segment of the name that is a field of these rows.
RECURSIVE ResolveSearchField(_, _, _)
ResolveSearchField(rows, name, from) ==
  LET ptrs == IF Len(name) > from /\ ~IsIndex(name[from + 1])
              THEN {r \in Named(rows, SubSeq(name, 1, from)) : r.kind = "ptr" /\ r.val # Null} ELSE {}
      Below1(r) == ResolveSearchField(
                     ExpandNestedLeaves(GetRawFields(ClassOf[r.val], r.val, r.name)), name, from + 1)
  IN FirstOf(<<Named(rows, name), ResolveLeaf(rows, name, from),
               UNION {Below1(r) : r \in ptrs},
               ResolveInterior(rows, name, from), ResolveSlot(rows, name)>>)

\* The fields of an object are read once, with the class of its first hit.
FieldKlass(b, n) == b[CHOOSE m \in 1..n : /\ b[m].inst = b[n].inst
                                           /\ \A l \in 1..(m - 1) : b[l].inst # b[n].inst].klass

DrillHits(value) ==
  FlattenSeq([n \in DOMAIN hits |->
    LET b == hits[n]
        found == ResolveSearchField(GetRawFields(FieldKlass(hits, n), b.inst, <<>>), b.name, 1)
    IN SetToSeq({Hit(b.klass, b.inst, r) : r \in {s \in found : ValuePasses(s, value)}})])

---------------------------------------------------------------------------
Values == {"0", "1"}

Init ==
  /\ heap \in Heaps
  /\ params \in [number : BOOLEAN, ptr : BOOLEAN, deep : BOOLEAN, strict : BOOLEAN,
                 name : Needles, value : Values \cup {"", "null", "non-null"}]
  /\ usable \in BOOLEAN
  /\ phase = "ready" /\ baseline = <<>> /\ hits = <<>> /\ capped = FALSE /\ writes = 0

\* The scan stops at the cap.
Cut(s) == [hits |-> UpTo(s, HitCap), capped |-> Len(s) >= HitCap]

RunSearch ==
  /\ phase = "ready" /\ phase' = "found"
  /\ LET r == Cut(ImageHits) IN hits' = r.hits /\ capped' = r.capped
  /\ UNCHANGED <<heap, params, usable, baseline, writes>>

\* The game goes on: numbers change, pointers move, lists shrink.
HostWrites ==
  /\ phase = "found" /\ writes < MaxWrites /\ hits # <<>>
  /\ \E i \in Instances : \E f \in ToSet(Fields[ClassOf[i]]) :
       \E v \in CASE f.kind \in {"number", "inline"} -> Values
                  [] f.kind = "ptr" -> {Null} \cup ToSet(Candidates[f.of])
                  [] OTHER -> {When(heap[i][f.name] # <<>>, Tail(heap[i][f.name]))} :
         v # heap[i][f.name] /\ heap' = [heap EXCEPT ![i][f.name] = v]
  /\ writes' = writes + 1
  /\ UNCHANGED <<params, usable, phase, baseline, hits, capped>>

RunDrill ==
  /\ phase = "found" /\ hits # <<>> /\ phase' = "drilled"
  /\ baseline' = hits
  /\ \E value \in Values \cup {"null", "non-null"} :
       /\ params' = [params EXCEPT !.value = value]
       /\ LET r == Cut(DrillHits(value)) IN hits' = r.hits /\ capped' = r.capped
  /\ UNCHANGED <<heap, usable, writes>>

Next == RunSearch \/ HostWrites \/ RunDrill

Spec == Init /\ [][Next]_vars

---------------------------------------------------------------------------
(***************************************************************************)
(* What a search promises, stated over the objects instead of over the     *)
(* walk.  An object in reach of a candidate is the candidate itself or the *)
(* target of one pointer, or of two when the second does not lead back.    *)
(* Reach says two things of it.  near: each pointer on the way is one of   *)
(* the first MaxFollowed of its owner that lead anywhere; the walk passes  *)
(* over the others and tells nobody.  expected: the schema can know the    *)
(* fields of the object, by the declared classes.                          *)
(***************************************************************************)
Rows(o) == ExpandNestedLeaves(GetRawFields(o.klass, o.inst, o.path))
Known(class, target) == ClassOf[target] = class /\ class \notin Unresolved

\* The objects o points to, except those in back.
Targets(o, back) ==
  LET ptrs == SelectSeq(Rows(o), LAMBDA r : r.kind = "ptr" /\ r.val \notin {Null} \cup back)
  IN {[klass |-> ClassOf[ptrs[n].val], inst |-> ptrs[n].val, path |-> ptrs[n].name,
       near |-> o.near /\ n <= MaxFollowed,
       expected |-> o.expected /\ Known(ptrs[n].of, ptrs[n].val)] : n \in DOMAIN ptrs}

Reach(klass, i, cycles) ==
  LET root == [klass |-> klass, inst |-> i, path |-> <<>>, near |-> TRUE, expected |-> TRUE]
      one  == Targets(root, {})
      two  == UNION {Targets(o, IF cycles THEN {} ELSE {i, o.inst}) : o \in one}
  IN {root} \cup one \cup two

Elements(row, max) == IF row.kind = "list" THEN ToSet(GetCollectionView(row, max)) ELSE {}

\* The slots of an object that pass chips and name: its fields, the elements
\* of the lists whose own name passes, and members of elements.
Passing(o) ==
  LET plain   == {r \in ToSet(Rows(o)) : r.kind # "list" /\ KindAllowed(r.kind) /\ NamePasses(r.name)}
      lists   == {r \in ToSet(Rows(o)) : r.kind = "list" /\ params.deep}
      slots   == UNION {Elements(r, MaxElements) : r \in {l \in lists : NamePasses(l.name)}}
      Members(e) == {m \in ToSet(ExpandElementInterior(e)) : NamePasses(m.name)}
  IN {[row |-> r, near |-> o.near, expected |-> o.expected] : r \in plain \cup {e \in slots : ElementKindAllowed(e.kind)}}
     \cup UNION {{[row |-> m, near |-> o.near,
                   expected |-> o.expected /\ Known(e.of, e.val) /\ NamePasses(Pattern(m.name))] :
                    m \in {n \in Members(e) : ElementKindAllowed(n.kind)}} :
                  e \in UNION {Elements(r, MaxElements) : r \in lists}}

Slots(klass, i) ==
  {s \in UNION {Passing(o) : o \in {p \in Reach(klass, i, FALSE) : params.deep \/ p.path = <<>>}} :
     ValuePasses(s.row, params.value)}

Scanned == {<<k, i>> \in ToSet(Klasses) \X Instances : i \in ToSet(Candidates[k])}

\* What the pruned walk reports is exactly what there is: every hit is a slot
\* in reach that passes chips, name and value, none is reported twice, and if
\* the cap was not met no near slot is missing that the schema can know of,
\* even though the schema and the set of allowed names skip classes, fields,
\* lists and pointers unread.  Without a name it is precisely the near slots,
\* known to the schema or not: what lies behind more than MaxFollowed pointers
\* of one object is not reported, and no truncation either.  The cap of hits is
\* kept, and reported only when it was met.
SearchIsExact ==
  phase = "found" /\ writes = 0 =>
    LET Report(p, slots) == {Hit(p[1], p[2], s.row) : s \in slots}
        May(p) == {s \in Slots(p[1], p[2]) : params.name = <<>> => s.near}
        Due(p) == {s \in Slots(p[1], p[2]) : s.near /\ (params.name = <<>> \/ (usable /\ s.expected))}
    IN /\ ToSet(hits) \subseteq UNION {Report(p, May(p)) : p \in Scanned}
       /\ Cardinality({<<h.klass, h.inst, h.name>> : h \in ToSet(hits)}) = Len(hits)
       /\ Len(hits) <= HitCap /\ (capped => Len(hits) = HitCap)
       /\ ~capped => UNION {Report(p, Due(p)) : p \in Scanned} \subseteq ToSet(hits)

\* A drill re-reads, by name alone, what the search found: it keeps, in order,
\* exactly the hits whose name denotes a slot with the new value now, wherever
\* the path leads by then, and reports where it leads.  Hits of an object
\* under another class than its first hit's are the exception (FieldKlass).
DrillIsExact ==
  phase = "drilled" =>
    LET Own(h) == \E n \in DOMAIN baseline : h.klass = baseline[n].klass /\ h.inst = baseline[n].inst
                    /\ h.name = baseline[n].name /\ FieldKlass(baseline, n) = h.klass
        All(o) == LET es == UNION {Elements(r, Len(Index)) : r \in ToSet(Rows(o))}
                  IN ToSet(Rows(o)) \cup es \cup UNION {ToSet(ExpandElementInterior(e)) : e \in es}
        Now(h) == {Hit(h.klass, h.inst, r) : r \in
                     {s \in UNION {All(o) : o \in Reach(h.klass, h.inst, TRUE)} :
                        s.name = h.name /\ ValuePasses(s, params.value)}}
        Key(h) == <<h.klass, h.inst, h.name>>
    IN /\ \A h \in ToSet(hits) : Own(h) => h \in Now(h)
       /\ Map(SelectSeq(hits, Own), Key) = Map(SelectSeq(baseline, LAMBDA b : Own(b) /\ Now(b) # {}), Key)
=============================================================================
