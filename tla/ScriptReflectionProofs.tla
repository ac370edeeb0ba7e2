----------------------- MODULE ScriptReflectionProofs -----------------------
(***************************************************************************)
(* Theorems about HandleRegistry, for any number of script instances,      *)
(* registrations, addresses and kinds; about ScriptReflection, which       *)
(* implements it, for any objects and classes as well; and about the       *)
(* conversions of ScriptValues, for any widths of numbers.                 *)
(***************************************************************************)
EXTENDS ScriptReflection, FiniteSetTheorems, TLAPS

-----------------------------------------------------------------------------
(***************************************************************************)
(* The registry.                                                           *)
(***************************************************************************)

\* The list of entries never grows beyond the number of registrations.
SizeBounded == size < nextGeneration

\* Every handle that was issued is older than the next generation, is not
\* newer than the entry it names, and describes that entry while both have
\* the same generation and the entry is alive.
IssuedMatches ==
  \A r \in issued :
    LET e == entries[r.index] IN
    /\ r.generation < nextGeneration
    /\ r.generation <= e.generation
    /\ r.generation = e.generation /\ e.alive =>
         /\ r.address = e.address
         /\ r.kind = e.kind
         /\ r.owner = e.owner
         /\ r.address # NullAddress

IInv ==
  /\ TypeOK
  /\ FreeListSound
  /\ SizeBounded
  /\ IssuedMatches
  /\ SweepIsComplete

-----------------------------------------------------------------------------
\* The registry starts empty: nothing is issued and nothing is free.
LEMMA InitIInv == Init => IInv
<1> USE RegistryAssumption
<1> SUFFICES ASSUME Init PROVE IInv
  OBVIOUS
<1>1. TypeOK
  BY DEF Init, TypeOK, Slots, Entry, DefaultEntry, Owners, NoOwner
<1>2. FreeListSound /\ SizeBounded /\ IssuedMatches /\ SweepIsComplete
  BY DEF Init, FreeListSound, SizeBounded, IssuedMatches, SweepIsComplete, Slots
<1> QED
  BY <1>1, <1>2 DEF IInv

\* Register, once it picked an index, keeps the invariant: the index was not
\* that of a live entry, and the generation is newer than any handle's.
LEMMA RegisterIInv ==
  ASSUME IInv, NEW o \in 1..current, NEW address \in Addresses \cup {NullAddress},
         NEW kind \in Kinds, Register(o, address, kind)
  PROVE  IInv'
<1> USE RegistryAssumption
<1>0. /\ TypeOK /\ FreeListSound /\ SizeBounded /\ IssuedMatches /\ SweepIsComplete
      /\ nextGeneration <= MaxRegistrations
      /\ nextGeneration' = nextGeneration + 1
      /\ current' = current /\ retired' = retired
  BY DEF IInv, Register, TakeGeneration
<1> DEFINE e == [generation |-> nextGeneration, address |-> address, kind |-> kind,
                 owner |-> o, alive |-> address # NullAddress]
           new(j) == [index |-> j, generation |-> nextGeneration, address |-> address,
                      kind |-> kind, owner |-> o, late |-> o \in retired]
<1>1. PICK i \in NewIndex :
        /\ entries' = [entries EXCEPT ![i] = e]
        /\ IF free[i] > 0
           THEN free' = [free EXCEPT ![i] = @ - 1] /\ size' = size
           ELSE size' = size + 1 /\ free' = free
        /\ issued' = issued \cup {new(i)}
  BY DEF Register, TakeGeneration
<1>2. i \in Slots /\ (free[i] > 0 \/ (i = size /\ \A j \in Slots : ~(free[j] > 0)))
  BY <1>0, <1>1 DEF NewIndex, SizeBounded, TypeOK, Slots
<1>3. o \in Owners
  BY <1>0 DEF TypeOK, Owners
<1>4. e \in Entry /\ new(i) \in Issue
  BY <1>0, <1>2, <1>3 DEF Entry, Issue, TypeOK
<1>5. /\ entries'[i] = e
      /\ \A j \in Slots : j # i => entries'[j] = entries[j]
      /\ \A j \in Slots : free'[j] = IF j = i /\ free[i] > 0 THEN free[j] - 1 ELSE free[j]
  BY <1>0, <1>1, <1>2 DEF TypeOK
<1>6. TypeOK'
  <2>1. entries' \in [Slots -> Entry] /\ issued' \in SUBSET Issue
    BY <1>0, <1>1, <1>2, <1>4 DEF TypeOK
  <2>2. free' \in [Slots -> Nat] /\ size' \in Nat
    BY <1>0, <1>1, <1>2 DEF TypeOK
  <2> QED
    BY <1>0, <2>1, <2>2 DEF TypeOK
<1>7. FreeListSound'
  <2> SUFFICES ASSUME NEW j \in Slots, free'[j] > 0
               PROVE  free'[j] = 1 /\ j < size' /\ ~entries'[j].alive
    BY DEF FreeListSound
  <2>1. j # i
    BY <1>0, <1>2, <1>5 DEF FreeListSound, TypeOK
  <2>2. free[j] = 1 /\ j < size /\ ~entries[j].alive
    BY <1>0, <1>5, <2>1 DEF FreeListSound
  <2> QED
    BY <1>0, <1>1, <1>5, <2>1, <2>2 DEF TypeOK, Slots
<1>8. SizeBounded'
  BY <1>0, <1>1 DEF SizeBounded, TypeOK
<1>9. IssuedMatches'
  <2> SUFFICES ASSUME NEW r \in issued'
               PROVE  /\ r.generation < nextGeneration'
                      /\ r.generation <= entries'[r.index].generation
                      /\ r.generation = entries'[r.index].generation /\ entries'[r.index].alive =>
                           /\ r.address = entries'[r.index].address
                           /\ r.kind = entries'[r.index].kind
                           /\ r.owner = entries'[r.index].owner
                           /\ r.address # NullAddress
    BY DEF IssuedMatches
  <2>1. CASE r = new(i)
    <3>1. /\ entries'[r.index] = e
          /\ r.generation = nextGeneration /\ r.address = address /\ r.kind = kind /\ r.owner = o
      BY <1>5, <2>1
    <3>2. e.alive => address # NullAddress
      OBVIOUS
    <3>3. e.generation = nextGeneration /\ e.address = address /\ e.kind = kind /\ e.owner = o
      OBVIOUS
    <3> HIDE DEF e
    <3> QED
      BY <1>0, <3>1, <3>2, <3>3 DEF TypeOK
  <2>2. CASE r \in issued
    <3>1. r.generation < nextGeneration /\ r.generation \in Nat /\ r.index \in Slots
      BY <1>0, <2>2 DEF IssuedMatches, TypeOK, Issue
    <3>2. CASE r.index = i
      BY <1>0, <1>5, <3>1, <3>2 DEF TypeOK
    <3>3. CASE r.index # i
      BY <1>0, <1>5, <2>2, <3>1, <3>3 DEF IssuedMatches, TypeOK
    <3> QED
      BY <3>2, <3>3
  <2> QED
    BY <1>1, <2>1, <2>2
<1>10. SweepIsComplete'
  <2> SUFFICES ASSUME NEW r \in issued', Resolves(r.index, r.generation, r.owner, r.kind)',
                      r.owner \in retired'
               PROVE  r.late
    BY DEF SweepIsComplete
  <2>1. CASE r = new(i)
    BY <1>0, <2>1
  <2>2. CASE r \in issued
    <3>1. r.generation < nextGeneration /\ r.generation \in Nat /\ r.index \in Slots
      BY <1>0, <2>2 DEF IssuedMatches, TypeOK, Issue
    <3>2. r.index # i
      BY <1>0, <1>5, <3>1 DEF Resolves, TypeOK
    <3>3. r.index < size
      BY <1>0, <1>1, <1>2, <3>1, <3>2 DEF Resolves, TypeOK, Slots
    <3>4. Resolves(r.index, r.generation, r.owner, r.kind)
      BY <1>5, <3>1, <3>2, <3>3 DEF Resolves
    <3> QED
      BY <1>0, <2>2, <3>4 DEF SweepIsComplete
  <2> QED
    BY <1>1, <2>1, <2>2
<1> QED
  BY <1>6, <1>7, <1>8, <1>9, <1>10 DEF IInv

\* What InvalidateOwnedBy makes of an entry.
LEMMA InvalidatedEntry ==
  ASSUME NEW e \in Entry
  PROVE  LET d == [e EXCEPT !.alive = FALSE, !.generation = @ + 1] IN
         /\ d \in Entry
         /\ ~d.alive
         /\ d.generation = e.generation + 1
<1> DEFINE d == [e EXCEPT !.alive = FALSE, !.generation = @ + 1]
           h == [e EXCEPT !.alive = FALSE]
<1>1. ~d.alive /\ d.generation = e.generation + 1
  BY DEF Entry
<1>2. d \in Entry
  <2>1. h \in Entry
    BY DEF Entry
  <2>2. h.generation + 1 \in Nat
    BY <2>1 DEF Entry
  <2> HIDE DEF h
  <2>3. [h EXCEPT !.generation = @ + 1] \in Entry
    BY <2>1, <2>2 DEF Entry
  <2> QED
    BY <2>3 DEF h
<1> QED
  BY <1>1, <1>2

\* InvalidateOwnedBy keeps the invariant: the entries it frees were alive, so
\* they were not free, and every handle to them is older than they become.
LEMMA InvalidateIInv ==
  ASSUME IInv, NEW o \in 1..current, InvalidateOwnedBy(o)
  PROVE  IInv'
<1> USE RegistryAssumption
<1>0. /\ TypeOK /\ FreeListSound /\ SizeBounded /\ IssuedMatches /\ SweepIsComplete
      /\ UNCHANGED <<size, nextGeneration, current, issued>>
      /\ retired' = retired \cup {o}
  BY DEF IInv, InvalidateOwnedBy
<1>1. \A i \in Slots : i \in Owned(o) =>
        /\ entries'[i] = [entries[i] EXCEPT !.alive = FALSE, !.generation = @ + 1]
        /\ free'[i] = free[i] + 1
  BY DEF InvalidateOwnedBy
<1>2. \A i \in Slots : i \notin Owned(o) => entries'[i] = entries[i] /\ free'[i] = free[i]
  BY DEF InvalidateOwnedBy
<1>3. \A i \in Slots : i \in Owned(o) =>
        /\ entries'[i] \in Entry
        /\ ~entries'[i].alive
        /\ entries'[i].generation = entries[i].generation + 1
  <2> TAKE i \in Slots
  <2> HAVE i \in Owned(o)
  <2>1. entries[i] \in Entry
    BY <1>0 DEF TypeOK
  <2> QED
    BY <1>1, <2>1, InvalidatedEntry
<1>4. TypeOK'
  <2>1. entries' \in [Slots -> Entry]
    <3>1. \A i \in Slots : entries'[i] \in Entry
      BY <1>0, <1>2, <1>3 DEF TypeOK
    <3> QED
      BY <3>1 DEF InvalidateOwnedBy
  <2>2. free' \in [Slots -> Nat]
    <3>1. \A i \in Slots : free[i] \in Nat
      BY <1>0 DEF TypeOK
    <3>2. free' = [i \in Slots |-> IF i \in Owned(o) THEN free[i] + 1 ELSE free[i]]
      BY DEF InvalidateOwnedBy
    <3> QED
      BY <3>1, <3>2
  <2>3. retired' \in SUBSET (1..current')
    BY <1>0 DEF TypeOK
  <2> QED
    BY <1>0, <2>1, <2>2, <2>3 DEF TypeOK
<1>5. FreeListSound'
  <2> SUFFICES ASSUME NEW i \in Slots, free'[i] > 0
               PROVE  free'[i] = 1 /\ i < size' /\ ~entries'[i].alive
    BY DEF FreeListSound
  <2>1. CASE i \in Owned(o)
    <3>1. free[i] \in Nat /\ free'[i] = free[i] + 1 /\ ~entries'[i].alive
      BY <1>0, <1>1, <1>3, <2>1 DEF TypeOK
    <3>2. i < size /\ ~(free[i] > 0)
      BY <1>0, <2>1 DEF FreeListSound, Owned
    <3> QED
      BY <1>0, <3>1, <3>2
  <2>2. CASE i \notin Owned(o)
    BY <1>0, <1>2, <2>2 DEF FreeListSound
  <2> QED
    BY <2>1, <2>2
<1>6. SizeBounded'
  BY <1>0 DEF SizeBounded
<1>7. IssuedMatches'
  <2> SUFFICES ASSUME NEW r \in issued
               PROVE  /\ r.generation < nextGeneration'
                      /\ r.generation <= entries'[r.index].generation
                      /\ r.generation = entries'[r.index].generation /\ entries'[r.index].alive =>
                           /\ r.address = entries'[r.index].address
                           /\ r.kind = entries'[r.index].kind
                           /\ r.owner = entries'[r.index].owner
                           /\ r.address # NullAddress
    BY <1>0 DEF IssuedMatches
  <2>0. r.index \in Slots /\ r.generation \in Nat /\ entries[r.index].generation \in Nat
    BY <1>0 DEF TypeOK, Issue, Entry
  <2>1. CASE r.index \in Owned(o)
    BY <1>0, <1>3, <2>0, <2>1 DEF IssuedMatches
  <2>2. CASE r.index \notin Owned(o)
    BY <1>0, <1>2, <2>0, <2>2 DEF IssuedMatches
  <2> QED
    BY <2>1, <2>2
<1>8. SweepIsComplete'
  <2> SUFFICES ASSUME NEW r \in issued, Resolves(r.index, r.generation, r.owner, r.kind)',
                      r.owner \in retired'
               PROVE  r.late
    BY <1>0 DEF SweepIsComplete
  <2>0. r.index \in Slots
    BY <1>0 DEF TypeOK, Issue
  <2>1. r.index \notin Owned(o)
    BY <1>3, <2>0 DEF Resolves
  <2>2. Resolves(r.index, r.generation, r.owner, r.kind)
    BY <1>0, <1>2, <2>0, <2>1 DEF Resolves
  <2>3. r.owner # o
    BY <1>0, <2>0, <2>1, <2>2 DEF Resolves, Owned
  <2> QED
    BY <1>0, <2>2, <2>3 DEF SweepIsComplete
<1> QED
  BY <1>4, <1>5, <1>6, <1>7, <1>8 DEF IInv

\* Every step keeps the invariant.
LEMMA NextIInv == IInv /\ [Next]_vars => IInv'
<1> SUFFICES ASSUME IInv, [Next]_vars PROVE IInv'
  OBVIOUS
<1>1. CASE Launch
  BY <1>1, RegistryAssumption
  DEF IInv, Launch, TypeOK, FreeListSound, SizeBounded, IssuedMatches, SweepIsComplete, Resolves
<1>2. CASE UNCHANGED vars
  BY <1>2 DEF IInv, vars, TypeOK, FreeListSound, SizeBounded, IssuedMatches, SweepIsComplete, Resolves
<1>3. ASSUME NEW o \in 1..current, NEW address \in Addresses \cup {NullAddress}, NEW kind \in Kinds,
             Register(o, address, kind)
      PROVE  IInv'
  BY <1>3, RegisterIInv
<1>4. ASSUME NEW o \in 1..current, InvalidateOwnedBy(o)
      PROVE  IInv'
  BY <1>4, InvalidateIInv
<1> QED
  BY <1>1, <1>2, <1>3, <1>4 DEF Next

\* IInv holds in every reachable state.
LEMMA Invariance == Spec => []IInv
  BY InitIInv, NextIInv, PTL DEF Spec

\* A live handle resolves to what it was registered for.
LEMMA MatchesResolve == IInv => ResolvesToItsTarget
<1> SUFFICES ASSUME IInv, NEW r \in issued, NEW o \in Owners, NEW kind \in Kinds \cup {AnyKind},
                    Resolves(r.index, r.generation, o, kind)
             PROVE  /\ o = r.owner
                    /\ kind \in {AnyKind, r.kind}
                    /\ entries[r.index].address = r.address
                    /\ r.address # NullAddress
  BY DEF ResolvesToItsTarget
<1>1. entries[r.index].generation = r.generation /\ entries[r.index].alive
      /\ entries[r.index].owner = o /\ kind \in {AnyKind, entries[r.index].kind}
  BY DEF Resolves
<1> QED
  BY <1>1 DEF IInv, IssuedMatches

-----------------------------------------------------------------------------
\* The variables keep their types, whatever is registered and invalidated:
\* in particular every index handed out is one of entries_.
THEOREM TypeCorrect == Spec => []TypeOK
  BY Invariance, PTL DEF IInv

\* A handle resolves only for its owner, as its kind and to its address: an
\* index that was used again never lets an old handle reach the new object.
THEOREM HandlesNameTheirTarget == Spec => []ResolvesToItsTarget
  BY Invariance, MatchesResolve, PTL

\* freeIndices_ holds no index twice and none of a live entry.
THEOREM FreeListCorrect == Spec => []FreeListSound
  BY Invariance, PTL DEF IInv

\* No handle registered before its instance ended survives the sweep.
THEOREM SweepCorrect == Spec => []SweepIsComplete
  BY Invariance, PTL DEF IInv

\* The three together: what the reflection API relies on.
THEOREM HandlesSound == Spec => []HandlesAreSound
  BY HandlesNameTheirTarget, FreeListCorrect, SweepCorrect, PTL DEF HandlesAreSound

\* A handle that stopped resolving never resolves again.
THEOREM NoResurrection == Spec => DeadStaysDead
<1>1. IInv /\ [Next]_vars =>
        [\A r \in issued : ~Resolves(r.index, r.generation, r.owner, r.kind)
           => ~Resolves(r.index, r.generation, r.owner, r.kind)']_vars
  <2> USE RegistryAssumption
  <2> SUFFICES ASSUME IInv, Next, NEW r \in issued,
                      Resolves(r.index, r.generation, r.owner, r.kind)'
               PROVE  Resolves(r.index, r.generation, r.owner, r.kind)
    OBVIOUS
  <2>0. /\ r.index \in Slots /\ r.generation \in Nat /\ r.generation < nextGeneration
        /\ TypeOK /\ SizeBounded /\ FreeListSound
    BY DEF IInv, TypeOK, Issue, IssuedMatches
  <2>1. CASE Launch
    BY <2>1 DEF Launch, Resolves
  <2>2. ASSUME NEW o \in 1..current, NEW address \in Addresses \cup {NullAddress}, NEW kind \in Kinds,
               Register(o, address, kind)
        PROVE  Resolves(r.index, r.generation, r.owner, r.kind)
    <3>1. PICK i \in NewIndex :
            /\ entries' = [entries EXCEPT ![i] =
                 [generation |-> nextGeneration, address |-> address, kind |-> kind,
                  owner |-> o, alive |-> address # NullAddress]]
            /\ IF free[i] > 0 THEN size' = size ELSE size' = size + 1
      BY <2>2 DEF Register, TakeGeneration
    <3>2. i \in Slots /\ (free[i] > 0 \/ i = size)
      BY <2>0, <2>2, <3>1 DEF NewIndex, SizeBounded, TypeOK, Slots, Register, TakeGeneration
    <3>3. r.index # i /\ entries'[r.index] = entries[r.index]
      BY <2>0, <3>1, <3>2 DEF Resolves, TypeOK
    <3>4. r.index < size
      BY <2>0, <3>1, <3>2, <3>3 DEF Resolves, TypeOK, Slots
    <3> QED
      BY <3>3, <3>4 DEF Resolves
  <2>3. ASSUME NEW o \in 1..current, InvalidateOwnedBy(o)
        PROVE  Resolves(r.index, r.generation, r.owner, r.kind)
    <3>1. r.index \in Owned(o) => ~entries'[r.index].alive
      BY <2>0, <2>3, InvalidatedEntry DEF InvalidateOwnedBy, TypeOK
    <3>2. r.index \notin Owned(o) /\ entries'[r.index] = entries[r.index] /\ size' = size
      BY <2>0, <2>3, <3>1 DEF InvalidateOwnedBy, Resolves
    <3> QED
      BY <3>2 DEF Resolves
  <2> QED
    BY <2>1, <2>2, <2>3 DEF Next
<1> QED
  BY <1>1, Invariance, PTL DEF Spec, DeadStaysDead

-----------------------------------------------------------------------------
(***************************************************************************)
(* The registry, as the calls of a script need it: a live entry is of some *)
(* handle that was issued, and none is live that was never used.           *)
(***************************************************************************)
LiveIsIssued ==
  \A i \in Slots : entries[i].alive =>
    \E r \in issued : /\ r.index = i /\ r.generation = entries[i].generation
                      /\ r.address = entries[i].address /\ r.kind = entries[i].kind
                      /\ r.owner = entries[i].owner
RestIsDead == \A i \in Slots : i >= size => ~entries[i].alive

RInv == IInv /\ LiveIsIssued /\ RestIsDead

LEMMA InitRInv == Init => RInv
<1>1. Init => LiveIsIssued /\ RestIsDead
  BY DEF Init, LiveIsIssued, RestIsDead, DefaultEntry
<1> QED
  BY <1>1, InitIInv DEF RInv

\* What Register does: an entry that was dead is made.
LEMMA RegisterEffect ==
  ASSUME RInv, NEW o \in 1..current, NEW address \in Addresses \cup {NullAddress},
         NEW kind \in Kinds, Register(o, address, kind)
  PROVE  \E i \in Slots, e \in Entry :
           /\ ~entries[i].alive /\ i < size' /\ size <= size'
           /\ entries' = [entries EXCEPT ![i] = e]
           /\ e.generation = nextGeneration /\ e.address = address /\ e.kind = kind /\ e.owner = o
           /\ e.alive <=> address # NullAddress
           /\ \E r \in issued' : /\ r.index = i /\ r.generation = nextGeneration
                                 /\ r.address = address /\ r.kind = kind /\ r.owner = o
           /\ issued \subseteq issued'
<1>0. TypeOK /\ SizeBounded /\ FreeListSound /\ RestIsDead /\ nextGeneration <= MaxRegistrations
  BY DEF RInv, IInv, Register
<1> DEFINE e == [generation |-> nextGeneration, address |-> address, kind |-> kind,
                 owner |-> o, alive |-> address # NullAddress]
           new(j) == [index |-> j, generation |-> nextGeneration, address |-> address,
                      kind |-> kind, owner |-> o, late |-> o \in retired]
<1>1. PICK i \in NewIndex :
        /\ entries' = [entries EXCEPT ![i] = e]
        /\ IF free[i] > 0
           THEN free' = [free EXCEPT ![i] = @ - 1] /\ size' = size
           ELSE size' = size + 1 /\ free' = free
        /\ issued' = issued \cup {new(i)}
  BY DEF Register, TakeGeneration
<1>2. i \in Slots /\ (free[i] > 0 \/ i = size)
  BY <1>0, <1>1, RegistryAssumption DEF NewIndex, SizeBounded, TypeOK, Slots
<1>3. ~entries[i].alive /\ i < size' /\ size <= size'
  BY <1>0, <1>1, <1>2, RegistryAssumption DEF FreeListSound, RestIsDead, TypeOK, Slots
<1>4. e \in Entry
  BY <1>0, RegistryAssumption DEF Entry, TypeOK, Owners
<1>5. /\ e.generation = nextGeneration /\ e.address = address /\ e.kind = kind /\ e.owner = o
      /\ e.alive <=> address # NullAddress
  OBVIOUS
<1>6. /\ new(i) \in issued' /\ new(i).index = i /\ new(i).generation = nextGeneration
      /\ new(i).address = address /\ new(i).kind = kind /\ new(i).owner = o
  BY <1>1
<1> HIDE DEF e, new
<1>7. issued \subseteq issued'
  BY <1>1
<1> QED
  BY <1>1, <1>2, <1>3, <1>4, <1>5, <1>6, <1>7

\* Registering one handle leaves the others resolving.
LEMMA ResolvesStays ==
  ASSUME RInv, NEW o \in 1..current, NEW address \in Addresses \cup {NullAddress},
         NEW kind \in Kinds, Register(o, address, kind),
         NEW j \in Slots, NEW g, NEW p, NEW k, Resolves(j, g, p, k)
  PROVE  Resolves(j, g, p, k)'
<1>1. PICK i \in Slots, e \in Entry :
        ~entries[i].alive /\ size <= size' /\ entries' = [entries EXCEPT ![i] = e]
  BY RegisterEffect
<1>2. j # i
  BY <1>1 DEF Resolves
<1>3. size \in Nat /\ size' \in Nat /\ entries \in [Slots -> Entry] /\ j \in Nat
  BY RegisterIInv, RegistryAssumption DEF RInv, IInv, TypeOK, Slots
<1> QED
  BY <1>1, <1>2, <1>3 DEF Resolves

\* So does the end of another instance.
LEMMA ResolvesThrough ==
  ASSUME TypeOK, NEW o, InvalidateOwnedBy(o),
         NEW j \in Slots, NEW g, NEW p, NEW k, Resolves(j, g, p, k), p # o
  PROVE  Resolves(j, g, p, k)'
BY DEF Resolves, InvalidateOwnedBy, Owned

LEMMA NextRInv == RInv /\ [Next]_vars => RInv'
<1> SUFFICES ASSUME RInv, [Next]_vars PROVE RInv'
  OBVIOUS
<1>0. IInv /\ TypeOK /\ IInv'
  BY NextIInv DEF RInv, IInv
<1>1. CASE Launch \/ UNCHANGED vars
  BY <1>0, <1>1 DEF Launch, vars, RInv, LiveIsIssued, RestIsDead
<1>2. ASSUME NEW o \in 1..current, NEW address \in Addresses \cup {NullAddress}, NEW kind \in Kinds,
             Register(o, address, kind)
      PROVE  RInv'
  <2>1. PICK i \in Slots, e \in Entry :
           /\ i < size' /\ size <= size'
           /\ entries' = [entries EXCEPT ![i] = e]
           /\ e.generation = nextGeneration /\ e.address = address /\ e.kind = kind /\ e.owner = o
           /\ \E r \in issued' : /\ r.index = i /\ r.generation = nextGeneration
                                 /\ r.address = address /\ r.kind = kind /\ r.owner = o
           /\ issued \subseteq issued'
    BY <1>2, RegisterEffect
  <2>2. entries'[i] = e /\ (\A j \in Slots : j # i => entries'[j] = entries[j])
    BY <1>0, <2>1 DEF TypeOK
  <2>3. LiveIsIssued'
    BY <2>1, <2>2 DEF RInv, LiveIsIssued
  <2>4. RestIsDead'
    <3>1. size \in Nat /\ size' \in Nat /\ Slots \subseteq Nat
      BY <1>0 DEF IInv, TypeOK, Slots
    <3> QED
      BY <2>1, <2>2, <3>1 DEF RInv, RestIsDead
  <2> QED
    BY <1>0, <2>3, <2>4 DEF RInv
<1>3. ASSUME NEW o \in 1..current, InvalidateOwnedBy(o)
      PROVE  RInv'
  <2>1. \A i \in Slots : entries'[i].alive => entries'[i] = entries[i]
    <3> SUFFICES ASSUME NEW i \in Slots, entries'[i].alive
                 PROVE  entries'[i] = entries[i]
      OBVIOUS
    <3>1. i \in Owned(o) => ~entries'[i].alive
      BY <1>0, <1>3, InvalidatedEntry DEF InvalidateOwnedBy, TypeOK
    <3> QED
      BY <1>3, <3>1 DEF InvalidateOwnedBy
  <2>2. size' = size /\ issued' = issued
    BY <1>3 DEF InvalidateOwnedBy
  <2> QED
    BY <1>0, <2>1, <2>2 DEF RInv, LiveIsIssued, RestIsDead
<1> QED
  BY <1>1, <1>2, <1>3 DEF Next

-----------------------------------------------------------------------------
(***************************************************************************)
(* The calls of a script.  The inductive invariant says of the call and of *)
(* the task what holds at each of their steps, and what ties them: the     *)
(* script whose call is under way has not ended, a task is waited for      *)
(* while its call is claimed, and a task that nobody waits for may belong  *)
(* to a script that is gone.                                               *)
(***************************************************************************)

\* What an operation needs of its arguments.
Named(op, asked) ==
  /\ op \in {"lookup", "find_objects"} => asked.class \in Classes
  /\ op \in InstanceOps \cup {"find_member"} => asked.handle \in Handle

TrueStatus(op, status, effect) ==
  /\ status = "OK" => effect = "done"
  /\ effect # "none" =>
       \/ status \in {"OK", "TIMEOUT", "CANCELLED", "MANAGED_EXCEPTION"}
       \/ op = "invoke" /\ status = "BAD_ARGUMENT"

CallIsSound(c) ==
  /\ current # 0 /\ current \notin retired
  /\ c.phase = "queued" => Named(c.op, c.asked)
  /\ c.phase # "answered" => c.effect = "none"
  /\ \A g \in c.got : Resolves(g.index, g.generation, current, g.kind)
  /\ c.phase = "answered" /\ ~c.faulted => TrueStatus(c.op, StatusOf(c), c.effect)

\* The object a task acts on is the one its handle was registered for.
IsNamed(t) ==
  /\ \E r \in issued :
       /\ r.index = t.asked.handle.index /\ r.generation = t.asked.handle.generation
       /\ r.address = t.target /\ r.kind = "instance" /\ r.owner = t.owner
  /\ heap[t.target] # NoClass
  /\ t.owner \notin retired => identity[t.asked.handle.index] \in {NoClass, heap[t.target]}

TaskIsSound(t) ==
  /\ t.owner \in 1..current
  /\ t.step \in {"validate", "act"} => Named(t.op, t.asked)
  /\ t.step = "validate" => t.op \in InstanceOps \cup {"find_member"}
  /\ t.step = "act" /\ t.op = "find_member" => t.target \in Classes
  /\ t.step = "act" /\ t.op \in InstanceOps => IsNamed(t)
  /\ \A q \in t.todo : q.kind = "class" => q.address \in Classes
  /\ t.owner \notin retired => \A g \in t.got : Resolves(g.index, g.generation, t.owner, g.kind)

Shared ==
  /\ task # NoTask /\ task.waited <=> call # NoCall /\ call.phase = "claimed"
  /\ task # NoTask /\ task.waited => call.op = task.op /\ task.owner = current

ClassesAreClasses ==
  \A i \in Slots : entries[i].alive /\ entries[i].kind = "class" => entries[i].address \in Classes

ProxiesResolve ==
  current \notin retired => \A p \in proxies : Resolves(p.index, p.generation, current, p.kind)

\* The types of the variables that the registry does not have.
CallTypes ==
  /\ identity \in [Slots -> Classes \cup {NoClass}]
  /\ heap \in [Objects -> Classes \cup {NoClass}]
  /\ proxies \in SUBSET Handle
  /\ call \in Call \cup {NoCall}
  /\ task \in Task \cup {NoTask}

RefInv ==
  /\ RInv /\ CallTypes /\ Shared /\ ClassesAreClasses /\ ProxiesResolve
  /\ call # NoCall => CallIsSound(call)
  /\ task # NoTask => TaskIsSound(task)

\* A step that leaves the registry alone.
LEMMA RegistryRests ==
  ASSUME RefInv, UNCHANGED vars
  PROVE  /\ RInv' /\ ClassesAreClasses'
         /\ UNCHANGED <<size, entries, current, retired, issued>>
<1>1. RInv'
  BY NextRInv DEF RefInv
<1>2. UNCHANGED <<size, entries, current, retired, issued>>
  BY DEF vars
<1> QED
  BY <1>1, <1>2 DEF RefInv, ClassesAreClasses

\* A step that changes nothing but the call and the task.
LEMMA OnlyCallAndTask ==
  ASSUME RefInv, UNCHANGED <<vars, identity, heap, proxies>>,
         NEW c \in Call \cup {NoCall}, NEW t \in Task \cup {NoTask}, call' = c, task' = t,
         c # NoCall => CallIsSound(c), t # NoTask => TaskIsSound(t),
         t # NoTask /\ t.waited <=> c # NoCall /\ c.phase = "claimed",
         t # NoTask /\ t.waited => c.op = t.op /\ t.owner = current
  PROVE  RefInv'
<1>1. /\ RInv' /\ ClassesAreClasses'
      /\ UNCHANGED <<size, entries, current, retired, issued, identity, heap, proxies>>
  BY RegistryRests
<1>2. CallTypes'
  BY <1>1 DEF RefInv, CallTypes
<1>3. Shared' /\ ProxiesResolve'
  BY <1>1 DEF RefInv, Shared, ProxiesResolve, Resolves
<1>4. \A r : StatusOf(r)' = StatusOf(r)
  BY DEF StatusOf
<1>5. c # NoCall => CallIsSound(c)'
  BY <1>1 DEF CallIsSound, Resolves, Named, TrueStatus, StatusOf
<1>6. t # NoTask => TaskIsSound(t)'
  BY <1>1 DEF TaskIsSound, IsNamed, Resolves, Named
<1> QED
  BY <1>1, <1>2, <1>3, <1>5, <1>6 DEF RefInv

\* The end of a task: its caller, if it waits, gets a true answer.
LEMMA TaskEnds ==
  ASSUME RefInv, task # NoTask, UNCHANGED <<vars, identity, heap, proxies>>,
         NEW status \in Statuses, NEW result \in Statuses, NEW got \in SUBSET Handle,
         NEW effect \in {"none", "part", "done"}, NEW faulted \in BOOLEAN,
         End(status, result, got, effect, faulted),
         got \subseteq task.got,
         ~faulted => TrueStatus(task.op, IF task.op = "abi" \/ status \in Infrastructure
                                         THEN IF status = "OK" THEN result ELSE status
                                         ELSE result, effect)
  PROVE  RefInv'
<1>0. /\ call \in Call \cup {NoCall} /\ task \in Task /\ TaskIsSound(task) /\ Shared
      /\ call # NoCall => CallIsSound(call)
  BY DEF RefInv, CallTypes
<1>1. CASE ~task.waited
  <2>1. call' = call /\ task' = NoTask
    BY <1>1 DEF End
  <2>2. ~(call # NoCall /\ call.phase = "claimed")
    BY <1>0, <1>1 DEF Shared
  <2> QED
    BY <1>0, <2>1, <2>2, OnlyCallAndTask
<1>2. CASE task.waited
  <2>1. call # NoCall /\ call \in Call /\ call.op = task.op /\ task.owner = current /\ CallIsSound(call)
    BY <1>0, <1>2 DEF Shared
  <2>2. PICK c : c = [call EXCEPT !.phase = "answered", !.command = status, !.result = result,
                                  !.got = got, !.effect = effect, !.faulted = faulted]
    OBVIOUS
  <2>3. /\ c \in Call /\ c.op = call.op /\ c.phase = "answered" /\ c.command = status
        /\ c.result = result /\ c.got = got /\ c.effect = effect /\ c.faulted = faulted
    BY <2>1, <2>2 DEF Call
  <2>4. call' = c /\ task' = NoTask
    BY <1>2, <2>2 DEF End
  <2>5. \A g \in got : Resolves(g.index, g.generation, current, g.kind)
    BY <1>0, <2>1 DEF TaskIsSound, CallIsSound
  <2>6. ~c.faulted => TrueStatus(c.op, StatusOf(c), c.effect)
    BY <2>1, <2>3 DEF StatusOf
  <2>7. CallIsSound(c)
    BY <2>1, <2>3, <2>5, <2>6 DEF CallIsSound
  <2> QED
    BY <2>3, <2>4, <2>7, OnlyCallAndTask
<1> QED
  BY <1>1, <1>2

\* A task that fails answers with its status.
LEMMA TaskFails ==
  ASSUME RefInv, task # NoTask, UNCHANGED <<vars, identity, heap, proxies>>,
         NEW status \in Statuses, NEW effect \in {"none", "part", "done"}, Fail(status, effect),
         TrueStatus(task.op, status, effect)
  PROVE  RefInv'
<1>1. {} \in SUBSET Handle /\ {} \subseteq task.got /\ FALSE \in BOOLEAN
  OBVIOUS
<1>2. End(status, status, {}, effect, FALSE)
  BY DEF Fail
<1>3. (IF task.op = "abi" \/ status \in Infrastructure
       THEN IF status = "OK" THEN status ELSE status ELSE status) = status
  OBVIOUS
<1> QED
  BY <1>1, <1>2, <1>3, TaskEnds

\* A task that goes on.
LEMMA TaskGoesOn ==
  ASSUME RefInv, task # NoTask, UNCHANGED <<vars, identity, heap, proxies, call>>,
         NEW t \in Task, task' = t, TaskIsSound(t),
         t.op = task.op, t.owner = task.owner, t.waited = task.waited
  PROVE  RefInv'
<1>1. /\ call \in Call \cup {NoCall} /\ Shared /\ (call # NoCall => CallIsSound(call))
      /\ t # NoTask
  BY DEF RefInv, CallTypes, NoTask, Task, Ops, FindOps, InstanceOps
<1> QED
  BY <1>1, OnlyCallAndTask DEF Shared

-----------------------------------------------------------------------------
\* The facts that the steps below use of RefInv.
LEMMA RefParts ==
  ASSUME RefInv
  PROVE  /\ TypeOK /\ CallTypes /\ Shared
         /\ call # NoCall => call \in Call /\ CallIsSound(call)
         /\ task # NoTask => task \in Task /\ TaskIsSound(task)
         /\ current \in Nat /\ retired \subseteq 1..current
BY RegistryAssumption DEF RefInv, RInv, IInv, TypeOK, CallTypes

LEMMA InitRefInv == ReflectionInit => RefInv
<1> SUFFICES ASSUME ReflectionInit PROVE RefInv
  OBVIOUS
<1>1. RInv /\ ClassesAreClasses
  BY InitRInv DEF ReflectionInit, Init, ClassesAreClasses, DefaultEntry
<1> QED
  BY <1>1 DEF ReflectionInit, RefInv, CallTypes, Shared, ProxiesResolve

LEMMA ScriptStarts == ASSUME RefInv, LaunchScript PROVE RefInv' /\ [Next]_vars
<1>1. /\ current < MaxOwners /\ (current # 0 => current \in retired) /\ current' = current + 1
      /\ proxies' = {}
      /\ UNCHANGED <<size, entries, free, nextGeneration, retired, issued, identity, heap, call, task>>
  BY DEF LaunchScript, Launch
<1>2. Next
  BY DEF LaunchScript, Next
<1>3. RInv'
  BY <1>2, NextRInv DEF RefInv
<1>4. call = NoCall
  BY <1>1, RefParts DEF CallIsSound
<1>5. task # NoTask => TaskIsSound(task)'
  BY <1>1, RefParts DEF TaskIsSound, IsNamed, Resolves, Named
<1>6. Shared' /\ ~(task # NoTask /\ task.waited)
  BY <1>1, <1>4, RefParts DEF Shared
<1>7. CallTypes' /\ ClassesAreClasses' /\ ProxiesResolve'
  BY <1>1 DEF RefInv, CallTypes, ClassesAreClasses, ProxiesResolve
<1> QED
  BY <1>1, <1>2, <1>3, <1>4, <1>5, <1>6, <1>7 DEF RefInv

LEMMA CallIsMade == ASSUME RefInv, NEW op \in Ops, Submit(op) PROVE RefInv'
<1>1. /\ current \notin retired /\ current # 0 /\ call = NoCall /\ task = NoTask
      /\ UNCHANGED <<vars, identity, heap, proxies, task>>
  BY DEF Submit
<1>2. PICK h \in Nameable(op), cl \in IF op \in {"lookup", "find_objects"} THEN Classes ELSE {NoClass},
           a \in {NoHandle} \cup (IF op = "invoke" THEN Nameable(op) ELSE {}) :
        call' = [op |-> op, asked |-> [handle |-> h, arg |-> a, class |-> cl], phase |-> "queued",
                 command |-> "OK", result |-> "BAD_ARGUMENT", got |-> {}, effect |-> "none",
                 faulted |-> FALSE]
  BY DEF Submit
<1>3. proxies \subseteq Handle
  BY RefParts DEF CallTypes
<1>4. op \in InstanceOps \cup {"find_member"} => Nameable(op) \subseteq Handle
  BY <1>3 DEF Nameable, InstanceOps
<1>5. Nameable(op) \subseteq Handle \cup {NoHandle}
  <2>1. op \in {"lookup", "find_objects"} => Nameable(op) = {NoHandle}
    BY DEF Nameable, InstanceOps
  <2> QED
    BY <1>4, <2>1 DEF Ops, FindOps
<1>6. PICK asked \in Asked : asked = [handle |-> h, arg |-> a, class |-> cl]
  BY <1>2, <1>5 DEF Asked
<1>7. Named(op, asked)
  BY <1>2, <1>4, <1>6 DEF Named
<1>8. PICK c : c = [op |-> op, asked |-> asked, phase |-> "queued",
                    command |-> "OK", result |-> "BAD_ARGUMENT", got |-> {}, effect |-> "none",
                    faulted |-> FALSE]
  OBVIOUS
<1>9. c \in Call /\ call' = c
  BY <1>2, <1>6, <1>8 DEF Call, Statuses
<1>10. c.op = op /\ c.asked = asked /\ c.phase = "queued" /\ c.got = {} /\ c.effect = "none"
  BY <1>8
<1>11. CallIsSound(c)
  BY <1>1, <1>7, <1>10 DEF CallIsSound
<1> QED
  BY <1>1, <1>9, <1>10, <1>11, OnlyCallAndTask

LEMMA CallRefused == ASSUME RefInv, Refuse PROVE RefInv'
<1>1. PICK status \in Infrastructure :
        call' = [call EXCEPT !.phase = "answered", !.asked = Taken, !.command = status]
  BY DEF Refuse
<1>2. call # NoCall /\ call.phase = "queued" /\ UNCHANGED <<vars, identity, heap, proxies, task>>
  BY DEF Refuse
<1>3. PICK c : c = [call EXCEPT !.phase = "answered", !.asked = Taken, !.command = status]
  OBVIOUS
<1>4. call \in Call /\ CallIsSound(call) /\ Shared /\ task \in Task \cup {NoTask}
      /\ (task # NoTask => TaskIsSound(task))
  BY <1>2, RefParts DEF CallTypes
<1>5. Taken \in Asked /\ status \in Statuses
  BY DEF Taken, Asked, Statuses
<1>6. /\ c \in Call /\ c.op = call.op /\ c.phase = "answered" /\ c.command = status
      /\ c.got = call.got /\ c.effect = call.effect
  BY <1>3, <1>4, <1>5 DEF Call
<1>7. c.effect = "none" /\ StatusOf(c) = status
  <2>1. status # "OK"
    BY DEF Infrastructure
  <2> QED
    BY <1>2, <1>4, <1>6, <2>1 DEF CallIsSound, StatusOf
<1>8. CallIsSound(c)
  BY <1>4, <1>6, <1>7 DEF CallIsSound, TrueStatus, Infrastructure
<1> QED
  BY <1>1, <1>2, <1>3, <1>4, <1>6, <1>8, OnlyCallAndTask DEF Shared

LEMMA CallerLeaves == ASSUME RefInv, GiveUp PROVE RefInv'
<1>1. PICK status \in {"TIMEOUT", "CANCELLED"} :
        call' = [call EXCEPT !.phase = "answered", !.command = status,
                             !.result = task.result, !.effect = task.effect]
  BY DEF GiveUp
<1>2. /\ call # NoCall /\ call.phase = "claimed" /\ task' = [task EXCEPT !.waited = FALSE]
      /\ UNCHANGED <<vars, identity, heap, proxies>>
  BY DEF GiveUp
<1>3. /\ call \in Call /\ CallIsSound(call) /\ task # NoTask /\ task \in Task /\ TaskIsSound(task)
  BY <1>2, RefParts DEF Shared
<1>4. PICK c : c = [call EXCEPT !.phase = "answered", !.command = status,
                                !.result = task.result, !.effect = task.effect]
  OBVIOUS
<1>5. task.result \in Statuses /\ task.effect \in {"none", "part", "done"} /\ status \in Statuses
  BY <1>3 DEF Task, Statuses, Infrastructure
<1>6. /\ c \in Call /\ c.op = call.op /\ c.phase = "answered" /\ c.command = status /\ c.got = call.got
  BY <1>3, <1>4, <1>5 DEF Call
<1>7. CallIsSound(c)
  BY <1>3, <1>6 DEF CallIsSound, TrueStatus, StatusOf, Infrastructure
<1>8. PICK t : t = [task EXCEPT !.waited = FALSE]
  OBVIOUS
<1>9. /\ t \in Task /\ t.waited = FALSE /\ t.op = task.op /\ t.asked = task.asked /\ t.owner = task.owner
      /\ t.step = task.step /\ t.target = task.target /\ t.todo = task.todo /\ t.got = task.got
  BY <1>3, <1>8 DEF Task
<1>10. TaskIsSound(t)
  BY <1>3, <1>9 DEF TaskIsSound, IsNamed
<1> QED
  BY <1>1, <1>2, <1>4, <1>6, <1>7, <1>8, <1>9, <1>10, OnlyCallAndTask

LEMMA CallReturns == ASSUME RefInv, Return PROVE RefInv'
<1>1. /\ call # NoCall /\ call.phase = "answered" /\ call' = NoCall
      /\ proxies' = proxies \cup Returned(call) /\ UNCHANGED <<vars, identity, heap, task>>
  BY DEF Return
<1>2. call \in Call /\ CallIsSound(call) /\ Shared
  BY <1>1, RefParts
<1>3. Returned(call) \subseteq call.got /\ call.got \subseteq Handle
  BY <1>2 DEF Returned, Call
<1>4. /\ RInv' /\ ClassesAreClasses' /\ UNCHANGED <<size, entries, current, retired, issued>>
  BY <1>1, RegistryRests
<1>5. CallTypes'
  BY <1>1, <1>3 DEF RefInv, CallTypes
<1>6. ProxiesResolve'
  BY <1>1, <1>2, <1>3, <1>4 DEF RefInv, ProxiesResolve, CallIsSound, Resolves
<1>7. Shared'
  BY <1>1, <1>2 DEF Shared
<1>8. task # NoTask => TaskIsSound(task)'
  BY <1>1, <1>4 DEF RefInv, TaskIsSound, IsNamed, Resolves, Named
<1> QED
  BY <1>1, <1>4, <1>5, <1>6, <1>7, <1>8 DEF RefInv

LEMMA ScriptEnds == ASSUME RefInv, EndScript PROVE RefInv' /\ [Next]_vars
<1>1. /\ current # 0 /\ call = NoCall /\ InvalidateOwnedBy(current)
      /\ proxies' = {} /\ UNCHANGED <<identity, heap, call, task>>
  BY DEF EndScript
<1>2. Next
  BY <1>1, RefParts DEF Next
<1>3. RInv' /\ TypeOK
  BY <1>2, NextRInv, RefParts DEF RefInv
<1>4. /\ retired' = retired \cup {current} /\ UNCHANGED <<size, current, issued>>
      /\ \A i \in Slots : entries'[i].alive => entries'[i] = entries[i]
  <2>1. \A i \in Slots : i \in Owned(current) => ~entries'[i].alive
    BY <1>1, <1>3, InvalidatedEntry DEF InvalidateOwnedBy, TypeOK
  <2> QED
    BY <1>1, <2>1 DEF InvalidateOwnedBy
<1>5. task # NoTask => TaskIsSound(task)'
  <2> SUFFICES ASSUME task # NoTask PROVE TaskIsSound(task)'
    OBVIOUS
  <2>1. task \in Task /\ TaskIsSound(task)
    BY RefParts
  <2>2. ASSUME task.owner \notin retired', NEW g \in task.got
        PROVE  Resolves(g.index, g.generation, task.owner, g.kind)'
    <3>1. g.index \in Slots
      BY <2>1 DEF Task, Handle
    <3>2. Resolves(g.index, g.generation, task.owner, g.kind) /\ task.owner # current
      BY <1>4, <2>1, <2>2 DEF TaskIsSound
    <3> QED
      BY <1>1, <1>3, <3>1, <3>2, ResolvesThrough
  <2> QED
    BY <1>1, <1>4, <2>1, <2>2 DEF TaskIsSound, IsNamed, Named
<1>6. CallTypes' /\ Shared' /\ ProxiesResolve'
  BY <1>1, <1>4 DEF RefInv, CallTypes, Shared, ProxiesResolve
<1>7. ClassesAreClasses'
  BY <1>4 DEF RefInv, ClassesAreClasses
<1> QED
  BY <1>1, <1>2, <1>3, <1>5, <1>6, <1>7 DEF RefInv

LEMMA TaskIsClaimed == ASSUME RefInv, Claim PROVE RefInv'
<1>1. /\ task = NoTask /\ call # NoCall /\ call.phase = "queued"
      /\ call' = [call EXCEPT !.phase = "claimed", !.asked = Taken]
      /\ UNCHANGED <<vars, identity, heap, proxies>>
  BY DEF Claim
<1>2. call \in Call /\ CallIsSound(call) /\ current \in Owners
  BY <1>1, RefParts DEF CallIsSound, TypeOK, Owners
<1>3. PICK c : c = [call EXCEPT !.phase = "claimed", !.asked = Taken]
  OBVIOUS
<1>4. Taken \in Asked
  BY DEF Taken, Asked
<1>5. /\ c \in Call /\ c.op = call.op /\ c.phase = "claimed" /\ c.got = call.got /\ c.effect = call.effect
  BY <1>2, <1>3, <1>4 DEF Call
<1>6. CallIsSound(c)
  BY <1>1, <1>2, <1>5 DEF CallIsSound
<1>7. PICK t : t = [op |-> call.op, asked |-> call.asked, owner |-> current, waited |-> TRUE,
                    step |-> IF call.op \in {"lookup", "find_objects"} THEN "act" ELSE "validate",
                    target |-> NullAddress, todo |-> {}, result |-> "BAD_ARGUMENT", got |-> {},
                    effect |-> "none"]
  OBVIOUS
<1>8. task' = t
  BY <1>7 DEF Claim
<1>9. call.op \in Ops /\ call.asked \in Asked
  BY <1>2 DEF Call
<1>10. t \in Task
  BY <1>2, <1>7, <1>9 DEF Task, Statuses
<1>11. /\ t.op = call.op /\ t.asked = call.asked /\ t.owner = current /\ t.waited = TRUE
       /\ t.step = IF call.op \in {"lookup", "find_objects"} THEN "act" ELSE "validate"
       /\ t.todo = {} /\ t.got = {}
  BY <1>7
<1>12. TaskIsSound(t)
  <2>1. current \in 1..current
    BY <1>2, RefParts DEF CallIsSound
  <2> QED
    BY <1>1, <1>2, <1>9, <1>11, <2>1 DEF TaskIsSound, CallIsSound, Ops, FindOps, InstanceOps
<1>13. c # NoCall /\ t # NoTask
  BY <1>5, <1>10 DEF NoCall, NoTask, Call, Task, Ops, FindOps, InstanceOps
<1>14. call' = c /\ c.op = t.op
  BY <1>1, <1>3, <1>5, <1>11
<1> QED
  BY <1>1, <1>5, <1>6, <1>8, <1>10, <1>11, <1>12, <1>13, <1>14, OnlyCallAndTask

\* A handle that passes names a live entry of that owner and kind.
LEMMA Resolved ==
  ASSUME NEW h \in Handle, NEW kind
  PROVE  /\ Resolution(h, kind) \in {"HANDLE_INVALID", "STALE_OBJECT", "KIND_MISMATCH", "OK"}
         /\ Resolution(h, kind) = "OK" =>
              /\ entries[h.index].generation = h.generation /\ entries[h.index].alive
              /\ entries[h.index].owner = task.owner /\ entries[h.index].kind = kind
BY DEF Resolution

LEMMA TaskIsValidated == ASSUME RefInv, Validate PROVE RefInv'
<1>0. /\ task # NoTask /\ task.step = "validate" /\ UNCHANGED <<vars, identity, heap, proxies>>
      /\ task \in Task /\ TaskIsSound(task)
  BY RefParts DEF Validate
<1>1. PICK kind : kind = IF task.op = "find_member" THEN "class" ELSE "instance"
  OBVIOUS
<1>2. PICK h \in Handle : h = task.asked.handle
  BY <1>0 DEF TaskIsSound, Named
<1>3. h.index \in Slots
  BY DEF Handle
<1>4. PICK found : found = Resolution(h, kind)
  OBVIOUS
<1>5. PICK target \in Addresses \cup {NullAddress} : target = entries[h.index].address
  <2>1. entries[h.index] \in Entry
    BY <1>3, RefParts DEF TypeOK
  <2> QED
    BY <2>1 DEF Entry
<1>6. PICK t : t = [task EXCEPT !.step = "act", !.target = target, !.result = "OK"]
  OBVIOUS
<1>7. /\ t \in Task /\ t.op = task.op /\ t.asked = task.asked /\ t.owner = task.owner
      /\ t.waited = task.waited /\ t.step = "act" /\ t.target = target /\ t.todo = task.todo
      /\ t.got = task.got
  BY <1>0, <1>6 DEF Task, Statuses
<1>8. \/ found # "OK" /\ Fail(found, "none")
      \/ \E status \in {"INVALID_POINTER", "STALE_OBJECT", "TYPE_MISMATCH"} : Fail(status, "none")
      \/ found = "OK" /\ kind = "class" /\ task' = t /\ call' = call
      \/ /\ found = "OK" /\ kind = "instance" /\ task' = t /\ call' = call
         /\ heap[target] # NoClass /\ ~Changed(identity[h.index], target)
  <2>1. CASE found # "OK"
    BY <1>1, <1>2, <1>4, <2>1 DEF Validate
  <2>2. CASE found = "OK" /\ kind = "class"
    BY <1>1, <1>2, <1>4, <1>5, <1>6, <2>2 DEF Validate
  <2>3. CASE found = "OK" /\ kind = "instance"
    BY <1>1, <1>2, <1>4, <1>5, <1>6, <2>3 DEF Validate
  <2> QED
    BY <1>1, <2>1, <2>2, <2>3
<1>9. ASSUME NEW status \in {"HANDLE_INVALID", "STALE_OBJECT", "KIND_MISMATCH", "INVALID_POINTER", "TYPE_MISMATCH"},
             Fail(status, "none")
      PROVE  RefInv'
  <2>1. status \in Statuses /\ TrueStatus(task.op, status, "none")
    BY DEF Statuses, TrueStatus
  <2> QED
    BY <1>0, <1>9, <2>1, TaskFails
<1>10. CASE found # "OK" /\ Fail(found, "none")
  BY <1>4, <1>9, <1>10, Resolved
<1>11. CASE found = "OK" /\ kind = "class" /\ task' = t /\ call' = call
  <2>1. task.op = "find_member"
    BY <1>1, <1>11
  <2>2. target \in Classes
    <3>1. entries[h.index].alive /\ entries[h.index].kind = "class"
      BY <1>4, <1>11, Resolved
    <3> QED
      BY <1>3, <1>5, <3>1 DEF RefInv, ClassesAreClasses
  <2>3. TaskIsSound(t)
    BY <1>0, <1>7, <2>1, <2>2 DEF TaskIsSound, InstanceOps
  <2> QED
    BY <1>0, <1>7, <1>11, <2>3, TaskGoesOn
<1>12. CASE /\ found = "OK" /\ kind = "instance" /\ task' = t /\ call' = call
            /\ heap[target] # NoClass /\ ~Changed(identity[h.index], target)
  <2>1. task.op # "find_member"
    BY <1>1, <1>12
  <2>2. /\ entries[h.index].alive /\ entries[h.index].generation = h.generation
        /\ entries[h.index].owner = task.owner /\ entries[h.index].kind = "instance"
    BY <1>4, <1>12, Resolved
  <2>3. LiveIsIssued
    BY DEF RefInv, RInv
  <2>4. PICK r \in issued :
          /\ r.index = h.index /\ r.generation = h.generation /\ r.address = target
          /\ r.kind = "instance" /\ r.owner = task.owner
    BY <1>3, <1>5, <2>2, <2>3 DEF LiveIsIssued
  <2>5. identity[h.index] \in {NoClass, heap[target]}
    BY <1>12 DEF Changed
  <2>6. IsNamed(t)
    BY <1>2, <1>7, <1>12, <2>4, <2>5 DEF IsNamed
  <2>7. TaskIsSound(t)
    BY <1>0, <1>7, <2>1, <2>6 DEF TaskIsSound, InstanceOps
  <2> QED
    BY <1>0, <1>7, <1>12, <2>7, TaskGoesOn
<1> QED
  BY <1>8, <1>9, <1>10, <1>11, <1>12

\* A task whose work is done has these handles to register.
LEMMA TaskWants ==
  ASSUME RefInv, task # NoTask, UNCHANGED <<vars, identity, heap, proxies>>,
         NEW requests \in SUBSET Request, NEW effect \in {"none", "part", "done"},
         \A q \in requests : q.kind = "class" => q.address \in Classes,
         Wants(requests, effect)
  PROVE  RefInv'
<1>1. PICK t : t = [task EXCEPT !.step = "register", !.asked = Taken, !.target = NullAddress,
                                !.todo = requests, !.result = "OK", !.effect = effect]
  OBVIOUS
<1>2. task' = t /\ call' = call /\ task \in Task /\ TaskIsSound(task)
  BY <1>1, RefParts DEF Wants
<1>3. Taken \in Asked
  BY DEF Taken, Asked
<1>4. /\ t \in Task /\ t.op = task.op /\ t.owner = task.owner /\ t.waited = task.waited
      /\ t.step = "register" /\ t.todo = requests /\ t.got = task.got
  BY <1>1, <1>2, <1>3 DEF Task, Statuses
<1>5. TaskIsSound(t)
  BY <1>2, <1>4 DEF TaskIsSound
<1> QED
  BY <1>2, <1>4, <1>5, TaskGoesOn

LEMMA TaskActs == ASSUME RefInv, Act PROVE RefInv'
<1>0. /\ task # NoTask /\ task.step = "act" /\ UNCHANGED <<vars, identity, heap, proxies>>
      /\ task \in Task /\ TaskIsSound(task) /\ heap \in [Objects -> Classes \cup {NoClass}]
  BY RefParts DEF Act, CallTypes
<1>1. ASSUME NEW status \in Statuses, NEW effect \in {"none", "part", "done"}, Fail(status, effect),
             TrueStatus(task.op, status, effect)
      PROVE  RefInv'
  BY <1>0, <1>1, TaskFails
<1>2. ASSUME NEW status \in Statuses \ {"OK"}, Fail(status, "none")
      PROVE  RefInv'
  BY <1>1, <1>2 DEF TrueStatus
<1>3. ASSUME NEW requests \in SUBSET Request, NEW effect \in {"none", "part", "done"},
             \A q \in requests : q.kind = "class" => q.address \in Classes,
             Wants(requests, effect)
      PROVE  RefInv'
  BY <1>0, <1>3, TaskWants
<1>4. \A o \in Objects, class \in Classes \cup {NoClass} :
        InstanceAt(o, class) \in Request /\ InstanceAt(o, class).kind = "instance"
  BY ReflectionAssumption DEF InstanceAt, Request
<1>5. ASSUME NEW o \in Objects, NEW effect \in {"none", "part", "done"}, Wants({InstanceAt(o, heap[o])}, effect)
      PROVE  RefInv'
  <2>1. PICK requests : requests = {InstanceAt(o, heap[o])}
    OBVIOUS
  <2>2. requests \in SUBSET Request /\ \A q \in requests : q.kind = "instance"
    BY <1>0, <1>4, <2>1
  <2> QED
    BY <1>3, <1>5, <2>1, <2>2
<1>6. ASSUME NEW effect \in {"none", "part", "done"}, Wants({}, effect)
      PROVE  RefInv'
  BY <1>3, <1>6
<1>7. ASSUME NEW a \in Addresses, NEW kind \in Kinds, NEW class \in Classes \cup {NoClass},
             kind = "class" => a \in Classes,
             Wants({[address |-> a, kind |-> kind, identity |-> class]}, "none")
      PROVE  RefInv'
  <2>1. PICK requests : requests = {[address |-> a, kind |-> kind, identity |-> class]}
    OBVIOUS
  <2>2. requests \in SUBSET Request /\ \A q \in requests : q.kind = "class" => q.address \in Classes
    BY <1>7, <2>1 DEF Request
  <2> QED
    BY <1>3, <1>7, <2>1, <2>2
<1>8. {"BAD_ARGUMENT", "METHOD_NOT_FOUND", "ARG_COUNT_MISMATCH", "INVALID_POINTER", "UNSUPPORTED_TYPE"}
         \cup (WriteStatuses \ {"OK"}) \cup (ArgumentStatuses \ {"OK"}) \subseteq Statuses \ {"OK"}
  BY DEF Statuses, WriteStatuses, ArgumentStatuses, Infrastructure
<1>9. CASE ActLookup
  <2>1. task.op = "lookup" /\ task.asked.class \in Classes
    BY <1>0, <1>9 DEF ActLookup, TaskIsSound, Named
  <2>2. CASE Wants({[address |-> task.asked.class, kind |-> "class", identity |-> NoClass]}, "none")
    BY <1>7, <2>1, <2>2, ReflectionAssumption
  <2> QED
    BY <1>2, <1>8, <1>9, <2>2 DEF ActLookup, Unresolved
<1>10. CASE ActFindMember
  <2>1. task.op = "find_member" /\ task.target \in Classes
    BY <1>0, <1>10 DEF ActFindMember, TaskIsSound
  <2>2. CASE Wants({[address |-> task.target, kind |-> "member", identity |-> task.target]}, "none")
    BY <1>7, <2>1, <2>2, ReflectionAssumption
  <2> QED
    BY <1>2, <1>8, <1>10, <2>2 DEF ActFindMember, Unresolved
<1>11. CASE ActFindObjects
  <2>1. task.op = "find_objects" /\ task.asked.class \in Classes
    BY <1>0, <1>11 DEF ActFindObjects, TaskIsSound, Named
  <2>2. ASSUME NEW found \in LiveInstances(task.asked.class),
               Wants({InstanceAt(o, task.asked.class) : o \in found}, "none")
        PROVE  RefInv'
    <3>1. found \subseteq Objects
      BY DEF LiveInstances
    <3>2. PICK requests : requests = {InstanceAt(o, task.asked.class) : o \in found}
      OBVIOUS
    <3>3. requests \in SUBSET Request /\ \A q \in requests : q.kind = "instance"
      BY <1>4, <2>1, <3>1, <3>2
    <3> QED
      BY <1>3, <2>2, <3>2, <3>3
  <2> QED
    BY <1>2, <1>8, <1>11, <2>2 DEF ActFindObjects, Unresolved
<1>12. CASE ActGet
  BY <1>2, <1>5, <1>6, <1>8, <1>12 DEF ActGet
<1>13. CASE ActSet
  <2>1. ASSUME Fail("OK", "done") PROVE RefInv'
    BY <1>1, <2>1 DEF TrueStatus, Statuses
  <2> QED
    BY <1>2, <1>8, <1>13, <2>1 DEF ActSet
<1>14. CASE ActInvoke
  <2>0. task.op = "invoke"
    BY <1>14 DEF ActInvoke
  <2>1. CASE Invoked
    <3>1. ASSUME Fail("MANAGED_EXCEPTION", "part") PROVE RefInv'
      BY <1>1, <3>1 DEF TrueStatus, Statuses
    <3>2. ASSUME Fail("BAD_ARGUMENT", "part") PROVE RefInv'
      BY <1>1, <2>0, <3>2 DEF TrueStatus, Statuses
    <3> QED
      BY <1>5, <1>6, <2>1, <3>1, <3>2 DEF Invoked
  <2>2. CASE ArgumentFound # "OK" /\ Fail(ArgumentFound, "none")
    <3>1. task.asked.arg \in Handle \cup {NoHandle}
      BY <1>0 DEF Task, Asked
    <3>2. ArgumentFound \in {"HANDLE_INVALID", "STALE_OBJECT", "KIND_MISMATCH", "OK"}
      BY <3>1, Resolved DEF ArgumentFound
    <3>3. {"HANDLE_INVALID", "STALE_OBJECT", "KIND_MISMATCH"} \subseteq Statuses \ {"OK"}
      BY DEF Statuses
    <3> QED
      BY <1>2, <2>2, <3>2, <3>3
  <2>3. CASE \E status \in Unresolved("invoke") \cup {"ARG_COUNT_MISMATCH"} \cup (ArgumentStatuses \ {"OK"}) :
               Fail(status, "none")
    BY <1>2, <1>8, <2>3 DEF Unresolved
  <2> QED
    BY <1>14, <2>1, <2>2, <2>3 DEF ActInvoke
<1>15. CASE ActAbi
  <2>1. ASSUME Fail("OK", "done") PROVE RefInv'
    BY <1>1, <2>1 DEF TrueStatus, Statuses
  <2> QED
    BY <1>2, <1>8, <1>15, <2>1 DEF ActAbi
<1> QED
  BY <1>9, <1>10, <1>11, <1>12, <1>13, <1>14, <1>15 DEF Act

\* A task registers a handle: it resolves for the script of the task, if that
\* has not ended, and no other handle stops resolving.
LEMMA HandleIsMade == ASSUME RefInv, RegisterNext PROVE RefInv' /\ [Next]_vars
<1>0. /\ task # NoTask /\ task.step = "register" /\ UNCHANGED <<heap, proxies, call>>
      /\ task \in Task /\ TaskIsSound(task) /\ TypeOK /\ CallTypes /\ RInv
  BY RefParts DEF RegisterNext, RefInv
<1>1. PICK request \in task.todo :
        /\ Register(task.owner, request.address, request.kind)
        /\ identity' = [identity EXCEPT ![CHOOSE j \in Slots : entries'[j] # entries[j]] = request.identity]
        /\ task' = [task EXCEPT !.todo = @ \ {request},
                                !.got = @ \cup {[index |-> CHOOSE j \in Slots : entries'[j] # entries[j],
                                                 generation |-> nextGeneration, kind |-> request.kind]}]
  BY DEF RegisterNext
<1>2. /\ request \in Request /\ request.address \in Addresses /\ request.kind \in Kinds
      /\ request.identity \in Classes \cup {NoClass} /\ request.address # NullAddress
      /\ (request.kind = "class" => request.address \in Classes)
      /\ task.owner \in 1..current
  BY <1>0, RegistryAssumption DEF Task, Request, TaskIsSound
<1>3. PICK i \in Slots, e \in Entry :
        /\ ~entries[i].alive /\ i < size' /\ entries' = [entries EXCEPT ![i] = e]
        /\ e.generation = nextGeneration /\ e.address = request.address /\ e.kind = request.kind
        /\ e.owner = task.owner /\ (e.alive <=> request.address # NullAddress)
  BY <1>0, <1>1, <1>2, RegisterEffect
<1>4. entries'[i] = e /\ e.alive /\ \A j \in Slots : j # i => entries'[j] = entries[j]
  BY <1>0, <1>2, <1>3 DEF TypeOK
<1>5. (CHOOSE j \in Slots : entries'[j] # entries[j]) = i
  BY <1>3, <1>4
<1>6. PICK n : n = [index |-> i, generation |-> nextGeneration, kind |-> request.kind]
  OBVIOUS
<1>7. n \in Handle /\ n.index = i /\ n.generation = nextGeneration /\ n.kind = request.kind
  BY <1>0, <1>2, <1>6, RegistryAssumption DEF Handle, TypeOK
<1>8. PICK t : t = [task EXCEPT !.todo = @ \ {request}, !.got = @ \cup {n}]
  OBVIOUS
<1>9. /\ t \in Task /\ t.op = task.op /\ t.owner = task.owner /\ t.waited = task.waited
      /\ t.step = "register" /\ t.todo = task.todo \ {request} /\ t.got = task.got \cup {n}
  BY <1>0, <1>7, <1>8 DEF Task
<1>10. task' = t /\ identity' = [identity EXCEPT ![i] = request.identity]
  BY <1>1, <1>5, <1>6, <1>8
<1>11. Next
  BY <1>1, <1>2 DEF Next
<1>12. RInv' /\ current' = current /\ retired' = retired
  BY <1>0, <1>1, <1>11, NextRInv DEF Register
<1>13. ASSUME NEW h \in Handle, NEW p, Resolves(h.index, h.generation, p, h.kind)
       PROVE  Resolves(h.index, h.generation, p, h.kind)'
  <2>1. h.index \in Slots
    BY DEF Handle
  <2> QED
    BY <1>0, <1>1, <1>2, <1>13, <2>1, ResolvesStays
<1>14. Resolves(n.index, n.generation, t.owner, n.kind)'
  BY <1>3, <1>4, <1>7, <1>9 DEF Resolves
<1>15. TaskIsSound(t)'
  <2>1. ASSUME t.owner \notin retired, NEW g \in t.got
        PROVE  Resolves(g.index, g.generation, t.owner, g.kind)'
    <3>1. CASE g = n
      BY <1>14, <3>1
    <3>2. CASE g \in task.got
      <4>1. g \in Handle /\ Resolves(g.index, g.generation, task.owner, g.kind)
        BY <1>0, <1>9, <2>1, <3>2 DEF Task, TaskIsSound
      <4> QED
        BY <1>9, <1>13, <4>1
    <3> QED
      BY <1>9, <2>1, <3>1, <3>2
  <2> QED
    BY <1>0, <1>9, <1>12, <2>1 DEF TaskIsSound
<1>16. (call # NoCall => CallIsSound(call))'
  <2> SUFFICES ASSUME call # NoCall PROVE CallIsSound(call)'
    BY <1>0
  <2>1. call \in Call /\ CallIsSound(call)
    BY RefParts
  <2>2. \A g \in call.got : Resolves(g.index, g.generation, current, g.kind)'
    BY <1>12, <1>13, <2>1 DEF Call, CallIsSound
  <2> QED
    BY <1>0, <1>12, <2>1, <2>2 DEF CallIsSound, Named, TrueStatus, StatusOf
<1>17. CallTypes'
  BY <1>0, <1>2, <1>9, <1>10 DEF CallTypes
<1>18. Shared'
  <2>1. t # NoTask /\ Shared
    BY <1>9, RefParts DEF NoTask, Task, Ops, FindOps, InstanceOps
  <2> QED
    BY <1>0, <1>9, <1>10, <1>12, <2>1 DEF Shared
<1>19. ProxiesResolve'
  BY <1>0, <1>12, <1>13 DEF RefInv, ProxiesResolve, CallTypes
<1>20. ClassesAreClasses'
  BY <1>2, <1>3, <1>4 DEF RefInv, ClassesAreClasses
<1> QED
  BY <1>10, <1>11, <1>12, <1>15, <1>16, <1>17, <1>18, <1>19, <1>20 DEF RefInv

LEMMA TaskFinishes == ASSUME RefInv, Finish PROVE RefInv'
<1>1. /\ task # NoTask /\ End("OK", "OK", task.got, "done", FALSE)
      /\ UNCHANGED <<vars, identity, heap, proxies>> /\ task \in Task
  BY RefParts DEF Finish
<1>2. "OK" \in Statuses /\ task.got \in SUBSET Handle /\ TrueStatus(task.op, "OK", "done")
  BY <1>1 DEF Statuses, Task, TrueStatus
<1> QED
  BY <1>1, <1>2, TaskEnds

LEMMA TaskFaults == ASSUME RefInv, Fault PROVE RefInv'
<1>1. /\ task # NoTask /\ End("INVALID_POINTER", task.result, {}, task.effect, TRUE)
      /\ UNCHANGED <<vars, identity, heap, proxies>> /\ task \in Task
  BY RefParts DEF Fault
<1>2. /\ "INVALID_POINTER" \in Statuses /\ task.result \in Statuses
      /\ task.effect \in {"none", "part", "done"} /\ {} \subseteq task.got /\ {} \in SUBSET Handle
  BY <1>1 DEF Statuses, Task
<1> QED
  BY <1>1, <1>2, TaskEnds

\* The game changes what is at an address only when no task is between the
\* check of its object and its work on it.
LEMMA GameChangesHeap == ASSUME RefInv, GameRuns PROVE RefInv'
<1>1. /\ task = NoTask \/ task.step = "register"
      /\ UNCHANGED <<vars, identity, proxies, call, task>>
      /\ \E o \in Objects, class \in Classes \cup {NoClass} : heap' = [heap EXCEPT ![o] = class]
  BY DEF GameRuns
<1>2. /\ RInv' /\ ClassesAreClasses' /\ UNCHANGED <<size, entries, current, retired, issued>>
  BY <1>1, RegistryRests
<1>3. CallTypes'
  BY <1>1 DEF RefInv, CallTypes
<1>4. Shared' /\ ProxiesResolve'
  BY <1>1, <1>2 DEF RefInv, Shared, ProxiesResolve, Resolves
<1>5. (call # NoCall => CallIsSound(call))'
  BY <1>1, <1>2 DEF RefInv, CallIsSound, Resolves, Named, TrueStatus, StatusOf
<1>6. (task # NoTask => TaskIsSound(task))'
  BY <1>1, <1>2 DEF RefInv, TaskIsSound, Resolves, Named
<1> QED
  BY <1>2, <1>3, <1>4, <1>5, <1>6 DEF RefInv

\* Every step keeps the invariant, and is one of the registry or leaves it alone.
LEMMA NextRefInv ==
  ASSUME RefInv, [ReflectionNext]_reflectionVars
  PROVE  RefInv' /\ [Next]_vars
<1>1. CASE UNCHANGED reflectionVars
  <2>1. UNCHANGED <<vars, identity, heap, proxies, call, task>>
    BY <1>1 DEF reflectionVars
  <2> QED
    BY <2>1, OnlyCallAndTask DEF RefInv, CallTypes, Shared
<1>2. CASE LaunchScript \/ EndScript \/ RegisterNext
  BY <1>2, ScriptStarts, ScriptEnds, HandleIsMade
<1>3. CASE (\E op \in Ops : Submit(op)) \/ Refuse \/ GiveUp \/ Return
  BY <1>3, CallIsMade, CallRefused, CallerLeaves, CallReturns DEF Submit, Refuse, GiveUp, Return, vars
<1>4. CASE Claim \/ Validate \/ Act \/ Finish \/ Fault
  BY <1>4, TaskIsClaimed, TaskIsValidated, TaskActs, TaskFinishes, TaskFaults
     DEF Claim, Validate, Act, Finish, Fault, vars
<1>5. CASE GameRuns
  BY <1>5, GameChangesHeap DEF GameRuns, vars
<1> QED
  BY <1>1, <1>2, <1>3, <1>4, <1>5 DEF ReflectionNext, ScriptSteps, TaskSteps

LEMMA ReflectionInvariance == ReflectionSpec => []RefInv
  BY InitRefInv, NextRefInv, PTL DEF ReflectionSpec

\* Whatever the scripts and their late tasks do, they use the registry as its
\* own specification allows.
THEOREM UsesRegistry == ReflectionSpec => ImplementsRegistry
<1>1. ReflectionInit => Init
  BY DEF ReflectionInit
<1>2. RefInv /\ [ReflectionNext]_reflectionVars => [Next]_vars
  BY NextRefInv
<1> QED
  BY <1>1, <1>2, ReflectionInvariance, PTL DEF ReflectionSpec, ImplementsRegistry, Spec

\* So what the registry promises holds below the calls.
THEOREM HandlesSoundBelow == ReflectionSpec => []HandlesAreSound
  BY UsesRegistry, HandlesSound DEF ImplementsRegistry

\* A task works on the object its handle was registered for, by the script
\* that named it, while an object of the class known then is at the address.
THEOREM ActsOnNamed == ReflectionSpec => []ActsOnTheNamedObject
<1>1. RefInv => ActsOnTheNamedObject
  BY RefParts DEF ActsOnTheNamedObject, TaskIsSound, IsNamed
<1> QED
  BY <1>1, ReflectionInvariance, PTL

\* OK means done, and a refusal that the game was not touched.
THEOREM TrueAnswers == ReflectionSpec => []AnswersAreTrue
<1>1. RefInv => AnswersAreTrue
  BY RefParts DEF AnswersAreTrue, CallIsSound, TrueStatus
<1> QED
  BY <1>1, ReflectionInvariance, PTL

\* Every proxy of a running script resolves, with its kind.
THEOREM UsableProxies == ReflectionSpec => []ProxiesStayUsable
<1>1. RefInv => ProxiesStayUsable
  BY RefParts DEF ProxiesStayUsable, ReflectionTypeOK, CallTypes, RefInv, ProxiesResolve
<1> QED
  BY <1>1, ReflectionInvariance, PTL

-----------------------------------------------------------------------------
(***************************************************************************)
(* Values.  The library has no theorem on exponents but that a set of n    *)
(* members has 2^n subsets; the laws that the boundaries of integers and   *)
(* mantissas need are derived from it, by induction in the form of sets.   *)
(***************************************************************************)

\* The naturals are well ordered, so a set of them has a smallest member.
LEMMA HasMinimum ==
  ASSUME NEW S \in SUBSET Nat, S # {}
  PROVE  \E m \in S : \A n \in S : m <= n
<1>1. \E m \in S : \A n \in S : ~ (<<n, m>> \in OpToRel(<, Nat))
  BY NatLessThanWellFounded, WFMin
<1>2. \A n, m \in Nat : n < m => <<n, m>> \in OpToRel(<, Nat)
  BY Zenon DEF OpToRel
<1>3. PICK m \in S : \A n \in S : ~ (<<n, m>> \in OpToRel(<, Nat))
  BY <1>1
<1>4. \A n \in S : ~ (n < m)
  BY <1>2, <1>3, Zenon
<1> QED
  BY <1>4

\* Induction, as a fact about a set: what holds 0 and with each number the next
\* holds all of them.
LEMMA Counted ==
  ASSUME NEW S, 0 \in S, \A n \in Nat : n \in S => n + 1 \in S
  PROVE  Nat \subseteq S
<1> DEFINE Left == Nat \ S
<1> SUFFICES ASSUME Left # {} PROVE FALSE
  OBVIOUS
<1>1. PICK m \in Left : \A n \in Left : m <= n
  BY HasMinimum
<1>2. m # 0 /\ m - 1 \in Nat /\ m - 1 \notin Left
  BY <1>1
<1> QED
  BY <1>1, <1>2

\* A power of two counts subsets, which is what the library knows of it.
LEMMA Subsets ==
  ASSUME NEW n \in Nat
  PROVE  IsFiniteSet(SUBSET (1..n)) /\ Cardinality(SUBSET (1..n)) = 2 ^ n /\ 2 ^ n \in Nat
<1>1. IsFiniteSet(1..n) /\ Cardinality(1..n) = n
  BY FS_Interval
<1>2. IsFiniteSet(SUBSET (1..n)) /\ Cardinality(SUBSET (1..n)) = 2 ^ n
  BY <1>1, FS_SUBSET
<1> QED
  BY <1>2, FS_CardinalityType

\* The powers of two, from the subsets they count: the first one,
LEMMA PowerOfZero == 2 ^ 0 = 1
<1>1. SUBSET (1..0) = {{}}
  OBVIOUS
<1>2. Cardinality({{}}) = 1
  BY FS_Singleton
<1> QED
  BY <1>1, <1>2, Subsets

\* Of the subsets of 1..n+1 half have n+1.
LEMMA PowerOfNext == ASSUME NEW n \in Nat PROVE 2 ^ (n + 1) = 2 * 2 ^ n
<1> DEFINE S == SUBSET (1..n)
           T == {A \in SUBSET (1..(n + 1)) : n + 1 \in A}
           f == [A \in S |-> A \cup {n + 1}]
<1>1. IsFiniteSet(S) /\ Cardinality(S) = 2 ^ n /\ 2 ^ n \in Nat
  BY Subsets
<1>2. f \in Bijection(S, T)
  <2>1. f \in [S -> T]
    OBVIOUS
  <2>2. \A A, B \in S : f[A] = f[B] => A = B
    <3> TAKE A, B \in S
    <3>1. n + 1 \notin A /\ n + 1 \notin B
      OBVIOUS
    <3> QED
      BY <3>1
  <2>3. \A B \in T : \E A \in S : f[A] = B
    <3> TAKE B \in T
    <3>1. B \ {n + 1} \in S
      OBVIOUS
    <3>2. f[B \ {n + 1}] = B
      BY <3>1
    <3> QED
      BY <3>1, <3>2
  <2> HIDE DEF f, S, T
  <2> QED
    BY <2>1, <2>2, <2>3 DEF Bijection, Injection, Surjection, IsInjective
<1>3. IsFiniteSet(T) /\ Cardinality(T) = 2 ^ n
  <2> HIDE DEF f, S, T
  <2> QED
    BY <1>1, <1>2, FS_Bijection DEF ExistsBijection
<1>4. SUBSET (1..(n + 1)) = S \cup T /\ S \cap T = {}
  OBVIOUS
<1>5. Cardinality(S \cup T) = Cardinality(S) + Cardinality(T) - Cardinality(S \cap T)
  <2> HIDE DEF S, T
  <2> QED
    BY <1>1, <1>3, FS_Union
<1>6. Cardinality({}) = 0
  BY FS_EmptySet
<1>7. Cardinality(SUBSET (1..(n + 1))) = 2 ^ (n + 1)
  BY Subsets
<1> HIDE DEF S, T
<1>8. Cardinality(S \cup T) = 2 ^ n + 2 ^ n
  <2>1. Cardinality(S \cap T) = 0
    BY <1>4, <1>6, Zenon
  <2>2. \A p \in Nat : p + p - 0 = p + p
    OBVIOUS
  <2>3. Cardinality(S \cup T) = 2 ^ n + 2 ^ n - 0
    BY <1>1, <1>3, <1>5, <2>1, Zenon
  <2> QED
    BY <1>1, <2>2, <2>3, Zenon
<1>9. 2 ^ (n + 1) = Cardinality(S \cup T)
  BY <1>4, <1>7, Zenon
<1> QED
  BY <1>1, <1>8, <1>9

\* They are naturals, exceed their exponents and grow with them.
LEMMA PowersGrow ==
  /\ \A n \in Nat : 2 ^ n \in Nat /\ n < 2 ^ n
  /\ \A m, n \in Nat : m <= n => 2 ^ m <= 2 ^ n
<1>1. \A n \in Nat : 2 ^ n \in Nat
  BY Subsets
<1>2. \A n \in Nat : n < 2 ^ n
  <2> DEFINE S == {n \in Nat : n < 2 ^ n}
  <2>1. 0 \in S
    BY PowerOfZero
  <2>2. ASSUME NEW n \in Nat, n \in S PROVE n + 1 \in S
    BY <1>1, <2>2, PowerOfNext
  <2>3. Nat \subseteq S
    <3> HIDE DEF S
    <3> QED
      BY <2>1, <2>2, Counted
  <2> QED
    BY <2>3
<1>3. ASSUME NEW m \in Nat PROVE \A n \in Nat : m <= n => 2 ^ m <= 2 ^ n
  <2> DEFINE S == {d \in Nat : 2 ^ m <= 2 ^ (m + d)}
  <2>1. 0 \in S
    BY <1>1
  <2>2. ASSUME NEW d \in Nat, d \in S PROVE d + 1 \in S
    <3>1. m + d \in Nat /\ m + (d + 1) = (m + d) + 1
      OBVIOUS
    <3>2. 2 ^ (m + (d + 1)) = 2 * 2 ^ (m + d)
      BY <3>1, PowerOfNext
    <3> QED
      BY <1>1, <2>2, <3>1, <3>2
  <2>3. Nat \subseteq S
    <3> HIDE DEF S
    <3> QED
      BY <2>1, <2>2, Counted
  <2> TAKE n \in Nat
  <2> HAVE m <= n
  <2>4. n - m \in S /\ m + (n - m) = n
    BY <2>3
  <2> QED
    BY <2>4
<1> QED
  BY <1>1, <1>2, <1>3

\* A sum of exponents is a product of powers.
LEMMA PowerOfSum == ASSUME NEW m \in Nat, NEW n \in Nat PROVE 2 ^ (m + n) = 2 ^ m * 2 ^ n
<1> DEFINE S == {d \in Nat : 2 ^ (m + d) = 2 ^ m * 2 ^ d}
<1>1. 0 \in S
  BY PowerOfZero, PowersGrow
<1>2. ASSUME NEW d \in Nat, d \in S PROVE d + 1 \in S
  <2>1. m + d \in Nat /\ m + (d + 1) = (m + d) + 1
    OBVIOUS
  <2>2. 2 ^ (m + (d + 1)) = 2 * 2 ^ (m + d) /\ 2 ^ (d + 1) = 2 * 2 ^ d
    BY <2>1, PowerOfNext
  <2>3. \A p, q, r \in Nat : r = p * q => 2 * r = p * (2 * q)
    OBVIOUS
  <2>4. 2 ^ m \in Nat /\ 2 ^ d \in Nat /\ 2 ^ (m + d) \in Nat
    BY <2>1, PowersGrow
  <2>5. 2 ^ (m + d) = 2 ^ m * 2 ^ d
    BY <1>2
  <2> QED
    BY <2>2, <2>3, <2>4, <2>5
<1>3. Nat \subseteq S
  <2> HIDE DEF S
  <2> QED
    BY <1>1, <1>2, Counted
<1> QED
  BY <1>3

\* Division rounds down.
LEMMA Quotient ==
  ASSUME NEW a \in Nat, NEW d \in Nat \ {0}
  PROVE  a \div d \in Nat /\ (a \div d) * d <= a /\ a < (a \div d + 1) * d
  OBVIOUS
\* Of a multiple it leaves nothing.
LEMMA QuotientOfMultiple ==
  ASSUME NEW q \in Nat, NEW d \in Nat \ {0}
  PROVE  (q * d) \div d = q
  OBVIOUS
\* A multiple that is not above a number is not above what the division keeps.
LEMMA QuotientAtLeast ==
  ASSUME NEW a \in Nat, NEW d \in Nat \ {0}, NEW m \in Nat, m * d <= a
  PROVE  m * d <= (a \div d) * d
<1> DEFINE q == a \div d
<1>1. q \in Nat /\ a < (q + 1) * d
  BY Quotient
<1> HIDE DEF q
<1>2. m * d \in Nat /\ (q + 1) * d \in Nat /\ m * d < (q + 1) * d
  BY <1>1
<1>3. \A x, y \in Nat : x * d < y * d => x < y
  OBVIOUS
<1>4. m <= q
  BY <1>1, <1>2, <1>3
<1>5. \A x, y \in Nat : x <= y => x * d <= y * d
  OBVIOUS
<1> QED
  BY <1>1, <1>4, <1>5 DEF q
\* A number below the divisor is its own remainder.
LEMMA RemainderOfSmall ==
  ASSUME NEW a \in Nat, NEW d \in Nat \ {0}, a < d
  PROVE  a % d = a /\ a \div d = 0
  OBVIOUS

\* The bits that Rounded drops of a magnitude, and what it keeps.
Dropped(whole, bits) ==
  CHOOSE k \in 0..whole : /\ whole < 2 ^ (bits + k)
                          /\ k = 0 \/ whole >= 2 ^ (bits + k - 1)
Kept(whole, bits) == (whole \div 2 ^ Dropped(whole, bits)) * 2 ^ Dropped(whole, bits)

\* Rounded works on the magnitude and gives the sign back.
LEMMA RoundedIsKept ==
  ASSUME NEW h \in Int, NEW bits
  PROVE  Rounded(h, bits) = IF h < 0 THEN -Kept(-h, bits) ELSE Kept(h, bits)
<1>1. CASE h < 0
  BY <1>1 DEF Rounded, Kept, Dropped
<1>2. CASE ~(h < 0)
  BY <1>2 DEF Rounded, Kept, Dropped
<1> QED
  BY <1>1, <1>2

\* The choice in Rounded has something to choose from: the fewest bits whose
\* loss makes the number fit,
LEMMA DroppedIs ==
  ASSUME NEW whole \in Nat, NEW bits \in Nat
  PROVE  LET k == Dropped(whole, bits) IN
         /\ k \in 0..whole
         /\ whole < 2 ^ (bits + k)
         /\ k = 0 \/ whole >= 2 ^ (bits + k - 1)
<1> DEFINE Fits == {k \in Nat : whole < 2 ^ (bits + k)}
<1>1. whole \in Fits
  <2>1. bits + whole \in Nat /\ whole <= bits + whole
    OBVIOUS
  <2> QED
    BY <2>1, PowersGrow
<1>2. PICK m \in Fits : \A k \in Fits : m <= k
  BY <1>1, HasMinimum
<1>3. m = 0 \/ whole >= 2 ^ (bits + m - 1)
  <2> SUFFICES ASSUME m # 0 PROVE whole >= 2 ^ (bits + m - 1)
    OBVIOUS
  <2>1. m - 1 \in Nat /\ m - 1 \notin Fits /\ bits + (m - 1) = bits + m - 1 /\ bits + m - 1 \in Nat
    BY <1>2
  <2>2. ~(whole < 2 ^ (bits + m - 1))
    BY <2>1
  <2> QED
    BY <2>1, <2>2, PowersGrow
<1>4. \E k \in 0..whole : /\ whole < 2 ^ (bits + k)
                          /\ k = 0 \/ whole >= 2 ^ (bits + k - 1)
  BY <1>1, <1>2, <1>3
<1> QED
  BY <1>4 DEF Dropped

\* and nothing else to choose.
LEMMA DroppedIsOnly ==
  ASSUME NEW whole \in Nat, NEW bits \in Nat, NEW k \in Nat,
         whole < 2 ^ (bits + k), k = 0 \/ whole >= 2 ^ (bits + k - 1)
  PROVE  Dropped(whole, bits) = k
<1> DEFINE d == Dropped(whole, bits)
<1>1. d \in Nat /\ whole < 2 ^ (bits + d) /\ (d = 0 \/ whole >= 2 ^ (bits + d - 1))
  BY DroppedIs
<1> HIDE DEF d
<1>2. ASSUME NEW x \in Nat, NEW y \in Nat, x < y, whole < 2 ^ (bits + x), whole >= 2 ^ (bits + y - 1)
      PROVE  FALSE
  <2>1. bits + x \in Nat /\ bits + y - 1 \in Nat /\ bits + x <= bits + y - 1
    BY <1>2
  <2> QED
    BY <1>2, <2>1, PowersGrow
<1>3. ~(d < k)
  <2> SUFFICES ASSUME d < k PROVE FALSE
    OBVIOUS
  <2>1. k # 0 /\ whole >= 2 ^ (bits + k - 1)
    BY <1>1
  <2> QED
    BY <1>1, <1>2, <2>1
<1>4. ~(k < d)
  <2> SUFFICES ASSUME k < d PROVE FALSE
    OBVIOUS
  <2>1. d # 0 /\ whole >= 2 ^ (bits + d - 1)
    BY <1>1
  <2> QED
    BY <1>1, <1>2, <2>1
<1> QED
  BY <1>1, <1>3, <1>4 DEF d

\* What fits in the mantissa is kept.
LEMMA KeptSmall ==
  ASSUME NEW whole \in Nat, NEW bits \in Nat, whole < 2 ^ bits
  PROVE  Kept(whole, bits) = whole
<1>1. Dropped(whole, bits) = 0
  <2>1. bits + 0 = bits
    OBVIOUS
  <2> QED
    BY <2>1, DroppedIsOnly
<1>2. (whole \div 1) * 1 = whole
  OBVIOUS
<1> QED
  BY <1>1, <1>2, PowerOfZero DEF Kept

\* Rounding is towards zero.
LEMMA KeptAtMost ==
  ASSUME NEW whole \in Nat, NEW bits \in Nat
  PROVE  Kept(whole, bits) \in 0..whole
<1> DEFINE d == 2 ^ Dropped(whole, bits)
<1>1. Dropped(whole, bits) \in Nat
  BY DroppedIs
<1>2. d \in Nat \ {0}
  BY <1>1, PowersGrow
<1> HIDE DEF d
<1>3. whole \div d \in Nat /\ (whole \div d) * d <= whole
  BY <1>2, Quotient
<1>4. (whole \div d) * d \in Nat
  BY <1>2, <1>3
<1> QED
  BY <1>3, <1>4 DEF Kept, d

\* What is kept needs the same bits dropped, and they are zero by now.
LEMMA KeptAgain ==
  ASSUME NEW whole \in Nat, NEW bits \in Nat
  PROVE  Kept(Kept(whole, bits), bits) = Kept(whole, bits)
<1> DEFINE k == Dropped(whole, bits)
           d == 2 ^ k
           kept == Kept(whole, bits)
<1>1. k \in Nat /\ whole < 2 ^ (bits + k) /\ (k = 0 \/ whole >= 2 ^ (bits + k - 1))
  BY DroppedIs
<1>2. d \in Nat \ {0}
  BY <1>1, PowersGrow
<1>3. kept = (whole \div d) * d
  BY DEF Kept
<1>4. kept \in Nat /\ kept <= whole
  BY KeptAtMost
<1> HIDE DEF k, d, kept
<1>5. CASE k = 0
  <2>1. whole < 2 ^ bits
    BY <1>1, <1>5
  <2>2. kept = whole
    BY <2>1, KeptSmall DEF kept
  <2> QED
    BY <2>2 DEF kept
<1>6. CASE k # 0 /\ bits = 0
  <2>1. whole < d
    BY <1>1, <1>6 DEF d
  <2>2. kept = 0
    BY <1>2, <1>3, <2>1, RemainderOfSmall
  <2>3. 0 < 2 ^ bits
    BY PowersGrow
  <2> QED
    BY <2>2, <2>3, KeptSmall DEF kept
<1>7. CASE k # 0 /\ bits # 0
  <2>1. bits - 1 \in Nat /\ bits + k - 1 = (bits - 1) + k
    BY <1>1, <1>7
  <2>2. 2 ^ (bits + k - 1) = 2 ^ (bits - 1) * d /\ 2 ^ (bits - 1) \in Nat
    BY <1>1, <2>1, PowerOfSum, PowersGrow DEF d
  <2>3. 2 ^ (bits - 1) * d <= whole
    BY <1>1, <1>7, <2>2
  <2>4. 2 ^ (bits - 1) * d <= kept
    BY <1>2, <1>3, <2>2, <2>3, QuotientAtLeast
  <2>5. bits + k \in Nat /\ 2 ^ (bits + k) \in Nat
    BY <1>1, PowersGrow
  <2>6. kept < 2 ^ (bits + k) /\ kept >= 2 ^ (bits + k - 1)
    BY <1>1, <1>4, <2>2, <2>4, <2>5
  <2>7. Dropped(kept, bits) = k
    BY <1>1, <1>4, <2>6, DroppedIsOnly
  <2>8. whole \div d \in Nat /\ kept \div d = whole \div d
    BY <1>2, <1>3, Quotient, QuotientOfMultiple
  <2>9. Kept(kept, bits) = (kept \div d) * d
    BY <2>7 DEF Kept, d
  <2> QED
    BY <1>3, <2>8, <2>9 DEF kept
<1> QED
  BY <1>5, <1>6, <1>7, <1>1

\* A number that has been rounded stays as it is when it is rounded again.
LEMMA RoundedAgain ==
  ASSUME NEW h \in Int, NEW bits \in Nat
  PROVE  /\ Rounded(h, bits) \in Int
         /\ Rounded(Rounded(h, bits), bits) = Rounded(h, bits)
         /\ h >= 0 => 0 <= Rounded(h, bits) /\ Rounded(h, bits) <= h
         /\ h < 0 => h <= Rounded(h, bits) /\ Rounded(h, bits) <= 0
<1> DEFINE r == Rounded(h, bits)
<1>1. CASE h >= 0
  <2>1. h \in Nat /\ r = Kept(h, bits)
    BY <1>1, RoundedIsKept
  <2>2. r \in 0..h
    BY <2>1, KeptAtMost
  <2>3. Rounded(r, bits) = Kept(r, bits)
    <3> HIDE DEF r
    <3> QED
      BY <2>2, RoundedIsKept
  <2>4. Kept(r, bits) = r
    BY <2>1, KeptAgain
  <2> QED
    BY <1>1, <2>2, <2>3, <2>4
<1>2. CASE h < 0
  <2>1. -h \in Nat /\ r = -Kept(-h, bits)
    BY <1>2, RoundedIsKept
  <2>2. Kept(-h, bits) \in 0..(-h)
    BY <2>1, KeptAtMost
  <2>3. r \in Int /\ h <= r /\ r <= 0 /\ -r = Kept(-h, bits)
    BY <2>1, <2>2
  <2>4. Kept(-r, bits) = -r
    BY <2>1, <2>3, KeptAgain
  <2> HIDE DEF r
  <2>5. CASE r < 0
    <3>1. Rounded(r, bits) = -Kept(-r, bits)
      BY <2>3, <2>5, RoundedIsKept
    <3> QED
      BY <1>2, <2>3, <2>4, <3>1 DEF r
  <2>6. CASE ~(r < 0)
    <3>0. \A x \in Int : x <= 0 /\ ~(x < 0) => -x = x
      OBVIOUS
    <3>1. ~(r < 0) /\ r \in Int /\ -r = r
      BY <2>3, <2>6, <3>0
    <3>2. Rounded(r, bits) = IF r < 0 THEN -Kept(-r, bits) ELSE Kept(r, bits)
      BY <3>1, RoundedIsKept, Zenon
    <3>3. Kept(r, bits) = r
      BY <2>4, <3>1, Zenon
    <3>4. Rounded(r, bits) = r
      BY <3>1, <3>2, <3>3, Zenon
    <3> QED
      BY <1>2, <2>3, <3>4 DEF r
  <2> QED
    BY <2>3, <2>5, <2>6
<1> QED
  BY <1>1, <1>2

\* A number with no more bits than the mantissa is exact.
LEMMA RoundedSmall ==
  ASSUME NEW h \in Int, NEW bits \in Nat, -(2 ^ bits) < h, h < 2 ^ bits
  PROVE  Rounded(h, bits) = h
<1>1. CASE h >= 0
  BY <1>1, KeptSmall, RoundedIsKept
<1>2. CASE h < 0
  <2>1. -h \in Nat /\ -h < 2 ^ bits
    BY <1>2, PowersGrow
  <2>2. Kept(-h, bits) = -h
    BY <2>1, KeptSmall
  <2> QED
    BY <1>2, <2>2, RoundedIsKept
<1> QED
  BY <1>1, <1>2

\* The integer categories and their widths.
LEMMA Widths ==
  /\ \A cat \in IntegerCats : Width[cat] \in Nat \ {0}
  /\ \A cat \in IntegerCats \ WideCats : Width[cat] <= DoubleBits
  /\ \A cat \in WideCats : Width[cat] > DoubleBits
  /\ DoubleBits \in Nat /\ FloatBits \in Nat
  /\ WideCats \subseteq IntegerCats
  /\ \A cat \in FloatCats : Limit[cat] \in Nat /\ 2 ^ Width["I8"] <= Limit[cat]
<1>1. WideCats \subseteq IntegerCats
  BY DEF WideCats, IntegerCats, SignedCats, UnsignedCats
<1> QED
  BY <1>1, ValuesAssumption

\* The bounds of a category span no more than its width.
LEMMA Bounds ==
  ASSUME NEW cat \in IntegerCats
  PROVE  /\ Lowest(cat) \in Int /\ Highest(cat) \in Int
         /\ Lowest(cat) <= 0 /\ 0 <= Highest(cat)
         /\ 2 ^ Width[cat] \in Nat \ {0}
         /\ Highest(cat) - Lowest(cat) < 2 ^ Width[cat]
         /\ -(2 ^ Width[cat]) < Lowest(cat) /\ Highest(cat) < 2 ^ Width[cat]
<1> DEFINE w == Width[cat]
<1>1. w \in Nat /\ w - 1 \in Nat /\ (w - 1) + 1 = w
  BY Widths
<1>2. 2 ^ w = 2 * 2 ^ (w - 1) /\ 2 ^ (w - 1) \in Nat \ {0} /\ 2 ^ w \in Nat \ {0}
  BY <1>1, PowerOfNext, PowersGrow
<1> HIDE DEF w
<1>3. CASE cat \in SignedCats
  <2>1. Lowest(cat) = -(2 ^ (w - 1)) /\ Highest(cat) = 2 ^ (w - 1) - 1
    BY <1>3 DEF Lowest, Highest, w
  <2> QED
    BY <1>2, <2>1 DEF w
<1>4. CASE cat \notin SignedCats
  <2>1. Lowest(cat) = 0 /\ Highest(cat) = 2 ^ w - 1
    BY <1>4 DEF Lowest, Highest, w
  <2> QED
    BY <1>2, <2>1 DEF w
<1> QED
  BY <1>3, <1>4

\* What is in the range is not cut.
LEMMA WrappedInRange ==
  ASSUME NEW cat \in IntegerCats, NEW n \in Int, InRange(cat, n)
  PROVE  Wrapped(cat, n) = n
<1> DEFINE a == n - Lowest(cat)
           d == 2 ^ Width[cat]
<1>1. a \in Nat /\ a < d /\ d \in Nat \ {0} /\ Lowest(cat) \in Int
  BY Bounds DEF InRange
<1>2. a % d = a
  <2> HIDE DEF a, d
  <2> QED
    BY <1>1, RemainderOfSmall
<1>3. Wrapped(cat, n) = Lowest(cat) + a
  BY <1>2 DEF Wrapped
<1> QED
  BY <1>1, <1>3

\* An integer that is not wide is a number of Lua, exactly.
LEMMA NarrowIsExact ==
  ASSUME NEW cat \in IntegerCats \ WideCats, NEW n \in Int, InRange(cat, n)
  PROVE  /\ InRange("I8", n) /\ n # Lowest("I8")
         /\ -Highest("U8") <= n /\ (cat \in UnsignedCats => n <= Highest("U8"))
         /\ Rounded(n, DoubleBits) = n
<1> DEFINE w == Width[cat]
<1>0. "I8" \in WideCats /\ "U8" \in WideCats /\ "I8" \in SignedCats /\ "U8" \notin SignedCats
      /\ "I8" \in IntegerCats /\ "U8" \in IntegerCats
  BY DEF WideCats, SignedCats, IntegerCats, UnsignedCats
<1>1. /\ w \in Nat /\ w <= DoubleBits /\ DoubleBits \in Nat
      /\ Width["I8"] - 1 \in Nat /\ w <= Width["I8"] - 1 /\ DoubleBits <= Width["I8"] - 1
      /\ Width["U8"] \in Nat /\ w <= Width["U8"]
  BY <1>0, Widths
<1>2. /\ 2 ^ w \in Nat /\ 2 ^ DoubleBits \in Nat /\ 2 ^ (Width["I8"] - 1) \in Nat /\ 2 ^ Width["U8"] \in Nat
      /\ 2 ^ w <= 2 ^ DoubleBits /\ 2 ^ w <= 2 ^ (Width["I8"] - 1) /\ 2 ^ w <= 2 ^ Width["U8"]
  BY <1>1, PowersGrow
<1>3. -(2 ^ w) < n /\ n < 2 ^ w
  BY <1>2, Bounds DEF InRange
<1>4. /\ Lowest("I8") = -(2 ^ (Width["I8"] - 1)) /\ Highest("I8") = 2 ^ (Width["I8"] - 1) - 1
      /\ Highest("U8") = 2 ^ Width["U8"] - 1
  BY <1>0 DEF Lowest, Highest
<1> HIDE DEF w
<1>5. Rounded(n, DoubleBits) = n
  <2>1. -(2 ^ DoubleBits) < n /\ n < 2 ^ DoubleBits
    BY <1>2, <1>3
  <2> QED
    BY <1>1, <2>1, RoundedSmall
<1>6. InRange("I8", n) /\ n # Lowest("I8") /\ -Highest("U8") <= n /\ n <= Highest("U8")
  BY <1>2, <1>3, <1>4 DEF InRange
<1> QED
  BY <1>5, <1>6

\* No category is of two kinds.
LEMMA KindsOfCategory ==
  /\ \A cat \in IntegerCats :
       /\ cat \notin InlineCats \cup FloatCats
       /\ cat \notin {"BOOLEAN", "STRING", "PTR", "ARRAY", "LIST", "UNKNOWN"}
       /\ cat \in SignedCats <=> cat \notin UnsignedCats
  /\ \A cat \in FloatCats :
       /\ cat \notin InlineCats \cup IntegerCats \cup WideCats \cup SignedCats \cup UnsignedCats
       /\ cat \notin {"BOOLEAN", "STRING", "PTR", "ARRAY", "LIST", "UNKNOWN"}
       /\ MantissaOf(cat) \in Nat
BY Widths DEF IntegerCats, SignedCats, UnsignedCats, InlineCats, FloatCats, WideCats, MantissaOf

\* A whole number of Lua, in the range of int64_t, is that integer again.
LEMMA WholeNumber ==
  ASSUME NEW n \in Int, InRange("I8", n)
  PROVE  FromLua(Value("number", "", 2 * n)) = Value("Integer", "", n)
<1>1. (2 * n) % 2 = 0 /\ (2 * n) \div 2 = n
  OBVIOUS
<1> QED
  BY <1>1 DEF FromLua, Overflows, Value

\* So an integer of a field or result that is not wide comes back from Lua.
LEMMA NarrowComesBack ==
  ASSUME NEW cat \in IntegerCats \ WideCats, NEW n \in Int, InRange(cat, n)
  PROVE  /\ FromLua(ToLua(ReadField(cat, Cell("num", n)))) = Value("Integer", "", n)
         /\ FromLua(ToLua(ReturnValue(cat, Cell("num", n)))) = Value("Integer", "", n)
<1> DEFINE kind == IF cat \in SignedCats THEN "Integer" ELSE "Unsigned"
<1>1. cat \in IntegerCats /\ (cat \in SignedCats \/ cat \in UnsignedCats)
  BY DEF IntegerCats
<1>2. ReadField(cat, Cell("num", n)) = Value(kind, "", n)
  BY <1>1, KindsOfCategory DEF ReadField, Cell
<1>3. ReturnValue(cat, Cell("num", n)) = Value(kind, "", n)
  BY <1>1, KindsOfCategory DEF ReturnValue, Cell
<1>4. kind \in {"Integer", "Unsigned"}
  OBVIOUS
<1> HIDE DEF kind
<1>5. InRange("I8", n) /\ Rounded(n, DoubleBits) = n
  BY NarrowIsExact
<1>6. ToLua(Value(kind, "", n)) = Value("number", "", 2 * Rounded(n, DoubleBits))
  BY <1>4, <1>5 DEF ToLua, Value
<1> QED
  BY <1>2, <1>3, <1>5, <1>6, WholeNumber

\* It is then stored and passed as it was: it is in the range of its category,
\* so that ParseAndWrite accepts it and MarshalPrimitiveArg cuts nothing.
LEMMA NarrowReadsBack == ASSUME NEW cat \in IntegerCats \ WideCats PROVE ReadsBack(cat)
<1> SUFFICES ASSUME NEW cell \in Contents(cat)
             PROVE  /\ WriteField(cat, FromLua(ToLua(ReadField(cat, cell)))) = Answer("OK", cell)
                    /\ PassArgument(cat, FromLua(ToLua(ReturnValue(cat, cell)))) = Answer("OK", cell)
  BY KindsOfCategory DEF ReadsBack
<1>1. PICK n \in Lowest(cat)..Highest(cat) : cell = Cell("num", n)
  BY KindsOfCategory DEF Contents
<1>2. n \in Int /\ InRange(cat, n)
  BY Bounds DEF InRange
<1> DEFINE v == Value("Integer", "", n)
<1>3. /\ FromLua(ToLua(ReadField(cat, cell))) = v
      /\ FromLua(ToLua(ReturnValue(cat, cell))) = v
  BY <1>1, <1>2, NarrowComesBack
<1>4. Formatted(v) = Cell("decimal", n) /\ v.kind = "Integer"
  BY DEF Formatted, Value
<1> HIDE DEF v
<1>5. WriteField(cat, v) = Answer("OK", cell)
  <2>1. FieldInput(cat, v) = Answer("OK", Cell("decimal", n))
    BY <1>4, KindsOfCategory DEF FieldInput
  <2>2. Parsed(cat, Cell("decimal", n)) = Answer("OK", Cell("num", n))
    BY <1>2, KindsOfCategory DEF Parsed, Cell
  <2>3. Written(cat, Cell("decimal", n)) = Parsed(cat, Cell("decimal", n))
    BY KindsOfCategory DEF Written
  <2> QED
    BY <1>1, <2>1, <2>2, <2>3 DEF WriteField, Answer
<1>6. PassArgument(cat, v) = Answer("OK", cell)
  <2>1. InvokeInput(cat, v) = Answer("OK", Cell("decimal", n))
    BY <1>4, KindsOfCategory DEF InvokeInput, Cell
  <2>2. Legible(cat, n)
    <3>1. cat \in SignedCats \/ cat \in UnsignedCats
      BY DEF IntegerCats
    <3> QED
      BY <1>2, <3>1, NarrowIsExact DEF Legible
  <2>3. Marshalled(cat, Cell("decimal", n)) = Answer("OK", Cell("num", Wrapped(cat, n)))
    BY <2>2, KindsOfCategory DEF Marshalled, Cell
  <2>4. Wrapped(cat, n) = n
    BY <1>2, WrappedInRange
  <2> QED
    BY <1>1, <2>1, <2>3, <2>4 DEF PassArgument, Answer
<1> QED
  BY <1>3, <1>5, <1>6

\* An integer of 64 bits travels as its decimal text, which stoll and stoull read.
LEMMA WideReadsBack == ASSUME NEW cat \in WideCats PROVE ReadsBack(cat)
<1> SUFFICES ASSUME NEW cell \in Contents(cat)
             PROVE  /\ WriteField(cat, FromLua(ToLua(ReadField(cat, cell)))) = Answer("OK", cell)
                    /\ PassArgument(cat, FromLua(ToLua(ReturnValue(cat, cell)))) = Answer("OK", cell)
  BY Widths, KindsOfCategory DEF ReadsBack
<1>0. cat \in IntegerCats
  BY Widths
<1>1. PICK n \in Lowest(cat)..Highest(cat) : cell = Cell("num", n)
  BY <1>0, KindsOfCategory DEF Contents
<1>2. n \in Int /\ InRange(cat, n)
  BY <1>0, Bounds DEF InRange
<1> DEFINE v == Value("String", "decimal", n)
<1>3. ReadField(cat, cell) = v /\ ReturnValue(cat, cell) = v
  BY <1>0, <1>1, KindsOfCategory DEF ReadField, ReturnValue, Cell
<1>4. FromLua(ToLua(v)) = v
  BY DEF FromLua, ToLua, Value
<1>5. Formatted(v) = Cell("decimal", n) /\ v.kind = "String"
  BY DEF Formatted, Value
<1> HIDE DEF v
<1>6. WriteField(cat, v) = Answer("OK", cell)
  <2>1. FieldInput(cat, v) = Answer("OK", Cell("decimal", n))
    BY <1>0, <1>5, KindsOfCategory DEF FieldInput
  <2>2. Parsed(cat, Cell("decimal", n)) = Answer("OK", Cell("num", n))
    BY <1>0, <1>2, KindsOfCategory DEF Parsed, Cell
  <2>3. Written(cat, Cell("decimal", n)) = Parsed(cat, Cell("decimal", n))
    BY <1>0, KindsOfCategory DEF Written
  <2> QED
    BY <1>1, <2>1, <2>2, <2>3 DEF WriteField, Answer
<1>7. PassArgument(cat, v) = Answer("OK", cell)
  <2>1. InvokeInput(cat, v) = Answer("OK", Cell("decimal", n))
    BY <1>0, <1>5, KindsOfCategory DEF InvokeInput, Cell
  <2>2. Legible(cat, n)
    <3>1. CASE cat = "I8"
      BY <1>2, <3>1 DEF Legible, SignedCats
    <3>2. CASE cat = "U8"
      <4>1. cat \notin SignedCats /\ Lowest(cat) = 0
        BY <3>2 DEF SignedCats, Lowest
      <4>2. 0 <= n /\ n <= Highest(cat) /\ Highest(cat) \in Int /\ 0 <= Highest(cat)
        BY <1>0, <1>2, <4>1, Bounds DEF InRange
      <4> QED
        BY <1>2, <3>2, <4>1, <4>2 DEF Legible
    <3> QED
      BY <3>1, <3>2 DEF WideCats
  <2>3. Marshalled(cat, Cell("decimal", n)) = Answer("OK", Cell("num", Wrapped(cat, n)))
    BY <1>0, <2>2, KindsOfCategory DEF Marshalled, Cell
  <2>4. Wrapped(cat, n) = n
    BY <1>0, <1>2, WrappedInRange
  <2> QED
    BY <1>1, <2>1, <2>3, <2>4 DEF PassArgument, Answer
<1> QED
  BY <1>3, <1>4, <1>6, <1>7

\* What arrives of a number is a number that the float holds, if it was one.
LEMMA ArrivesWithin ==
  ASSUME NEW cat \in FloatCats, NEW n \in Int, Holds(cat, n)
  PROVE  ThroughLua(n) \in Int /\ Holds(cat, ThroughLua(n))
<1>0. "I8" \in IntegerCats /\ "I8" \in SignedCats
  BY DEF IntegerCats, SignedCats
<1>1. Width["I8"] \in Nat /\ Width["I8"] - 1 \in Nat /\ (Width["I8"] - 1) + 1 = Width["I8"]
  BY <1>0, Widths
<1>2. 2 ^ Width["I8"] = 2 * 2 ^ (Width["I8"] - 1) /\ 2 ^ (Width["I8"] - 1) \in Nat
  BY <1>1, PowerOfNext, PowersGrow
<1>3. Lowest("I8") = -(2 ^ (Width["I8"] - 1))
  BY <1>0 DEF Lowest
<1>4. 2 * Lowest("I8") \in Int /\ Holds(cat, 2 * Lowest("I8"))
  BY <1>2, <1>3, Widths DEF Holds
<1> QED
  BY <1>4 DEF ThroughLua

\* A whole number of Lua is an Integer, another one a Number, and its text says
\* the number that arrives.
LEMMA NumberArrives ==
  ASSUME NEW n \in Int
  PROVE  LET v == FromLua(Value("number", "", n))
             text == IF n % 2 = 0 THEN Cell("decimal", ThroughLua(n) \div 2) ELSE Cell("fraction", n)
         IN  /\ v.kind \in {"Integer", "Number"} /\ Formatted(v) = text
             /\ text.form \in {"decimal", "fraction"} /\ HalvesOf(text) = ThroughLua(n)
<1>0. "I8" \in IntegerCats
  BY DEF IntegerCats, SignedCats
<1>1. CASE n % 2 = 0
  <2> DEFINE half == IF Overflows(n) THEN Lowest("I8") ELSE n \div 2
  <2>1. half \in Int /\ ThroughLua(n) = 2 * half
    BY <1>0, <1>1, Bounds DEF ThroughLua
  <2>2. FromLua(Value("number", "", n)) = Value("Integer", "", half)
    BY <1>1 DEF FromLua, Value
  <2> HIDE DEF half
  <2>3. ThroughLua(n) \div 2 = half
    BY <2>1
  <2>4. LET w == Value("Integer", "", half) IN w.kind = "Integer" /\ Formatted(w) = Cell("decimal", half)
    BY DEF Formatted, Value
  <2>5. Cell("decimal", half).form = "decimal" /\ HalvesOf(Cell("decimal", half)) = 2 * half
    BY DEF Cell, HalvesOf
  <2> QED
    BY <1>1, <2>1, <2>2, <2>3, <2>4, <2>5
<1>2. CASE n % 2 # 0
  <2>1. ThroughLua(n) = n
    BY <1>2 DEF ThroughLua, Overflows
  <2>2. FromLua(Value("number", "", n)) = Value("Number", "", n)
    BY <1>2 DEF FromLua, Value
  <2>3. LET w == Value("Number", "", n) IN w.kind = "Number" /\ Formatted(w) = Cell("fraction", n)
    BY DEF Formatted, Value
  <2>4. Cell("fraction", n).form = "fraction" /\ HalvesOf(Cell("fraction", n)) = n
    BY DEF Cell, HalvesOf
  <2> QED
    BY <1>2, <2>1, <2>2, <2>3, <2>4
<1> QED
  BY <1>1, <1>2

\* A float takes a number of Lua as it arrives, with its own mantissa.
LEMMA FloatIsStored ==
  ASSUME NEW cat \in FloatCats, NEW n \in Int
  PROVE  LET v == FromLua(Value("number", "", n))
             r == Answer("OK", Cell("num", Rounded(ThroughLua(n), MantissaOf(cat))))
         IN  /\ WriteField(cat, v).status = "OK" => WriteField(cat, v) = r
             /\ Holds(cat, ThroughLua(n)) => WriteField(cat, v) = r /\ PassArgument(cat, v) = r
<1> DEFINE v == FromLua(Value("number", "", n))
           r == Answer("OK", Cell("num", Rounded(ThroughLua(n), MantissaOf(cat))))
           text == IF n % 2 = 0 THEN Cell("decimal", ThroughLua(n) \div 2) ELSE Cell("fraction", n)
<1>1. /\ v.kind \in {"Integer", "Number"} /\ Formatted(v) = text
      /\ text.form \in {"decimal", "fraction"} /\ HalvesOf(text) = ThroughLua(n)
  BY NumberArrives
<1> HIDE DEF v, text
<1>2. FieldInput(cat, v) = Answer("OK", text)
  BY <1>1, KindsOfCategory DEF FieldInput
<1>3. InvokeInput(cat, v) = Answer("OK", text)
  BY <1>1, KindsOfCategory DEF InvokeInput
<1>4. Written(cat, text) = Parsed(cat, text)
  BY KindsOfCategory DEF Written
<1>5. Parsed(cat, text) = IF Holds(cat, ThroughLua(n)) THEN r ELSE Answer("TYPE_MISMATCH", NullCell)
  BY <1>1, KindsOfCategory DEF Parsed
<1>6. Holds(cat, ThroughLua(n)) => Marshalled(cat, text) = r
  BY <1>1, KindsOfCategory DEF Marshalled
<1>7. WriteField(cat, v) = Parsed(cat, text) /\ PassArgument(cat, v) = Marshalled(cat, text)
  BY <1>2, <1>3, <1>4 DEF WriteField, PassArgument, Answer
<1>8. Answer("TYPE_MISMATCH", NullCell).status # "OK"
  BY DEF Answer
<1> HIDE DEF r
<1> QED
  BY <1>5, <1>6, <1>7, <1>8 DEF v, r

\* What a float holds has been rounded to its mantissa before, so that it comes
\* back as it was, unless it is a whole number beyond int64_t.
LEMMA FloatReadsBack == ASSUME NEW cat \in FloatCats PROVE ReadsBack(cat)
<1> SUFFICES ASSUME NEW cell \in Contents(cat)
             PROVE  LET back == IF cat \in FloatCats /\ Overflows(cell.n)
                                THEN Cell("num", Rounded(2 * Lowest("I8"), MantissaOf(cat)))
                                ELSE cell
                    IN  /\ WriteField(cat, FromLua(ToLua(ReadField(cat, cell)))) = Answer("OK", back)
                        /\ PassArgument(cat, FromLua(ToLua(ReturnValue(cat, cell)))) = Answer("OK", back)
  BY DEF ReadsBack
<1>1. PICK h \in (-Limit[cat])..Limit[cat] : cell = Cell("num", Rounded(h, MantissaOf(cat)))
  BY KindsOfCategory DEF Contents
<1> DEFINE n == Rounded(h, MantissaOf(cat))
<1>2. Limit[cat] \in Nat /\ h \in Int /\ -Limit[cat] <= h /\ h <= Limit[cat]
  BY Widths
<1>3. /\ n \in Int /\ Rounded(n, MantissaOf(cat)) = n
      /\ h >= 0 => 0 <= n /\ n <= h
      /\ h < 0 => h <= n /\ n <= 0
  BY <1>2, KindsOfCategory, RoundedAgain
<1>4. cell = Cell("num", n) /\ cell.n = n
  BY <1>1 DEF Cell
<1> HIDE DEF n
<1>5. Holds(cat, n)
  BY <1>2, <1>3 DEF Holds
<1>6. /\ ToLua(ReadField(cat, cell)) = Value("number", "", n)
      /\ ToLua(ReturnValue(cat, cell)) = Value("number", "", n)
  <2>1. ReadField(cat, cell) = Value("Number", "", n) /\ ReturnValue(cat, cell) = Value("Number", "", n)
    BY <1>4, KindsOfCategory DEF ReadField, ReturnValue, Cell
  <2>2. ToLua(Value("Number", "", n)) = Value("number", "", n)
    BY DEF ToLua, Value
  <2> QED
    BY <2>1, <2>2
<1> DEFINE r == Answer("OK", Cell("num", Rounded(ThroughLua(n), MantissaOf(cat))))
<1>7. /\ WriteField(cat, FromLua(ToLua(ReadField(cat, cell)))) = r
      /\ PassArgument(cat, FromLua(ToLua(ReturnValue(cat, cell)))) = r
  BY <1>3, <1>5, <1>6, ArrivesWithin, FloatIsStored
<1>8. Rounded(ThroughLua(n), MantissaOf(cat)) =
        IF Overflows(n) THEN Rounded(2 * Lowest("I8"), MantissaOf(cat)) ELSE n
  BY <1>3 DEF ThroughLua
<1> QED
  BY <1>4, <1>7, <1>8

\* A flag travels as a word,
LEMMA FlagReadsBack == ReadsBack("BOOLEAN")
<1> DEFINE cat == "BOOLEAN"
<1>0. cat \notin WideCats \cup SignedCats \cup UnsignedCats \cup FloatCats \cup IntegerCats \cup InlineCats
  BY DEF WideCats, SignedCats, UnsignedCats, FloatCats, IntegerCats, InlineCats
<1> SUFFICES ASSUME NEW b \in {0, 1}
             PROVE  /\ WriteField(cat, FromLua(ToLua(ReadField(cat, Cell("num", b))))) = Answer("OK", Cell("num", b))
                    /\ PassArgument(cat, FromLua(ToLua(ReturnValue(cat, Cell("num", b)))))
                         = Answer("OK", Cell("num", b))
  BY <1>0 DEF ReadsBack, Contents
<1> DEFINE text == Cell(IF b = 1 THEN "true" ELSE "false", 0)
<1>1. ReadField(cat, Cell("num", b)) = Bool(b) /\ ReturnValue(cat, Cell("num", b)) = Bool(b)
  BY <1>0 DEF ReadField, ReturnValue, Cell
<1>2. FromLua(ToLua(Bool(b))) = Bool(b)
  BY DEF FromLua, ToLua, Bool, Value
<1>3. Bool(b).kind = "Boolean" /\ Formatted(Bool(b)) = text
  BY DEF Formatted, Bool, Value
<1>4. text.form = (IF b = 1 THEN "true" ELSE "false")
  BY DEF Cell
<1> HIDE DEF text
<1>5. FieldInput(cat, Bool(b)) = Answer("OK", text)
  BY <1>0, <1>3 DEF FieldInput
<1>6. InvokeInput(cat, Bool(b)) = Answer("OK", text)
  BY <1>0, <1>3, <1>4 DEF InvokeInput
<1>7. Written(cat, text) = Answer("OK", Cell("num", b)) /\ Marshalled(cat, text) = Answer("OK", Cell("num", b))
  BY <1>0, <1>4 DEF Written, Marshalled
<1> QED
  BY <1>1, <1>2, <1>5, <1>6, <1>7 DEF WriteField, PassArgument, Answer

\* and a string as its text, or as nil when the reference is null.
LEMMA TextReadsBack == ReadsBack("STRING")
<1> DEFINE cat == "STRING"
<1>0. cat \notin WideCats \cup SignedCats \cup UnsignedCats \cup FloatCats \cup IntegerCats \cup InlineCats
  BY DEF WideCats, SignedCats, UnsignedCats, FloatCats, IntegerCats, InlineCats
<1>1. ASSUME NEW cell, NEW v,
             ReadField(cat, cell) = v, ReturnValue(cat, cell) = v, FromLua(ToLua(v)) = v,
             v.kind \in {"Nil", "String"}, Formatted(v) = cell, v.kind = "Nil" <=> cell = NullCell,
             cell = NullCell \/ cell = Cell("plain", 1)
      PROVE  /\ WriteField(cat, FromLua(ToLua(ReadField(cat, cell)))) = Answer("OK", cell)
             /\ PassArgument(cat, FromLua(ToLua(ReturnValue(cat, cell)))) = Answer("OK", cell)
  <2>1. FieldInput(cat, v) = Answer("OK", cell)
    BY <1>0, <1>1 DEF FieldInput
  <2>2. InvokeInput(cat, v) = Answer("OK", cell)
    BY <1>0, <1>1 DEF InvokeInput
  <2>3. Written(cat, cell) = Answer("OK", cell)
    BY <1>0, <1>1 DEF Written, Normalized, NullCell, Cell
  <2>4. Marshalled(cat, cell) = Answer("OK", cell)
    BY <1>0, <1>1 DEF Marshalled, NullCell, Cell
  <2> QED
    BY <1>1, <2>1, <2>2, <2>3, <2>4 DEF WriteField, PassArgument, Answer
<1>2. /\ ReadField(cat, NullCell) = Nil /\ ReturnValue(cat, NullCell) = Nil
      /\ FromLua(ToLua(Nil)) = Nil /\ Nil.kind = "Nil" /\ Formatted(Nil) = NullCell
  BY <1>0 DEF ReadField, ReturnValue, FromLua, ToLua, Formatted, Nil, Value, NullCell, Cell
<1>3. LET v == Value("String", "plain", 1) IN
      /\ ReadField(cat, Cell("plain", 1)) = v /\ ReturnValue(cat, Cell("plain", 1)) = v
      /\ FromLua(ToLua(v)) = v /\ v.kind = "String" /\ Formatted(v) = Cell("plain", 1)
  BY <1>0 DEF ReadField, ReturnValue, FromLua, ToLua, Formatted, Previewed, Value, Cell
<1>4. Cell("plain", 1) # NullCell
  BY DEF Cell, NullCell
<1>5. Contents(cat) = {NullCell, Cell("plain", 1)}
  BY <1>0 DEF Contents
<1> QED
  BY <1>0, <1>1, <1>2, <1>3, <1>4, <1>5 DEF ReadsBack

\* A script that writes back what it read leaves the field as it was, in every
\* category and up to the boundaries of every width, but for that one loss.
LEMMA EverythingReadsBack == \A cat \in Copyable : ReadsBack(cat)
BY NarrowReadsBack, WideReadsBack, FloatReadsBack, FlagReadsBack, TextReadsBack DEF Copyable

\* The kinds of a script value, and the forms of what it is formatted to.
LEMMA ValueOfLua ==
  ASSUME NEW lua \in LuaValues
  PROVE  LET v == FromLua(lua) IN
         /\ v.kind \in {"Nil", "Boolean", "Integer", "Number", "String", "Handle", "Invalid"}
         /\ lua.kind = "number" => lua.n \in Int /\ lua = Value("number", "", lua.n)
<1>1. CASE lua \in LuaNumbers
  <2>0. "R8" \in FloatCats
    BY DEF FloatCats
  <2>1. PICK h \in (-Limit["R8"])..Limit["R8"] : lua = Value("number", "", Rounded(h, DoubleBits))
    BY <1>1 DEF LuaNumbers
  <2>2. h \in Int
    BY <2>0, Widths
  <2>3. Rounded(h, DoubleBits) \in Int
    BY <2>2, RoundedAgain, Widths
  <2>4. lua.n = Rounded(h, DoubleBits) /\ lua.kind = "number"
    BY <2>1 DEF Value
  <2>5. FromLua(lua).kind \in {"Integer", "Number"}
    BY <2>3, <2>4 DEF FromLua, Value
  <2> QED
    BY <2>1, <2>3, <2>4, <2>5
<1>2. CASE lua \notin LuaNumbers
  <2>1. \/ \E form \in Forms : lua = Value("string", form, 1)
        \/ lua = Value("string", "decimal", Limit["R8"])
        \/ \E form \in {"instance", "class"} : lua = Value("userdata", form, 1)
        \/ lua \in {Value("nil", "", 0), Value("boolean", "", 0), Value("boolean", "", 1), Value("table", "", 0)}
    BY <1>2 DEF LuaValues
  <2>2. lua.kind \in {"string", "userdata", "nil", "boolean", "table"}
    <3>1. \A kind, form, n : Value(kind, form, n).kind = kind
      BY DEF Value
    <3>2. CASE \E form \in Forms : lua = Value("string", form, 1)
      <4>1. lua.kind = "string"
        BY <3>1, <3>2
      <4> QED
        BY <4>1
    <3>5. CASE lua = Value("string", "decimal", Limit["R8"])
      <4>1. lua.kind = "string"
        BY <3>1, <3>5
      <4> QED
        BY <4>1
    <3>3. CASE \E form \in {"instance", "class"} : lua = Value("userdata", form, 1)
      <4>1. lua.kind = "userdata"
        BY <3>1, <3>3
      <4> QED
        BY <4>1
    <3>4. CASE lua \in {Value("nil", "", 0), Value("boolean", "", 0), Value("boolean", "", 1),
                         Value("table", "", 0)}
      <4>1. /\ Value("nil", "", 0).kind = "nil" /\ Value("table", "", 0).kind = "table"
            /\ Value("boolean", "", 0).kind = "boolean" /\ Value("boolean", "", 1).kind = "boolean"
        BY <3>1
      <4>2. \/ lua = Value("nil", "", 0) \/ lua = Value("table", "", 0)
            \/ lua = Value("boolean", "", 0) \/ lua = Value("boolean", "", 1)
        BY <3>4
      <4> QED
        BY <4>1, <4>2
    <3> QED
      BY <2>1, <3>2, <3>3, <3>4, <3>5
  <2> QED
    BY <2>2 DEF FromLua, Value, Nil, Bool
<1> QED
  BY <1>1, <1>2

\* A write and a call answer with the statuses that are listed for them.
LEMMA WrittenStatus ==
  ASSUME NEW cat \in Categories, NEW v,
         v.kind \in {"Nil", "Boolean", "Integer", "Number", "String", "Handle", "Invalid"}
  PROVE  WriteField(cat, v).status \in WriteStatuses /\ PassArgument(cat, v).status \in ArgumentStatuses
<1>0. cat \in IntegerCats \cup FloatCats \cup InlineCats \cup {"BOOLEAN", "STRING", "PTR", "ARRAY", "LIST", "UNKNOWN"}
  BY DEF Categories
<1>1. FieldInput(cat, v).status \in WriteStatuses \ {"TYPE_MISMATCH"}
  BY DEF FieldInput, Answer, WriteStatuses
<1>2. InvokeInput(cat, v).status \in ArgumentStatuses
  BY DEF InvokeInput, Answer, ArgumentStatuses
<1>3. ASSUME NEW text, cat \in IntegerCats \cup FloatCats \cup {"BOOLEAN", "STRING"}
      PROVE  Written(cat, text).status \in {"OK", "TYPE_MISMATCH"}
  <2>1. CASE cat \in {"BOOLEAN", "STRING"}
    BY <2>1 DEF Written, Answer
  <2>2. CASE cat \in IntegerCats
    <3>1. Written(cat, text) = Parsed(cat, text)
      BY <2>2, KindsOfCategory DEF Written
    <3>2. Parsed(cat, text).status \in {"OK", "TYPE_MISMATCH"}
      BY <2>2, KindsOfCategory DEF Parsed, Answer
    <3> QED
      BY <3>1, <3>2
  <2>3. CASE cat \in FloatCats
    <3>1. Written(cat, text) = Parsed(cat, text)
      BY <2>3, KindsOfCategory DEF Written
    <3>2. Parsed(cat, text).status \in {"OK", "TYPE_MISMATCH"}
      BY <2>3, KindsOfCategory DEF Parsed, Answer
    <3> QED
      BY <3>1, <3>2
  <2> QED
    BY <1>3, <2>1, <2>2, <2>3
<1>4. ASSUME NEW text PROVE Marshalled(cat, text).status \in {"OK", "BAD_ARGUMENT"}
  BY DEF Marshalled, Answer
<1>5. cat \in InlineCats \cup {"PTR", "ARRAY", "LIST", "UNKNOWN"} => FieldInput(cat, v).status # "OK"
  BY DEF FieldInput, Answer, InlineCats
<1>6. WriteField(cat, v).status \in WriteStatuses
  BY <1>0, <1>1, <1>3, <1>5 DEF WriteField, WriteStatuses
<1>7. PassArgument(cat, v).status \in ArgumentStatuses
  BY <1>2, <1>4 DEF PassArgument, ArgumentStatuses
<1> QED
  BY <1>6, <1>7

\* A number that a script writes is stored as it arrives, up to the mantissa of
\* a float, or refused, in every category; an integer field takes only the very
\* number, since the lowest int64_t is in the range of none that takes a number.
LEMMA EverythingStoresOrRefuses == \A cat \in Categories : StoresOrRefuses(cat)
<1> SUFFICES ASSUME NEW cat \in Categories, NEW lua \in LuaValues
             PROVE  LET written == WriteField(cat, FromLua(lua)) IN
                    /\ written.status \in WriteStatuses
                    /\ PassArgument(cat, FromLua(lua)).status \in ArgumentStatuses
                    /\ (lua.kind = "number" /\ written.status = "OK") =>
                         /\ cat \in FloatCats => written.cell.n = Rounded(ThroughLua(lua.n), MantissaOf(cat))
                         /\ cat \in IntegerCats => lua.n = 2 * written.cell.n
  BY DEF StoresOrRefuses
<1> DEFINE v == FromLua(lua)
           written == WriteField(cat, v)
<1>1. written.status \in WriteStatuses /\ PassArgument(cat, v).status \in ArgumentStatuses
  <2>1. v.kind \in {"Nil", "Boolean", "Integer", "Number", "String", "Handle", "Invalid"}
    BY ValueOfLua
  <2> HIDE DEF v
  <2> QED
    BY <2>1, WrittenStatus
<1>2. ASSUME cat \in FloatCats, lua.kind = "number", written.status = "OK"
      PROVE  written.cell.n = Rounded(ThroughLua(lua.n), MantissaOf(cat))
  <2>1. lua.n \in Int /\ lua = Value("number", "", lua.n)
    BY <1>2, ValueOfLua
  <2>2. written = Answer("OK", Cell("num", Rounded(ThroughLua(lua.n), MantissaOf(cat))))
    BY <1>2, <2>1, FloatIsStored
  <2> QED
    BY <2>2 DEF Answer, Cell
<1>3. ASSUME cat \in IntegerCats, lua.kind = "number", written.status = "OK"
      PROVE  lua.n = 2 * written.cell.n
  <2> DEFINE n == lua.n
             text == IF n % 2 = 0 THEN Cell("decimal", ThroughLua(n) \div 2) ELSE Cell("fraction", n)
  <2>1. n \in Int /\ lua = Value("number", "", n)
    BY <1>3, ValueOfLua
  <2>2. v.kind \in {"Integer", "Number"} /\ Formatted(v) = text
    BY <2>1, NumberArrives
  <2> HIDE DEF v, text, n
  <2>3. FieldInput(cat, v).status = "OK" => FieldInput(cat, v) = Answer("OK", text) /\ cat \notin WideCats
    BY <1>3, <2>2, KindsOfCategory DEF FieldInput, Answer
  <2>4. cat \notin WideCats /\ written = Written(cat, text)
    BY <1>3, <2>3 DEF WriteField, Answer
  <2>5. Written(cat, text) = Parsed(cat, text)
    BY <1>3, KindsOfCategory DEF Written
  <2>6. Parsed(cat, text) = IF text.form = "decimal" /\ InRange(cat, text.n)
                            THEN Answer("OK", Cell("num", text.n))
                            ELSE Answer("TYPE_MISMATCH", NullCell)
    BY <1>3, KindsOfCategory DEF Parsed
  <2>7. /\ text.form = "decimal" /\ InRange(cat, text.n)
        /\ Parsed(cat, text) = Answer("OK", Cell("num", text.n))
    BY <1>3, <2>4, <2>5, <2>6 DEF Answer
  <2>8. n % 2 = 0 /\ text.n = ThroughLua(n) \div 2
    BY <2>7 DEF text, Cell
  <2>9. ~Overflows(n)
    <3>1. SUFFICES ASSUME Overflows(n) PROVE FALSE
      OBVIOUS
    <3>2. "I8" \in IntegerCats
      BY DEF IntegerCats, SignedCats
    <3>3. Lowest("I8") \in Int
      BY <3>2, Bounds
    <3>4. text.n = Lowest("I8")
      BY <2>8, <3>1, <3>3 DEF ThroughLua
    <3> QED
      BY <1>3, <2>4, <2>7, <3>3, <3>4, NarrowIsExact
  <2>10. text.n = n \div 2 /\ n = 2 * (n \div 2)
    <3>1. ThroughLua(n) = n
      BY <2>9 DEF ThroughLua
    <3>2. \A m \in Int : m % 2 = 0 => m = 2 * (m \div 2)
      OBVIOUS
    <3>3. n % 2 = 0
      BY <2>8
    <3>4. n = 2 * (n \div 2)
      BY <2>1, <3>2, <3>3
    <3> QED
      BY <2>8, <3>1, <3>4
  <2>11. written.cell.n = text.n
    BY <2>4, <2>5, <2>7 DEF Answer, Cell
  <2> QED
    BY <2>10, <2>11 DEF n
<1> QED
  BY <1>1, <1>2, <1>3

\* A script that writes back what it read leaves the field as it was, unless it
\* is a float with a whole value beyond int64_t, which becomes the lowest one; a
\* number that a script writes is stored as it arrives or refused: for any widths
\* of the integers, limits of the floats and mantissas of which a Lua number
\* holds the narrow integers, not the wide.
THEOREM MeaningIsKept == ReflectionSpec => []ValuesKeepTheirMeaning
<1>1. ValuesKeepTheirMeaning
  BY EverythingReadsBack, EverythingStoresOrRefuses DEF ValuesKeepTheirMeaning
<1> QED
  BY <1>1, PTL
=============================================================================
