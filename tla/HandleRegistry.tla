--------------------------- MODULE HandleRegistry ---------------------------
(***************************************************************************)
(* The registry behind the object proxies of a script                      *)
(* (src/scripting/handles/script_handle_registry.cpp).  A handle is an     *)
(* index and a generation; an entry is given back when the script instance *)
(* that owns it ends, and its index is used again.                         *)
(*                                                                         *)
(* Handles are registered by tasks on the Unity main thread.  A task that  *)
(* outlived its caller (CommandChannel.tla) may register one for an        *)
(* instance that has ended, or that a later instance has replaced.  Every  *)
(* method holds mutex_ throughout and is one step.                         *)
(*                                                                         *)
(* An operator whose name begins with Mut is no part of the model: it is a *)
(* bug put into the next operator, which some property must then reject.   *)
(***************************************************************************)
EXTENDS Naturals

CONSTANTS
  Addresses,         \* native addresses of objects, classes, images...
  NullAddress,       \* 0, which a reflection lookup may return
  Kinds,             \* ScriptHandleKind, without Invalid
  AnyKind,           \* ScriptHandleKind::Invalid: a caller that does not check the kind
  MaxOwners,         \* bound of the model: script instances launched
  MaxRegistrations   \* bound of the model: calls of Register, below 2^32

ASSUME RegistryAssumption ==
  /\ NullAddress \notin Addresses
  /\ AnyKind \notin Kinds
  /\ MaxOwners \in Nat
  /\ MaxRegistrations \in Nat

Owners == 1..MaxOwners
NoOwner == 0
Slots == 0..(MaxRegistrations - 1)

VARIABLES
  size,            \* entries_.size()
  entries,         \* entries_, default entries from size on
  free,            \* freeIndices_: how often it holds each index
  nextGeneration,  \* nextGeneration_
  current,         \* instanceId_ of the engine: the instance launched last
  retired,         \* history: instances whose entries were invalidated
  issued           \* history: what Register returned, and for which request

vars == <<size, entries, free, nextGeneration, current, retired, issued>>

Entry == [generation : Nat, address : Addresses \cup {NullAddress},
          kind : Kinds \cup {AnyKind}, owner : Owners \cup {NoOwner}, alive : BOOLEAN]
Issue == [index : Slots, generation : Nat, address : Addresses \cup {NullAddress},
          kind : Kinds, owner : Owners, late : BOOLEAN]

DefaultEntry == [generation |-> 0, address |-> NullAddress, kind |-> AnyKind,
                 owner |-> NoOwner, alive |-> FALSE]

TypeOK ==
  /\ size \in Nat
  /\ entries \in [Slots -> Entry]
  /\ free \in [Slots -> Nat]
  /\ nextGeneration \in 1..(MaxRegistrations + 1)
  /\ current \in 0..MaxOwners
  /\ retired \in SUBSET (1..current)
  /\ issued \in SUBSET Issue

Init ==
  /\ size = 0
  /\ entries = [i \in Slots |-> DefaultEntry]
  /\ free = [i \in Slots |-> 0]
  /\ nextGeneration = 1
  /\ current = 0
  /\ retired = {}
  /\ issued = {}

-----------------------------------------------------------------------------
\* LaunchWorkerLocked: the next instance, once the last one was invalidated
\* (WorkerMain invalidates before it lets Pump launch another).
Launch ==
  /\ current < MaxOwners
  /\ current # 0 => current \in retired
  /\ current' = current + 1
  /\ UNCHANGED <<size, entries, free, nextGeneration, retired, issued>>

MutNewIndex == {IF size > 0 THEN size - 1 ELSE 0}
\* The index of a new handle: a free one if there is any (the code takes the
\* one freed last), else the next entry.
NewIndex == IF \E i \in Slots : free[i] > 0 THEN {i \in Slots : free[i] > 0} ELSE {size}

TakeGeneration == nextGeneration' = nextGeneration + 1

\* A null address makes an entry that is dead from the start, and whose index
\* is never freed.
Register(o, address, kind) ==
  /\ nextGeneration <= MaxRegistrations
  /\ \E i \in NewIndex :
       /\ entries' = [entries EXCEPT ![i] =
            [generation |-> nextGeneration, address |-> address, kind |-> kind,
             owner |-> o, alive |-> address # NullAddress]]
       /\ IF free[i] > 0
          THEN free' = [free EXCEPT ![i] = @ - 1] /\ UNCHANGED size
          ELSE size' = size + 1 /\ UNCHANGED free
       /\ issued' = issued \cup {[index |-> i, generation |-> nextGeneration, address |-> address,
                                  kind |-> kind, owner |-> o, late |-> o \in retired]}
  /\ TakeGeneration
  /\ UNCHANGED <<current, retired>>

Owned(o) == {i \in Slots : i < size /\ entries[i].owner = o /\ entries[i].alive}

\* The worker does this when its script ended, and RequestStop does it again
\* for the last instance when the panel shuts down.
InvalidateOwnedBy(o) ==
  /\ entries' = [i \in Slots |->
       IF i \in Owned(o)
       THEN [entries[i] EXCEPT !.alive = FALSE, !.generation = @ + 1]
       ELSE entries[i]]
  /\ free' = [i \in Slots |-> IF i \in Owned(o) THEN free[i] + 1 ELSE free[i]]
  /\ retired' = retired \cup {o}
  /\ UNCHANGED <<size, nextGeneration, current, issued>>

MutResolvesAnyGeneration(index, generation, o, kind) ==
  /\ index < size
  /\ entries[index].alive
  /\ entries[index].owner = o
  /\ kind \in {AnyKind, entries[index].kind}

\* ResolveAndValidate succeeds on readable memory: the handle names an entry,
\* of the same generation, alive, owned by the script that asks and of the
\* kind it asks for.
Resolves(index, generation, o, kind) ==
  /\ index < size
  /\ entries[index].generation = generation
  /\ entries[index].alive
  /\ entries[index].owner = o
  /\ kind \in {AnyKind, entries[index].kind}

Next ==
  \/ Launch
  \/ \E o \in 1..current :
       \/ \E address \in Addresses \cup {NullAddress}, kind \in Kinds : Register(o, address, kind)
       \/ InvalidateOwnedBy(o)

Spec == Init /\ [][Next]_vars

-----------------------------------------------------------------------------
\* A handle resolves only for the instance it was registered for, as the kind
\* it was registered with, and to the address it was registered with: no
\* reuse of an index makes an old handle name another object.
ResolvesToItsTarget ==
  \A r \in issued, o \in Owners, kind \in Kinds \cup {AnyKind} :
    Resolves(r.index, r.generation, o, kind) =>
      /\ o = r.owner
      /\ kind \in {AnyKind, r.kind}
      /\ entries[r.index].address = r.address
      /\ r.address # NullAddress

\* No index is in the free list twice, nor while its entry is alive: two live
\* handles would share an entry.
FreeListSound ==
  \A i \in Slots : free[i] > 0 => free[i] = 1 /\ i < size /\ ~entries[i].alive

\* When an instance ended none of its handles resolves, but those that a late
\* task registered afterwards.
SweepIsComplete ==
  \A r \in issued :
    Resolves(r.index, r.generation, r.owner, r.kind) /\ r.owner \in retired => r.late

\* What a script may rely on of its handles (ScriptReflection.tla): those of
\* an ended instance are gone, no two live ones share an entry, and each names
\* what it was registered for.
HandlesAreSound == ResolvesToItsTarget /\ FreeListSound /\ SweepIsComplete

\* A handle that does not resolve never resolves again.
DeadStaysDead ==
  [][\A r \in issued :
       ~Resolves(r.index, r.generation, r.owner, r.kind)
         => ~Resolves(r.index, r.generation, r.owner, r.kind)']_vars
=============================================================================
