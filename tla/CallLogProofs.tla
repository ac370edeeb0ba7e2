---------------------------- MODULE CallLogProofs ----------------------------
(***************************************************************************)
(* Theorems about CallLog, for any methods, threads, blocks of memory,     *)
(* number of slots, length of the log and number of hooks and events.      *)
(***************************************************************************)
EXTENDS CallLog, SequenceTheorems, FiniteSetTheorems, TLAPS

(***************************************************************************)
(* The inductive invariant.  HooksAgree speaks of the moments between two  *)
(* clicks only; in between, the hook the GUI thread works on is apart and  *)
(* its step says how far it is (AtWork), while the others are complete     *)
(* (Settled).  A call in the detour is tied to the slot it came through    *)
(* (CalmCalls) or, when its slot changed under it, to the hook it came     *)
(* through (OwnHookOnly).  The log has no gap because a trimmed queue is a *)
(* full one, which pushes out whatever came before it (Follows).           *)
(***************************************************************************)
Removing == gui.step \in {"unpatch", "clear"}
Installing == gui.step \in {"fill", "activate"}
AtRest == gui.step \in {"rest", "append"}

Settled(h) == h \in hooks /\ ~(Removing /\ h.id = gui.hook)

HookIsComplete(h) ==
  /\ patch[h.target] \in Slots \ {gui.slot}
  /\ slots[patch[h.target]].active
  /\ slots[patch[h.target]].hook = h.id
  /\ slots[patch[h.target]].original \in Blocks \ {gui.original}
  /\ trampoline[slots[patch[h.target]].original] = h.target

HooksInv ==
  /\ IsFiniteSet(hooks)
  /\ \A h \in hooks : h.id < nextHookId /\ h.target \notin Foreign
  /\ \A h, k \in hooks : h.id = k.id \/ h.target = k.target => h = k
  /\ \A h \in hooks : Settled(h) => HookIsComplete(h)
  /\ \A s \in Slots : slots[s].active => \E h \in hooks : Settled(h) /\ patch[h.target] = s
  /\ \A m \in Methods : patch[m] # NoSlot =>
       \/ \E h \in hooks : Settled(h) /\ h.target = m
       \/ (Installing \/ gui.step = "unpatch") /\ m = gui.target
  /\ \A m \in Methods : m \in registered <=>
       \/ m \in Foreign
       \/ \E h \in hooks : Settled(h) /\ h.target = m
       \/ (Installing \/ gui.step = "unpatch") /\ m = gui.target

AtWork ==
  /\ AtRest => gui.slot = NoSlot /\ gui.hook = NoHook /\ gui.target = NoMethod /\ gui.original = NoBlock
  /\ ~AtRest =>
       /\ gui.slot \in Slots /\ gui.hook \in HookIds /\ gui.hook < nextHookId
       /\ gui.target \in Methods \ Foreign /\ gui.original \in Blocks
       /\ ~slots[gui.slot].active
  /\ Installing =>
       /\ \A h \in hooks : h.id # gui.hook /\ h.target # gui.target
       /\ Cardinality(hooks) < MaxHooks
  /\ gui.step = "fill" => slots[gui.slot].hook = NoHook /\ slots[gui.slot].original = NoBlock
  /\ gui.step \in {"activate", "unpatch"} =>
       slots[gui.slot].hook = gui.hook /\ slots[gui.slot].original = gui.original
  /\ Installing \/ gui.step = "unpatch" =>
       patch[gui.target] = gui.slot /\ trampoline[gui.original] = gui.target
  /\ Removing => [id |-> gui.hook, target |-> gui.target] \in hooks
  /\ gui.step = "clear" => patch[gui.target] = NoSlot /\ trampoline[gui.original] = NoMethod
  /\ \A s \in Slots : ~slots[s].active /\ s # gui.slot => slots[s].hook = NoHook /\ slots[s].original = NoBlock

Later == {"test", "read", "push", "forward"}

CallsShape ==
  \A t \in GameThreads :
    /\ calls[t].step = "none" => calls[t].slot = NoSlot
    /\ calls[t].step # "none" =>
         calls[t].method \in Methods /\ calls[t].slot \in Slots /\ calls[t].hook \in HookIds
    /\ calls[t].step \in Later => calls[t].original \in Blocks

CalmCalls ==
  \A t \in GameThreads : calls[t].step # "none" /\ calls[t].calm =>
    /\ calls[t].slot # gui.slot
    /\ slots[calls[t].slot].active
    /\ slots[calls[t].slot].hook = calls[t].hook
    /\ slots[calls[t].slot].original \in Blocks
    /\ trampoline[slots[calls[t].slot].original] = calls[t].method
    /\ calls[t].step \in Later => calls[t].original = slots[calls[t].slot].original
    /\ calls[t].step \in {"push", "forward"} => calls[t].event = calls[t].hook

OwnHookOnly ==
  \A t \in GameThreads : calls[t].step # "none" /\ ~calls[t].installs =>
    /\ slots[calls[t].slot].hook \in {calls[t].hook, NoHook}
    /\ slots[calls[t].slot].original \in Blocks =>
         trampoline[slots[calls[t].slot].original] \in {calls[t].method, NoMethod}
    /\ calls[t].step \in Later => trampoline[calls[t].original] \in {calls[t].method, NoMethod}
    /\ calls[t].event \in {calls[t].hook, NoHook, NotLogged}
    /\ Installing /\ gui.slot = calls[t].slot => gui.hook = calls[t].hook /\ gui.target = calls[t].method

Follows(q, r) == q # <<>> /\ r # <<>> => r[1] = q[Len(q)] + 1 \/ Len(r) = MaxLines
EndsNow(q) == q # <<>> => q[Len(q)] = nextEvent - 1

LogInv ==
  /\ Consecutive(lines) /\ Consecutive(batch) /\ Consecutive(pending)
  /\ EndsNow(pending)
  /\ IF gui.step = "append"
     THEN /\ batch # <<>> /\ Follows(lines, batch) /\ Follows(batch, pending)
          /\ pending = <<>> => EndsNow(batch)
     ELSE /\ batch = <<>> /\ Follows(lines, pending)
          /\ pending = <<>> => EndsNow(lines)

IInv == TypeOK /\ HooksInv /\ AtWork /\ CallsShape /\ CalmCalls /\ OwnHookOnly /\ LogInv

-----------------------------------------------------------------------------
(***************************************************************************)
(* The hooks.                                                              *)
(***************************************************************************)
HookRecords == [id : HookIds, target : Methods]

\* The fields of the variables.
LEMMA Fields ==
  ASSUME TypeOK
  PROVE  /\ \A s \in Slots : /\ slots[s].active \in BOOLEAN
                             /\ slots[s].hook \in HookIds \cup {NoHook}
                             /\ slots[s].original \in Blocks \cup {NoBlock}
         /\ \A h \in hooks : h.id \in HookIds /\ h.target \in Methods /\ h = [id |-> h.id, target |-> h.target]
         /\ gui.step \in {"rest", "fill", "activate", "unpatch", "clear", "append"}
         /\ gui.slot \in Slots \cup {NoSlot} /\ gui.hook \in HookIds \cup {NoHook}
         /\ gui.target \in Methods \cup {NoMethod} /\ gui.original \in Blocks \cup {NoBlock}
BY DEF TypeOK

LEMMA HooksStay ==
  ASSUME HooksInv, AtWork,
         UNCHANGED <<slots, patch, trampoline, registered, hooks>>,
         nextHookId' \in {nextHookId, nextHookId + 1}, nextHookId \in Nat, HookIds \subseteq Nat, TypeOK,
         \/ gui' = gui
         \/ /\ AtRest /\ AtRest'
            /\ gui'.slot = gui.slot /\ gui'.hook = gui.hook
            /\ gui'.target = gui.target /\ gui'.original = gui.original
  PROVE  HooksInv' /\ AtWork'
<1>1. /\ gui'.slot = gui.slot /\ gui'.hook = gui.hook
      /\ gui'.target = gui.target /\ gui'.original = gui.original
      /\ Removing' = Removing /\ Installing' = Installing /\ AtRest' = AtRest
      /\ gui'.step \in {"fill", "activate", "unpatch", "clear"} \/ gui.step \in {"fill", "activate", "unpatch", "clear"}
           => gui'.step = gui.step
  BY DEF Removing, Installing, AtRest
<1>2. /\ \A h \in hooks : h.id < nextHookId'
      /\ gui.hook < nextHookId => gui.hook < nextHookId'
  BY Fields DEF HooksInv, HookIds, NoHook
<1>3. HooksInv'
  BY <1>1, <1>2 DEF HooksInv, Settled, HookIsComplete
<1>4. AtWork'
  <2>1. CASE gui' = gui
    BY <1>1, <1>2, <2>1 DEF AtWork
  <2>2. CASE AtRest /\ AtRest'
    BY <1>1, <2>2 DEF AtWork, AtRest, Installing, Removing
  <2> QED
    BY <2>1, <2>2
<1> QED
  BY <1>3, <1>4

LEMMA HooksInstall ==
  ASSUME TypeOK, HooksInv, AtWork,
         (\E m \in Methods : ToggleAdd(m)) \/ FillSlot \/ ActivateSlot
  PROVE  HooksInv' /\ AtWork'
<1>0. nextHookId \in Nat /\ HookIds \subseteq Nat /\ Slots \subseteq Int /\ NoSlot \notin Slots
      /\ NoHook \notin HookIds /\ MaxHooks \in Nat
  BY CallLogAssumption DEF TypeOK, HookIds, Slots, NoSlot, NoHook
<1>1. ASSUME NEW m \in Methods, ToggleAdd(m), gui' # gui
      PROVE  HooksInv' /\ AtWork'
  <2>1. PICK s \in FindFreeSlot, b \in {b \in Blocks : trampoline[b] = NoMethod} :
          /\ patch' = [patch EXCEPT ![m] = s]
          /\ trampoline' = [trampoline EXCEPT ![b] = m]
          /\ registered' = registered \cup {m}
          /\ gui' = [step |-> "fill", slot |-> s, hook |-> nextHookId, target |-> m, original |-> b]
    BY <1>1 DEF ToggleAdd, DetourForSlot
  <2>2. /\ gui.step = "rest" /\ nextHookId <= MaxHookIds /\ Cardinality(hooks) < MaxHooks
        /\ m \notin registered /\ nextHookId' = nextHookId + 1
        /\ \A h \in hooks : h.target # m
        /\ UNCHANGED <<slots, hooks>>
    BY <1>1 DEF ToggleAdd, IsLogging
  <2>3. s \in Slots /\ ~slots[s].active /\ b \in Blocks /\ trampoline[b] = NoMethod /\ s # NoSlot
        /\ slots[s].hook = NoHook /\ slots[s].original = NoBlock
    BY <1>0, <2>2 DEF FindFreeSlot, FreeSlots, AtWork, AtRest
  <2>4. /\ gui'.step = "fill" /\ gui'.slot = s /\ gui'.hook = nextHookId
        /\ gui'.target = m /\ gui'.original = b
        /\ ~Removing' /\ Installing' /\ ~AtRest' /\ ~Removing /\ ~Installing /\ AtRest
    BY <2>1, <2>2 DEF Removing, Installing, AtRest
  <2>5. \A h \in hooks : HookIsComplete(h) => HookIsComplete(h)'
    BY <2>1, <2>2, <2>3, <2>4, Fields, CallLogAssumption DEF HookIsComplete, TypeOK
  <2>6. HooksInv'
    <3>1. \A h \in hooks : Settled(h) /\ Settled(h)' /\ HookIsComplete(h)'
      BY <2>2, <2>4, <2>5 DEF HooksInv, Settled
    <3>2. IsFiniteSet(hooks') /\ (\A h \in hooks' : h.id < nextHookId' /\ h.target \notin Foreign)
      BY <1>0, <2>2, Fields DEF HooksInv
    <3>3. \A h, k \in hooks' : h.id = k.id \/ h.target = k.target => h = k
      BY <2>2 DEF HooksInv
    <3>4. \A x \in Slots : slots'[x].active => \E h \in hooks' : Settled(h)' /\ patch'[h.target] = x
      BY <2>1, <2>2, <3>1, Fields DEF HooksInv, TypeOK
    <3>5. \A x \in Methods : patch'[x] # NoSlot =>
            (\E h \in hooks' : Settled(h)' /\ h.target = x) \/ x = gui'.target
      BY <2>1, <2>2, <2>4, <3>1 DEF HooksInv, TypeOK, Installing
    <3>6. \A x \in Methods : x \in registered' <=>
            x \in Foreign \/ (\E h \in hooks' : Settled(h)' /\ h.target = x) \/ x = gui'.target
      BY <2>1, <2>2, <2>4, <3>1 DEF HooksInv, Installing
    <3> QED
      BY <2>2, <2>4, <3>1, <3>2, <3>3, <3>4, <3>5, <3>6 DEF HooksInv
  <2>7. AtWork'
    BY <1>0, <2>1, <2>2, <2>3, <2>4, Fields DEF AtWork, HooksInv, TypeOK, HookIds
  <2> QED
    BY <2>6, <2>7
<1>2. ASSUME NEW m \in Methods, ToggleAdd(m), gui' = gui
      PROVE  HooksInv' /\ AtWork'
  BY <1>2, <1>0, HooksStay DEF ToggleAdd, AtWork, AtRest, NoSlot
<1>3. CASE FillSlot
  <2>1. /\ gui.step = "fill" /\ gui'.step = "activate"
        /\ gui'.slot = gui.slot /\ gui'.hook = gui.hook /\ gui'.target = gui.target
        /\ gui'.original = gui.original
        /\ slots' = [slots EXCEPT ![gui.slot] = [active |-> FALSE, hook |-> gui.hook, original |-> gui.original]]
        /\ UNCHANGED <<patch, trampoline, registered, hooks, nextHookId>>
    BY <1>3 DEF FillSlot, FilledHookId, TypeOK
  <2>2. /\ ~Removing /\ ~Removing' /\ Installing /\ Installing' /\ ~AtRest /\ ~AtRest'
    BY <2>1 DEF Removing, Installing, AtRest
  <2>3. /\ gui.slot \in Slots /\ ~slots[gui.slot].active
        /\ slots'[gui.slot].active = FALSE /\ slots'[gui.slot].hook = gui.hook
        /\ slots'[gui.slot].original = gui.original
        /\ \A s \in Slots : s # gui.slot => slots'[s] = slots[s]
    BY <2>1, <2>2 DEF AtWork, TypeOK
  <2>4. \A h \in hooks : Settled(h)' /\ Settled(h) /\ HookIsComplete(h)'
    BY <2>1, <2>2, <2>3 DEF HooksInv, Settled, HookIsComplete
  <2>5. HooksInv'
    BY <2>1, <2>2, <2>3, <2>4 DEF HooksInv
  <2>6. AtWork'
    BY <2>1, <2>2, <2>3 DEF AtWork
  <2> QED
    BY <2>5, <2>6
<1>4. CASE ActivateSlot
  <2>0. PICK new : new = [id |-> gui.hook, target |-> gui.target]
    OBVIOUS
  <2>1. /\ gui.step = "activate" /\ gui'.step = "rest"
        /\ gui'.slot = NoSlot /\ gui'.hook = NoHook /\ gui'.target = NoMethod /\ gui'.original = NoBlock
        /\ slots' = [slots EXCEPT ![gui.slot].active = TRUE]
        /\ hooks' = hooks \cup {new}
        /\ UNCHANGED <<patch, trampoline, registered, nextHookId>>
    BY <1>4, <2>0 DEF ActivateSlot, Resting
  <2>2. /\ ~Removing /\ ~Removing' /\ Installing /\ ~Installing' /\ ~AtRest /\ AtRest'
    BY <2>1 DEF Removing, Installing, AtRest
  <2>3. /\ gui.slot \in Slots /\ ~slots[gui.slot].active
        /\ slots'[gui.slot].active /\ slots'[gui.slot].hook = gui.hook
        /\ slots'[gui.slot].original = gui.original
        /\ \A s \in Slots : s # gui.slot => slots'[s] = slots[s]
    BY <2>1, <2>2 DEF AtWork, TypeOK
  <2>4. /\ new.id = gui.hook /\ new.target = gui.target
        /\ patch[gui.target] = gui.slot /\ trampoline[gui.original] = gui.target
        /\ gui.original \in Blocks /\ gui.target \in Methods \ Foreign /\ gui.hook < nextHookId
        /\ \A h \in hooks : h.id # gui.hook /\ h.target # gui.target
    BY <2>0, <2>1, <2>2 DEF AtWork
  <2>5. \A h \in hooks : Settled(h) /\ HookIsComplete(h)'
    BY <1>0, <2>1, <2>2, <2>3, CallLogAssumption DEF HooksInv, Settled, HookIsComplete
  <2>6. HookIsComplete(new)'
    BY <1>0, <2>1, <2>3, <2>4, CallLogAssumption DEF HookIsComplete
  <2>7. \A h \in hooks' : Settled(h)' /\ HookIsComplete(h)'
    BY <2>1, <2>2, <2>5, <2>6 DEF Settled
  <2>8. HooksInv'
    <3>1. IsFiniteSet(hooks') /\ (\A h \in hooks' : h.id < nextHookId' /\ h.target \notin Foreign)
      BY <2>1, <2>4, FS_AddElement DEF HooksInv
    <3>2. \A h, k \in hooks' : h.id = k.id \/ h.target = k.target => h = k
      BY <2>1, <2>4 DEF HooksInv
    <3>3. \A x \in Slots : slots'[x].active => \E h \in hooks' : Settled(h)' /\ patch'[h.target] = x
      BY <2>1, <2>3, <2>4, <2>7 DEF HooksInv
    <3>4. \A x \in Methods : patch'[x] # NoSlot => \E h \in hooks' : Settled(h)' /\ h.target = x
      BY <2>1, <2>4, <2>7 DEF HooksInv
    <3>5. \A x \in Methods : x \in registered' <=>
            x \in Foreign \/ (\E h \in hooks' : Settled(h)' /\ h.target = x)
      BY <2>1, <2>2, <2>4, <2>5, <2>7 DEF HooksInv
    <3> QED
      BY <2>1, <2>2, <2>7, <3>1, <3>2, <3>3, <3>4, <3>5 DEF HooksInv
  <2>9. AtWork'
    BY <2>1, <2>2, <2>3 DEF AtWork
  <2> QED
    BY <2>8, <2>9
<1> QED
  BY <1>1, <1>2, <1>3, <1>4

LEMMA HooksRemove ==
  ASSUME TypeOK, HooksInv, AtWork,
         (\E h \in hooks : RemoveHook(h)) \/ Unpatch \/ ClearSlot
  PROVE  HooksInv' /\ AtWork'
<1>0. nextHookId \in Nat /\ HookIds \subseteq Nat /\ NoSlot \notin Slots
      /\ NoHook \notin HookIds /\ NoMethod \notin Methods /\ NoBlock \notin Blocks
  BY CallLogAssumption DEF TypeOK, HookIds, Slots, NoSlot, NoHook
<1>1. ASSUME NEW k \in hooks, RemoveHook(k)
      PROVE  HooksInv' /\ AtWork'
  <2>1. PICK s \in FindSlotByHookId(k.id) :
          /\ gui.step = "rest" /\ gui'.step = "unpatch" /\ gui'.slot = s /\ gui'.hook = k.id
          /\ gui'.target = k.target /\ gui'.original = slots[s].original
          /\ slots' = [slots EXCEPT ![s].active = FALSE]
          /\ UNCHANGED <<patch, trampoline, registered, hooks, nextHookId>>
    <3>1. PICK s \in FindSlotByHookId(k.id) :
            /\ slots' = [slots EXCEPT ![s].active = FALSE]
            /\ gui' = [step |-> "unpatch", slot |-> s, hook |-> k.id, target |-> k.target,
                       original |-> slots[s].original]
      BY <1>1 DEF RemoveHook
    <3>2. gui.step = "rest" /\ UNCHANGED <<patch, trampoline, registered, hooks, nextHookId>>
      BY <1>1 DEF RemoveHook
    <3> QED
      BY <3>1, <3>2
  <2>2. /\ ~Removing /\ Removing' /\ ~Installing /\ ~Installing' /\ AtRest /\ ~AtRest'
    BY <2>1 DEF Removing, Installing, AtRest
  <2>3. s \in Slots /\ slots[s].active /\ slots[s].hook = k.id
    BY <2>1 DEF FindSlotByHookId
  <2>4. /\ \A h \in hooks : Settled(h) /\ (Settled(h)' <=> h # k)
        /\ \A h \in hooks : HookIsComplete(h)
    BY <2>1, <2>2 DEF HooksInv, Settled
  <2>5. patch[k.target] = s
    <3>1. PICK h \in hooks : patch[h.target] = s
      BY <2>3 DEF HooksInv
    <3>2. h.id = k.id
      BY <2>3, <2>4, <3>1 DEF HookIsComplete
    <3> QED
      BY <3>1, <3>2 DEF HooksInv
  <2>6. /\ slots'[s].active = FALSE /\ slots'[s].hook = k.id /\ slots'[s].original = slots[s].original
        /\ \A x \in Slots : x # s => slots'[x] = slots[x]
        /\ slots[s].original \in Blocks /\ trampoline[slots[s].original] = k.target
    BY <2>1, <2>3, <2>4, <2>5 DEF TypeOK, HookIsComplete
  <2>7. \A h \in hooks : h # k => HookIsComplete(h)'
    <3> SUFFICES ASSUME NEW h \in hooks, h # k PROVE HookIsComplete(h)'
      OBVIOUS
    <3>1. h.id # k.id /\ h.target # k.target /\ HookIsComplete(h)
      BY <2>4 DEF HooksInv
    <3>2. patch[h.target] # s /\ slots[patch[h.target]].original # slots[s].original
      BY <2>3, <2>6, <3>1 DEF HookIsComplete
    <3> QED
      BY <2>1, <2>6, <3>1, <3>2 DEF HookIsComplete
  <2>8. HooksInv'
    <3>1. \A x \in Slots : slots'[x].active => \E h \in hooks' : Settled(h)' /\ patch'[h.target] = x
      BY <2>1, <2>3, <2>4, <2>5, <2>6 DEF HooksInv
    <3>2. \A x \in Methods : patch'[x] # NoSlot =>
            (\E h \in hooks' : Settled(h)' /\ h.target = x) \/ x = gui'.target
      BY <2>1, <2>2, <2>4 DEF HooksInv
    <3>3. \A x \in Methods : x \in registered' <=>
            x \in Foreign \/ (\E h \in hooks' : Settled(h)' /\ h.target = x) \/ x = gui'.target
      BY <2>1, <2>2, <2>4 DEF HooksInv
    <3> QED
      BY <2>1, <2>2, <2>4, <2>7, <3>1, <3>2, <3>3 DEF HooksInv
  <2>9. AtWork'
    <3>1. k.id \in HookIds /\ k.target \in Methods \ Foreign /\ k.id < nextHookId
          /\ [id |-> k.id, target |-> k.target] \in hooks
      BY Fields DEF HooksInv
    <3> QED
      BY <1>0, <2>1, <2>2, <2>3, <2>5, <2>6, <3>1 DEF AtWork, AtRest
  <2> QED
    BY <2>8, <2>9
<1>2. CASE Unpatch
  <2>1. /\ gui.step = "unpatch" /\ gui'.step = "clear"
        /\ gui'.slot = gui.slot /\ gui'.hook = gui.hook /\ gui'.target = gui.target
        /\ gui'.original = gui.original
        /\ patch' = [patch EXCEPT ![gui.target] = NoSlot]
        /\ trampoline' = [trampoline EXCEPT ![gui.original] = NoMethod]
        /\ registered' = registered \ {gui.target}
        /\ UNCHANGED <<slots, hooks, nextHookId>>
    BY <1>2 DEF Unpatch, UnregisterHookTarget, TypeOK
  <2>2. /\ Removing /\ Removing' /\ ~Installing /\ ~Installing' /\ ~AtRest /\ ~AtRest'
    BY <2>1 DEF Removing, Installing, AtRest
  <2>3. /\ gui.target \in Methods \ Foreign /\ gui.original \in Blocks /\ gui.slot \in Slots
        /\ [id |-> gui.hook, target |-> gui.target] \in hooks
    BY <2>2 DEF AtWork
  <2>4. \A h \in hooks : (Settled(h)' <=> Settled(h)) /\ (Settled(h) => h.target # gui.target)
    BY <2>1, <2>2, <2>3 DEF HooksInv, Settled
  <2>5. \A h \in hooks : Settled(h) => HookIsComplete(h)'
    BY <2>1, <2>3, <2>4, Fields DEF HooksInv, HookIsComplete, TypeOK
  <2>6. HooksInv'
    <3>1. \A x \in Slots : slots'[x].active => \E h \in hooks' : Settled(h)' /\ patch'[h.target] = x
      BY <2>1, <2>3, <2>4, Fields DEF HooksInv, TypeOK
    <3>2. \A x \in Methods : patch'[x] # NoSlot => \E h \in hooks' : Settled(h)' /\ h.target = x
      BY <2>1, <2>2, <2>4 DEF HooksInv, TypeOK
    <3>3. \A x \in Methods : x \in registered' <=>
            x \in Foreign \/ (\E h \in hooks' : Settled(h)' /\ h.target = x)
      BY <2>1, <2>2, <2>3, <2>4 DEF HooksInv
    <3> QED
      BY <2>1, <2>2, <2>4, <2>5, <3>1, <3>2, <3>3 DEF HooksInv
  <2>7. AtWork'
    BY <2>1, <2>2, <2>3 DEF AtWork, TypeOK
  <2> QED
    BY <2>6, <2>7
<1>3. CASE ClearSlot
  <2>1. /\ gui.step = "clear" /\ gui'.step = "rest"
        /\ gui'.slot = NoSlot /\ gui'.hook = NoHook /\ gui'.target = NoMethod /\ gui'.original = NoBlock
        /\ slots' = [slots EXCEPT ![gui.slot] = Free]
        /\ hooks' = {h \in hooks : h.id # gui.hook}
        /\ UNCHANGED <<patch, trampoline, registered, nextHookId>>
    BY <1>3 DEF ClearSlot, Resting
  <2>2. /\ Removing /\ ~Removing' /\ ~Installing /\ ~Installing' /\ ~AtRest /\ AtRest'
    BY <2>1 DEF Removing, Installing, AtRest
  <2>3. /\ gui.slot \in Slots /\ ~slots[gui.slot].active
        /\ slots'[gui.slot].active = FALSE /\ slots'[gui.slot].hook = NoHook
        /\ slots'[gui.slot].original = NoBlock
        /\ \A x \in Slots : x # gui.slot => slots'[x] = slots[x]
    BY <2>1, <2>2 DEF AtWork, TypeOK, Free
  <2>4. \A h \in hooks' : h \in hooks /\ Settled(h)' /\ Settled(h) /\ HookIsComplete(h)'
    BY <1>0, <2>1, <2>2, <2>3 DEF HooksInv, Settled, HookIsComplete
  <2>5. \A h \in hooks : Settled(h) => h \in hooks'
    BY <2>1, <2>2 DEF Settled
  <2>6. HooksInv'
    <3>1. IsFiniteSet(hooks')
      BY <2>1, FS_Subset DEF HooksInv
    <3>2. \A x \in Slots : slots'[x].active => \E h \in hooks' : Settled(h)' /\ patch'[h.target] = x
      BY <2>1, <2>3, <2>4, <2>5 DEF HooksInv
    <3>3. \A x \in Methods : patch'[x] # NoSlot => \E h \in hooks' : Settled(h)' /\ h.target = x
      BY <2>1, <2>2, <2>4, <2>5 DEF HooksInv
    <3>4. \A x \in Methods : x \in registered' <=>
            x \in Foreign \/ (\E h \in hooks' : Settled(h)' /\ h.target = x)
      BY <2>1, <2>2, <2>4, <2>5 DEF HooksInv
    <3> QED
      BY <2>1, <2>2, <2>4, <3>1, <3>2, <3>3, <3>4 DEF HooksInv
  <2>7. AtWork'
    BY <2>1, <2>2, <2>3 DEF AtWork
  <2> QED
    BY <2>6, <2>7
<1> QED
  BY <1>1, <1>2, <1>3

-----------------------------------------------------------------------------
(***************************************************************************)
(* The types.                                                              *)
(***************************************************************************)
CallRecords ==
  [step : InFlight \cup {"none"}, method : Methods \cup {NoMethod},
   slot : Slots \cup {NoSlot}, hook : HookIds \cup {NoHook},
   original : Blocks \cup {NoBlock}, event : HookIds \cup {NoHook, NotLogged},
   calm : BOOLEAN, installs : BOOLEAN]

GuiRecords ==
  [step : {"rest", "fill", "activate", "unpatch", "clear", "append"},
   slot : Slots \cup {NoSlot}, hook : HookIds \cup {NoHook},
   target : Methods \cup {NoMethod}, original : Blocks \cup {NoBlock}]

SlotRecords == [active : BOOLEAN, hook : HookIds \cup {NoHook}, original : Blocks \cup {NoBlock}]

HookTypes ==
  /\ slots \in [Slots -> SlotRecords]
  /\ patch \in [Methods -> Slots \cup {NoSlot}]
  /\ trampoline \in [Blocks -> Methods \cup {NoMethod}]
  /\ registered \in SUBSET Methods
  /\ hooks \in SUBSET HookRecords
  /\ Cardinality(hooks) <= MaxHooks
  /\ nextHookId \in 1..(MaxHookIds + 1)
  /\ gui \in GuiRecords

LogTypes ==
  /\ pending \in Seq(Events) /\ batch \in Seq(Events) /\ lines \in Seq(Events)
  /\ Len(pending) <= MaxLines /\ Len(batch) <= MaxLines /\ Len(lines) <= MaxLines
  /\ nextEvent \in 1..(MaxEvents + 1)

LEMMA TypeParts == TypeOK <=> HookTypes /\ calls \in [GameThreads -> CallRecords] /\ LogTypes
BY DEF TypeOK, HookTypes, LogTypes, SlotRecords, GuiRecords, CallRecords, HookRecords

LEMMA TypePartsNext ==
  HookTypes' /\ calls' \in [GameThreads -> CallRecords] /\ LogTypes' => TypeOK'
BY DEF TypeOK, HookTypes, LogTypes, SlotRecords, GuiRecords, CallRecords, HookRecords

LEMMA SlotSwitched ==
  ASSUME NEW r \in SlotRecords, NEW v \in BOOLEAN
  PROVE  [r EXCEPT !.active = v] \in SlotRecords
BY DEF SlotRecords

LEMMA HookTypesStep ==
  ASSUME TypeOK, HooksInv, AtWork,
         \/ \E m \in Methods : ToggleAdd(m)
         \/ FillSlot \/ ActivateSlot \/ (\E h \in hooks : RemoveHook(h)) \/ Unpatch \/ ClearSlot
  PROVE  HookTypes'
<1>0. /\ HookTypes /\ NoHook \notin HookIds
      /\ MaxHooks \in Nat /\ MaxHookIds \in Nat
  BY TypeParts, CallLogAssumption DEF HookIds, NoHook
<1>1. ASSUME NEW m \in Methods, ToggleAdd(m)
      PROVE  HookTypes'
  <2>1. CASE UNCHANGED <<registered, patch, trampoline, gui, calls>>
    BY <1>0, <1>1, <2>1 DEF ToggleAdd, HookTypes, HookIds
  <2>2. ASSUME NEW s \in FindFreeSlot, NEW b \in {b \in Blocks : trampoline[b] = NoMethod},
               registered' = registered \cup {m},
               patch' = [patch EXCEPT ![m] = DetourForSlot(s)],
               trampoline' = [trampoline EXCEPT ![b] = m],
               gui' = [step |-> "fill", slot |-> s, hook |-> nextHookId, target |-> m, original |-> b]
        PROVE  HookTypes'
    <3>1. nextHookId \in HookIds /\ nextHookId' \in 1..(MaxHookIds + 1) /\ UNCHANGED <<slots, hooks>>
      BY <1>0, <1>1 DEF ToggleAdd, HookTypes, HookIds
    <3>2. s \in Slots
      BY DEF FindFreeSlot, FreeSlots
    <3>3. gui' \in GuiRecords
      BY <2>2, <3>1, <3>2 DEF GuiRecords
    <3> QED
      BY <1>0, <2>2, <3>1, <3>2, <3>3 DEF HookTypes, DetourForSlot
  <2> QED
    BY <1>1, <2>1, <2>2 DEF ToggleAdd
<1>2. CASE FillSlot
  <2>1. gui.slot \in Slots /\ gui.hook \in HookIds /\ gui.original \in Blocks
    BY <1>2 DEF FillSlot, AtWork, AtRest
  <2>2. slots' \in [Slots -> SlotRecords] /\ gui' \in GuiRecords
    BY <1>0, <1>2, <2>1 DEF FillSlot, FilledHookId, HookTypes, SlotRecords, GuiRecords
  <2> QED
    BY <1>0, <1>2, <2>2 DEF FillSlot, HookTypes
<1>3. CASE ActivateSlot
  <2>1. /\ gui.slot \in Slots /\ gui.hook \in HookIds /\ gui.target \in Methods
        /\ Cardinality(hooks) < MaxHooks /\ IsFiniteSet(hooks)
        /\ hooks' = hooks \cup {[id |-> gui.hook, target |-> gui.target]}
    BY <1>3 DEF ActivateSlot, AtWork, AtRest, Installing, HooksInv
  <2>2. Cardinality(hooks') <= MaxHooks
    <3>1. Cardinality(hooks) \in Nat
      BY <2>1, FS_CardinalityType
    <3>2. Cardinality(hooks') \in {Cardinality(hooks), Cardinality(hooks) + 1}
      BY <2>1, FS_AddElement
    <3> QED
      BY <1>0, <2>1, <3>1, <3>2
  <2>3. slots' \in [Slots -> SlotRecords] /\ gui' \in GuiRecords /\ hooks' \subseteq HookRecords
    <3>1. slots' \in [Slots -> SlotRecords]
      BY <1>0, <1>3, <2>1, SlotSwitched DEF ActivateSlot, HookTypes
    <3>2. gui' \in GuiRecords
      BY <1>3 DEF ActivateSlot, Resting, GuiRecords
    <3>3. hooks' \subseteq HookRecords
      BY <1>0, <2>1 DEF HookTypes, HookRecords
    <3> QED
      BY <3>1, <3>2, <3>3
  <2> QED
    BY <1>0, <1>3, <2>2, <2>3 DEF ActivateSlot, HookTypes
<1>4. ASSUME NEW h \in hooks, RemoveHook(h)
      PROVE  HookTypes'
  <2>1. PICK s \in Slots :
          /\ slots' = [slots EXCEPT ![s].active = FALSE]
          /\ gui' = [step |-> "unpatch", slot |-> s, hook |-> h.id, target |-> h.target,
                     original |-> slots[s].original]
    BY <1>4 DEF RemoveHook, FindSlotByHookId
  <2>2. UNCHANGED <<patch, trampoline, registered, hooks, nextHookId>>
    BY <1>4 DEF RemoveHook
  <2>3. slots' \in [Slots -> SlotRecords] /\ gui' \in GuiRecords
    <3>1. slots' \in [Slots -> SlotRecords]
      BY <1>0, <2>1, SlotSwitched DEF HookTypes
    <3>2. gui' \in GuiRecords
      BY <2>1, Fields DEF GuiRecords
    <3> QED
      BY <3>1, <3>2
  <2> QED
    BY <1>0, <2>2, <2>3 DEF HookTypes
<1>5. CASE Unpatch
  <2>1. gui' \in GuiRecords
    BY <1>0, <1>5 DEF Unpatch, HookTypes, GuiRecords
  <2> QED
    BY <1>0, <1>5, <2>1 DEF Unpatch, UnregisterHookTarget, HookTypes
<1>6. CASE ClearSlot
  <2>1. gui' \in GuiRecords /\ slots' \in [Slots -> SlotRecords]
    BY <1>0, <1>6 DEF ClearSlot, Resting, Free, HookTypes, GuiRecords, SlotRecords
  <2>2. hooks' \subseteq hooks /\ Cardinality(hooks') <= Cardinality(hooks)
    BY <1>6, FS_Subset DEF ClearSlot, HooksInv
  <2>3. Cardinality(hooks') <= MaxHooks
    <3>1. Cardinality(hooks) \in Nat /\ Cardinality(hooks') \in Nat
      BY <2>2, FS_Subset, FS_CardinalityType DEF HooksInv
    <3> QED
      BY <1>0, <2>2, <3>1 DEF HookTypes
  <2> QED
    BY <1>0, <1>6, <2>1, <2>2, <2>3 DEF ClearSlot, HookTypes
<1> QED
  BY <1>1, <1>2, <1>3, <1>4, <1>5, <1>6

-----------------------------------------------------------------------------
(***************************************************************************)
(* The calls.                                                              *)
(***************************************************************************)
CallsInv == CallsShape /\ CalmCalls /\ OwnHookOnly

\* Call t is where it was.
SamePlace(t) ==
  /\ calls'[t].step = calls[t].step /\ calls'[t].method = calls[t].method
  /\ calls'[t].slot = calls[t].slot /\ calls'[t].hook = calls[t].hook
  /\ calls'[t].original = calls[t].original /\ calls'[t].event = calls[t].event

\* The fields of a call.
LEMMA CallFields ==
  ASSUME calls \in [GameThreads -> CallRecords]
  PROVE  \A t \in GameThreads :
           /\ calls[t] \in CallRecords
           /\ calls[t].step \in {"none", "enter", "test", "read", "push", "forward"}
           /\ calls[t].method \in Methods \cup {NoMethod} /\ calls[t].slot \in Slots \cup {NoSlot}
           /\ calls[t].hook \in HookIds \cup {NoHook} /\ calls[t].original \in Blocks \cup {NoBlock}
           /\ calls[t].event \in HookIds \cup {NoHook, NotLogged}
           /\ calls[t].calm \in BOOLEAN /\ calls[t].installs \in BOOLEAN
BY DEF CallRecords, InFlight

\* Disturbing a slot leaves every call where it is.
LEMMA Disturbed ==
  ASSUME calls \in [GameThreads -> CallRecords], NEW s, calls' = Disturb(s)
  PROVE  /\ calls' \in [GameThreads -> CallRecords]
         /\ \A t \in GameThreads :
              /\ SamePlace(t)
              /\ calls'[t].installs = calls[t].installs
              /\ calls'[t].calm => calls[t].calm /\ calls[t].slot # s
<1> SUFFICES ASSUME NEW t \in GameThreads
             PROVE  /\ Disturb(s)[t] \in CallRecords /\ SamePlace(t)
                    /\ calls'[t].installs = calls[t].installs
                    /\ calls'[t].calm => calls[t].calm /\ calls[t].slot # s
  BY DEF Disturb
<1>1. calls'[t] = IF calls[t].slot = s THEN [calls[t] EXCEPT !.calm = FALSE] ELSE calls[t]
  BY DEF Disturb
<1>2. calls[t] \in CallRecords
  OBVIOUS
<1>3. CASE calls[t].slot = s
  <2>1. calls'[t] = [calls[t] EXCEPT !.calm = FALSE]
    BY <1>1, <1>3
  <2>2. calls'[t] \in CallRecords /\ calls'[t].calm = FALSE /\ calls'[t].installs = calls[t].installs
    BY <1>2, <2>1 DEF CallRecords
  <2>3. SamePlace(t)
    BY <1>2, <2>1 DEF CallRecords, SamePlace
  <2> QED
    BY <2>2, <2>3
<1>4. CASE calls[t].slot # s
  BY <1>1, <1>2, <1>4 DEF SamePlace
<1> QED
  BY <1>3, <1>4

\* Of the hooks that a calm call may have come through, none is being worked on.
LEMMA CalmIsSettled ==
  ASSUME HooksInv, CallsShape, CalmCalls, NEW t \in GameThreads, calls[t].step # "none", calls[t].calm
  PROVE  slots[calls[t].slot].original \in Blocks \ {gui.original}
<1>1. calls[t].slot \in Slots /\ slots[calls[t].slot].active
  BY DEF CallsShape, CalmCalls
<1>2. PICK h \in hooks : Settled(h) /\ patch[h.target] = calls[t].slot
  BY <1>1 DEF HooksInv
<1> QED
  BY <1>2 DEF HooksInv, HookIsComplete

LEMMA CallsInstall ==
  ASSUME TypeOK, HooksInv, AtWork, CallsInv,
         (\E m \in Methods : ToggleAdd(m)) \/ FillSlot \/ ActivateSlot
  PROVE  calls' \in [GameThreads -> CallRecords] /\ CallsInv'
<1>0. /\ calls \in [GameThreads -> CallRecords] /\ CallsShape /\ CalmCalls /\ OwnHookOnly
      /\ NoSlot \notin Slots /\ NoMethod \notin Methods /\ NoBlock \notin Blocks
  BY TypeParts, CallLogAssumption DEF CallsInv, Slots, NoSlot
<1>1. ASSUME NEW m \in Methods, ToggleAdd(m)
      PROVE  calls' \in [GameThreads -> CallRecords] /\ CallsInv'
  <2>1. CASE UNCHANGED <<registered, patch, trampoline, gui, calls>>
    BY <1>0, <1>1, <2>1 DEF ToggleAdd, CallsInv, CallsShape, CalmCalls, OwnHookOnly, Installing
  <2>2. ASSUME NEW s \in FindFreeSlot, NEW b \in {b \in Blocks : trampoline[b] = NoMethod},
               trampoline' = [trampoline EXCEPT ![b] = m],
               gui' = [step |-> "fill", slot |-> s, hook |-> nextHookId, target |-> m, original |-> b],
               calls' = [t \in GameThreads |-> [Disturb(s)[t] EXCEPT !.installs = calls[t].step \in InFlight]]
        PROVE  calls' \in [GameThreads -> CallRecords] /\ CallsInv'
    <3>1. gui'.slot = s /\ UNCHANGED slots
      BY <1>1, <2>2 DEF ToggleAdd
    <3>2. ASSUME NEW t \in GameThreads
          PROVE  /\ calls'[t] \in CallRecords /\ SamePlace(t)
                 /\ calls[t].step \in InFlight => calls'[t].installs
                 /\ calls'[t].calm => calls[t].calm /\ calls[t].slot # s
      <4>1. Disturb(s)[t] = IF calls[t].slot = s THEN [calls[t] EXCEPT !.calm = FALSE] ELSE calls[t]
        BY DEF Disturb
      <4>2. PICK d : d = Disturb(s)[t]
        OBVIOUS
      <4>3. /\ d \in CallRecords /\ d.step = calls[t].step /\ d.method = calls[t].method
            /\ d.slot = calls[t].slot /\ d.hook = calls[t].hook
            /\ d.original = calls[t].original /\ d.event = calls[t].event
        <5>1. calls[t] \in CallRecords
          BY <1>0
        <5>2. d = calls[t] \/ d = [calls[t] EXCEPT !.calm = FALSE]
          BY <4>1, <4>2
        <5> QED
          BY <5>1, <5>2 DEF CallRecords
      <4>4. d.calm => calls[t].calm /\ calls[t].slot # s
        BY <1>0, <4>1, <4>2 DEF CallRecords
      <4>5. PICK v \in BOOLEAN : v <=> calls[t].step \in InFlight
        BY Zenon
      <4>6. calls'[t] = [d EXCEPT !.installs = v]
        <5>1. v = (calls[t].step \in InFlight)
          BY <4>5
        <5> QED
          BY <2>2, <4>2, <5>1
      <4>7. calls'[t] \in CallRecords /\ calls'[t].calm = d.calm /\ calls'[t].installs = v
        BY <4>3, <4>6 DEF CallRecords
      <4>8. SamePlace(t)
        BY <4>3, <4>6 DEF CallRecords, SamePlace
      <4> QED
        BY <4>4, <4>5, <4>7, <4>8
    <3>3. calls' \in [GameThreads -> CallRecords]
      BY <2>2, <3>2
    <3>4. CallsShape'
      BY <1>0, <3>2 DEF CallsShape, SamePlace
    <3>5. OwnHookOnly'
      <4>1. \A t \in GameThreads : calls'[t].step # "none" => calls'[t].installs
        BY <1>0, <3>2, CallFields DEF SamePlace, InFlight
      <4> QED
        BY <4>1 DEF OwnHookOnly
    <3>6. CalmCalls'
      <4> SUFFICES ASSUME NEW t \in GameThreads, calls'[t].step # "none", calls'[t].calm
                   PROVE  /\ calls'[t].slot # gui'.slot
                          /\ slots'[calls'[t].slot].active
                          /\ slots'[calls'[t].slot].hook = calls'[t].hook
                          /\ slots'[calls'[t].slot].original \in Blocks
                          /\ trampoline'[slots'[calls'[t].slot].original] = calls'[t].method
                          /\ calls'[t].step \in Later => calls'[t].original = slots'[calls'[t].slot].original
                          /\ calls'[t].step \in {"push", "forward"} => calls'[t].event = calls'[t].hook
        BY DEF CalmCalls
      <4>1. SamePlace(t) /\ calls[t].step # "none" /\ calls[t].calm /\ calls[t].slot # s
        BY <3>2 DEF SamePlace
      <4>2. slots[calls[t].slot].original # b /\ slots[calls[t].slot].original \in Blocks
        BY <1>0, <4>1 DEF CalmCalls, CallsShape
      <4>3. trampoline'[slots[calls[t].slot].original] = trampoline[slots[calls[t].slot].original]
        BY <2>2, <4>2 DEF TypeOK
      <4> QED
        BY <1>0, <3>1, <4>1, <4>2, <4>3 DEF CalmCalls, SamePlace
    <3> QED
      BY <3>3, <3>4, <3>5, <3>6 DEF CallsInv
  <2> QED
    BY <1>1, <2>1, <2>2 DEF ToggleAdd
<1>2. CASE FillSlot
  <2>1. /\ calls' \in [GameThreads -> CallRecords]
        /\ \A t \in GameThreads :
             /\ SamePlace(t) /\ calls'[t].installs = calls[t].installs
             /\ calls'[t].calm => calls[t].calm /\ calls[t].slot # gui.slot
    BY <1>0, <1>2, Disturbed DEF FillSlot
  <2>2. /\ gui.step = "fill" /\ gui'.step = "activate" /\ gui'.slot = gui.slot
        /\ gui'.hook = gui.hook /\ gui'.target = gui.target
        /\ slots' = [slots EXCEPT ![gui.slot] = [active |-> FALSE, hook |-> gui.hook, original |-> gui.original]]
        /\ UNCHANGED trampoline
    BY <1>2 DEF FillSlot, FilledHookId, TypeOK
  <2>3. /\ gui.slot \in Slots /\ trampoline[gui.original] = gui.target /\ Installing /\ Installing'
        /\ slots'[gui.slot].hook = gui.hook /\ slots'[gui.slot].original = gui.original
        /\ \A s \in Slots : s # gui.slot => slots'[s] = slots[s]
    BY <2>2 DEF AtWork, AtRest, Installing, TypeOK
  <2>4. CallsShape'
    BY <1>0, <2>1 DEF CallsShape, SamePlace
  <2>5. CalmCalls'
    BY <1>0, <2>1, <2>2, <2>3 DEF CalmCalls, CallsShape, SamePlace
  <2>6. OwnHookOnly'
    BY <1>0, <2>1, <2>2, <2>3 DEF OwnHookOnly, CallsShape, SamePlace
  <2> QED
    BY <2>1, <2>4, <2>5, <2>6 DEF CallsInv
<1>3. CASE ActivateSlot
  <2>1. /\ calls' \in [GameThreads -> CallRecords]
        /\ \A t \in GameThreads :
             /\ SamePlace(t) /\ calls'[t].installs = calls[t].installs
             /\ calls'[t].calm => calls[t].calm /\ calls[t].slot # gui.slot
    BY <1>0, <1>3, Disturbed DEF ActivateSlot
  <2>2. /\ gui'.step = "rest" /\ gui'.slot = NoSlot
        /\ slots' = [slots EXCEPT ![gui.slot].active = TRUE]
        /\ UNCHANGED trampoline
    BY <1>3 DEF ActivateSlot, Resting
  <2>3. /\ ~Installing'
        /\ \A s \in Slots : /\ slots'[s].hook = slots[s].hook
                            /\ slots'[s].original = slots[s].original
                            /\ slots[s].active => slots'[s].active
    BY <2>2 DEF Installing, TypeOK
  <2>4. CallsShape'
    BY <1>0, <2>1 DEF CallsShape, SamePlace
  <2>5. CalmCalls'
    BY <1>0, <2>1, <2>2, <2>3 DEF CalmCalls, CallsShape, SamePlace
  <2>6. OwnHookOnly'
    BY <1>0, <2>1, <2>2, <2>3 DEF OwnHookOnly, CallsShape, SamePlace
  <2> QED
    BY <2>1, <2>4, <2>5, <2>6 DEF CallsInv
<1> QED
  BY <1>1, <1>2, <1>3

LEMMA CallsRemove ==
  ASSUME TypeOK, HooksInv, AtWork, CallsInv,
         (\E h \in hooks : RemoveHook(h)) \/ Unpatch \/ ClearSlot
  PROVE  calls' \in [GameThreads -> CallRecords] /\ CallsInv'
<1>0. /\ calls \in [GameThreads -> CallRecords] /\ CallsShape /\ CalmCalls /\ OwnHookOnly
      /\ NoSlot \notin Slots /\ NoMethod \notin Methods /\ NoBlock \notin Blocks
  BY TypeParts, CallLogAssumption DEF CallsInv, Slots, NoSlot
<1>1. ASSUME NEW h \in hooks, RemoveHook(h)
      PROVE  calls' \in [GameThreads -> CallRecords] /\ CallsInv'
  <2>1. PICK s \in Slots :
          /\ slots' = [slots EXCEPT ![s].active = FALSE]
          /\ gui' = [step |-> "unpatch", slot |-> s, hook |-> h.id, target |-> h.target,
                     original |-> slots[s].original]
          /\ calls' = Disturb(s)
    BY <1>1 DEF RemoveHook, FindSlotByHookId
  <2>2. /\ calls' \in [GameThreads -> CallRecords]
        /\ \A t \in GameThreads :
             /\ SamePlace(t) /\ calls'[t].installs = calls[t].installs
             /\ calls'[t].calm => calls[t].calm /\ calls[t].slot # s
    BY <1>0, <2>1, Disturbed
  <2>3. /\ ~Installing' /\ gui'.slot = s /\ UNCHANGED trampoline
        /\ \A x \in Slots : /\ slots'[x].hook = slots[x].hook
                            /\ slots'[x].original = slots[x].original
                            /\ x # s => slots'[x] = slots[x]
    BY <1>1, <2>1 DEF RemoveHook, Installing, TypeOK
  <2>4. CallsShape'
    BY <1>0, <2>2 DEF CallsShape, SamePlace
  <2>5. CalmCalls'
    BY <1>0, <2>2, <2>3 DEF CalmCalls, CallsShape, SamePlace
  <2>6. OwnHookOnly'
    BY <1>0, <2>2, <2>3 DEF OwnHookOnly, CallsShape, SamePlace
  <2> QED
    BY <2>2, <2>4, <2>5, <2>6 DEF CallsInv
<1>2. CASE Unpatch
  <2>1. /\ calls' \in [GameThreads -> CallRecords]
        /\ \A t \in GameThreads :
             /\ SamePlace(t) /\ calls'[t].installs = calls[t].installs
             /\ calls'[t].calm => calls[t].calm /\ calls[t].slot # gui.slot
    BY <1>0, <1>2, Disturbed DEF Unpatch
  <2>2. /\ gui'.step = "clear" /\ gui'.slot = gui.slot /\ gui.original \in Blocks
        /\ trampoline' = [trampoline EXCEPT ![gui.original] = NoMethod]
        /\ UNCHANGED slots /\ ~Installing'
    BY <1>2 DEF Unpatch, AtWork, AtRest, Installing, TypeOK
  <2>3. /\ \A b \in Blocks : b # gui.original => trampoline'[b] = trampoline[b]
        /\ \A b \in Blocks : trampoline'[b] \in {trampoline[b], NoMethod}
    BY <2>2 DEF TypeOK
  <2>4. CallsShape'
    BY <1>0, <2>1 DEF CallsShape, SamePlace
  <2>5. CalmCalls'
    BY <1>0, <2>1, <2>2, <2>3, CalmIsSettled DEF CalmCalls, SamePlace
  <2>6. OwnHookOnly'
    <3>1. \A t \in GameThreads : calls'[t].step # "none" /\ ~calls'[t].installs =>
            /\ calls[t].step # "none" /\ ~calls[t].installs /\ SamePlace(t)
            /\ calls[t].step \in Later => calls[t].original \in Blocks
      BY <1>0, <2>1 DEF CallsShape, SamePlace
    <3> QED
      BY <1>0, <2>2, <2>3, <3>1 DEF OwnHookOnly, SamePlace
  <2> QED
    BY <2>1, <2>4, <2>5, <2>6 DEF CallsInv
<1>3. CASE ClearSlot
  <2>1. /\ calls' \in [GameThreads -> CallRecords]
        /\ \A t \in GameThreads :
             /\ SamePlace(t) /\ calls'[t].installs = calls[t].installs
             /\ calls'[t].calm => calls[t].calm /\ calls[t].slot # gui.slot
    BY <1>0, <1>3, Disturbed DEF ClearSlot
  <2>2. /\ gui'.step = "rest" /\ gui'.slot = NoSlot /\ gui.slot \in Slots
        /\ slots' = [slots EXCEPT ![gui.slot] = Free]
        /\ UNCHANGED trampoline /\ ~Installing'
    BY <1>3 DEF ClearSlot, Resting, AtWork, AtRest, Installing
  <2>3. /\ slots'[gui.slot].hook = NoHook /\ slots'[gui.slot].original = NoBlock
        /\ \A s \in Slots : s # gui.slot => slots'[s] = slots[s]
    BY <2>2 DEF TypeOK, Free
  <2>4. CallsShape'
    BY <1>0, <2>1 DEF CallsShape, SamePlace
  <2>5. CalmCalls'
    BY <1>0, <2>1, <2>2, <2>3 DEF CalmCalls, CallsShape, SamePlace
  <2>6. OwnHookOnly'
    BY <1>0, <2>1, <2>2, <2>3 DEF OwnHookOnly, CallsShape, SamePlace
  <2> QED
    BY <2>1, <2>4, <2>5, <2>6 DEF CallsInv
<1> QED
  BY <1>1, <1>2, <1>3

\* One call in the detour, as CallsInv has it.
CallIsSound(c) ==
  /\ c.step = "none" => c.slot = NoSlot
  /\ c.step # "none" => c.method \in Methods /\ c.slot \in Slots /\ c.hook \in HookIds
  /\ c.step \in Later => c.original \in Blocks
  /\ c.step # "none" /\ c.calm =>
       /\ c.slot # gui.slot
       /\ slots[c.slot].active
       /\ slots[c.slot].hook = c.hook
       /\ slots[c.slot].original \in Blocks
       /\ trampoline[slots[c.slot].original] = c.method
       /\ c.step \in Later => c.original = slots[c.slot].original
       /\ c.step \in {"push", "forward"} => c.event = c.hook
  /\ c.step # "none" /\ ~c.installs =>
       /\ slots[c.slot].hook \in {c.hook, NoHook}
       /\ slots[c.slot].original \in Blocks =>
            trampoline[slots[c.slot].original] \in {c.method, NoMethod}
       /\ c.step \in Later => trampoline[c.original] \in {c.method, NoMethod}
       /\ c.event \in {c.hook, NoHook, NotLogged}
       /\ Installing /\ gui.slot = c.slot => gui.hook = c.hook /\ gui.target = c.method

LEMMA CallByCall == CallsInv <=> \A t \in GameThreads : CallIsSound(calls[t])
BY DEF CallsInv, CallsShape, CalmCalls, OwnHookOnly, CallIsSound

\* A step of one thread, which touches no hook.
LEMMA OneCall ==
  ASSUME calls \in [GameThreads -> CallRecords], CallsInv, UNCHANGED hookVars,
         NEW t \in GameThreads, NEW c \in CallRecords, CallIsSound(c),
         calls' = [calls EXCEPT ![t] = c]
  PROVE  calls' \in [GameThreads -> CallRecords] /\ CallsInv'
<1>1. calls' \in [GameThreads -> CallRecords]
  OBVIOUS
<1>2. ASSUME NEW u \in GameThreads
      PROVE  CallIsSound(calls'[u])
  <2>1. \A x \in GameThreads : CallIsSound(calls[x])
    BY CallByCall
  <2> QED
    BY <2>1
<1>3. slots' = slots /\ gui' = gui /\ trampoline' = trampoline /\ Installing' = Installing
  BY DEF hookVars, Installing
<1>4. CallsShape'
  BY <1>2 DEF CallsShape, CallIsSound
<1>5. CalmCalls'
  BY <1>2, <1>3 DEF CalmCalls, CallIsSound
<1>6. OwnHookOnly'
  BY <1>2, <1>3 DEF OwnHookOnly, CallIsSound
<1> QED
  BY <1>1, <1>4, <1>5, <1>6 DEF CallsInv

\* Neither does a step of the log, nor a call.
LEMMA CallsStay ==
  ASSUME CallsInv, AtWork, UNCHANGED <<slots, trampoline, calls>>,
         gui' = gui \/ (AtRest /\ AtRest' /\ gui'.slot = gui.slot)
  PROVE  CallsInv'
<1>1. gui'.slot = gui.slot /\ (Installing' <=> Installing) /\ (Installing => gui' = gui)
  BY DEF AtRest, Installing
<1> QED
  BY <1>1 DEF CallsInv, CallsShape, CalmCalls, OwnHookOnly

\* A method that is patched is so by the hook HookOf names.
LEMMA PatchedBy ==
  ASSUME TypeOK, HooksInv, AtWork, NEW m \in Methods, patch[m] # NoSlot
  PROVE  \/ \E h \in hooks : Settled(h) /\ h.target = m /\ HookOf(m) = h.id
         \/ gui.target = m /\ HookOf(m) = gui.hook /\ (Installing \/ gui.step = "unpatch")
<1>1. CASE gui.target = m /\ (Installing \/ gui.step = "unpatch")
  BY <1>1 DEF HookOf
<1>2. ASSUME NEW h \in hooks, Settled(h), h.target = m
      PROVE  \E k \in hooks : Settled(k) /\ k.target = m /\ HookOf(m) = k.id
  <2>1. gui.target # m
    <3>1. CASE AtRest
      BY <3>1, CallLogAssumption DEF AtWork
    <3>2. CASE Installing
      BY <1>2, <3>2 DEF AtWork
    <3>3. CASE Removing
      <4>1. PICK k : k = [id |-> gui.hook, target |-> gui.target]
        OBVIOUS
      <4>2. k \in hooks /\ k.id = gui.hook /\ k.target = gui.target
        BY <3>3, <4>1 DEF AtWork
      <4> QED
        BY <1>2, <3>3, <4>2 DEF HooksInv, Settled
    <3> QED
      BY <3>1, <3>2, <3>3, Fields DEF AtRest, Installing, Removing
  <2>2. (CHOOSE k \in hooks : k.target = m) = h
    BY <1>2 DEF HooksInv
  <2> QED
    BY <1>2, <2>1, <2>2 DEF HookOf
<1> QED
  BY <1>1, <1>2 DEF HooksInv

LEMMA CallEnters ==
  ASSUME TypeOK, HooksInv, AtWork, CallsInv,
         NEW t \in GameThreads, NEW m \in Methods, Enter(t, m)
  PROVE  calls' \in [GameThreads -> CallRecords] /\ CallsInv'
<1>0. /\ calls \in [GameThreads -> CallRecords]
      /\ NoSlot \notin Slots /\ NoMethod \notin Methods /\ NoBlock \notin Blocks
      /\ patch[m] \in Slots /\ Slots \subseteq Int
  BY TypeParts, CallLogAssumption DEF Slots, NoSlot, Enter, HookTypes
<1>1. PICK v \in BOOLEAN : v <=> gui.slot # patch[m]
  BY Zenon
<1>2. PICK c : c = [NoCall EXCEPT !.step = "enter", !.method = m, !.slot = patch[m],
                                  !.hook = HookOf(m), !.calm = v]
  OBVIOUS
<1>3. calls' = [calls EXCEPT ![t] = c] /\ UNCHANGED hookVars
  <2>1. v = (gui.slot # patch[m])
    BY <1>1
  <2> QED
    BY <1>2, <2>1 DEF Enter
<1>4. /\ c.step = "enter" /\ c.method = m /\ c.slot = patch[m] /\ c.hook = HookOf(m)
      /\ c.original = NoBlock /\ c.event = NotLogged /\ c.calm = v /\ c.installs = FALSE
  BY <1>2 DEF NoCall
<1>5. HookOf(m) \in HookIds
  BY PatchedBy, Fields DEF Enter, AtWork, AtRest, Installing
<1>6. c \in CallRecords
  BY <1>0, <1>2, <1>5 DEF CallRecords, NoCall, InFlight
<1>7. CallIsSound(c)
  <2>1. ASSUME NEW h \in hooks, Settled(h), h.target = m, HookOf(m) = h.id
        PROVE  CallIsSound(c)
    <3>1. HookIsComplete(h)
      BY <2>1 DEF HooksInv
    <3> QED
      BY <1>0, <1>4, <1>5, <2>1, <3>1 DEF CallIsSound, HookIsComplete, Later
  <2>2. CASE gui.target = m /\ HookOf(m) = gui.hook /\ (Installing \/ gui.step = "unpatch")
    <3>1. patch[m] = gui.slot /\ trampoline[gui.original] = m /\ ~c.calm
      BY <1>1, <1>4, <2>2 DEF AtWork
    <3>2. \/ slots[gui.slot].hook = NoHook /\ slots[gui.slot].original = NoBlock
          \/ slots[gui.slot].hook = gui.hook /\ slots[gui.slot].original = gui.original
      BY <2>2 DEF AtWork, Installing
    <3> QED
      BY <1>0, <1>4, <1>5, <2>2, <3>1, <3>2 DEF CallIsSound, Later
  <2> QED
    BY <2>1, <2>2, PatchedBy DEF Enter
<1> QED
  BY <1>0, <1>3, <1>6, <1>7, OneCall

LEMMA CallGoesOn ==
  ASSUME TypeOK, HooksInv, AtWork, CallsInv, NEW t \in GameThreads,
         ReadOriginal(t) \/ TestActive(t) \/ ReadSlot(t) \/ PushEvent(t) \/ Forward(t)
  PROVE  calls' \in [GameThreads -> CallRecords] /\ CallsInv'
<1>0. /\ calls \in [GameThreads -> CallRecords]
      /\ NoSlot \notin Slots /\ NoMethod \notin Methods /\ NoBlock \notin Blocks
  BY TypeParts, CallLogAssumption DEF Slots, NoSlot
<1>1. PICK d : d = calls[t]
  OBVIOUS
<1>2. d \in CallRecords /\ CallIsSound(d)
  BY <1>0, <1>1, CallByCall
<1>3. ASSUME NEW c \in CallRecords, CallIsSound(c), calls' = [calls EXCEPT ![t] = c], UNCHANGED hookVars
      PROVE  calls' \in [GameThreads -> CallRecords] /\ CallsInv'
  BY <1>0, <1>3, OneCall
<1>4. NoCall \in CallRecords /\ CallIsSound(NoCall)
  BY DEF NoCall, CallRecords, CallIsSound, Later
<1>5. CASE ReadOriginal(t)
  <2>1. d.step = "enter" /\ UNCHANGED hookVars
    BY <1>1, <1>5 DEF ReadOriginal
  <2>2. CASE slots[d.slot].original = NoBlock
    <3>1. calls' = [calls EXCEPT ![t] = NoCall]
      BY <1>1, <1>5, <2>2 DEF ReadOriginal
    <3> QED
      BY <1>3, <1>4, <2>1, <3>1
  <2>3. CASE slots[d.slot].original # NoBlock
    <3>1. PICK c : c = [d EXCEPT !.step = "test", !.original = slots[d.slot].original]
      OBVIOUS
    <3>2. calls' = [calls EXCEPT ![t] = c]
      BY <1>0, <1>1, <1>5, <2>3, <3>1 DEF ReadOriginal
    <3>3. slots[d.slot].original \in Blocks
      BY <1>2, <2>1, <2>3, Fields DEF CallIsSound
    <3>4. c \in CallRecords
      BY <1>2, <3>1, <3>3 DEF CallRecords, InFlight
    <3>5. /\ c.step = "test" /\ c.original = slots[d.slot].original
          /\ c.method = d.method /\ c.slot = d.slot /\ c.hook = d.hook /\ c.event = d.event
          /\ c.calm = d.calm /\ c.installs = d.installs
      BY <1>2, <3>1 DEF CallRecords
    <3>6. CallIsSound(c)
      BY <1>2, <2>1, <3>3, <3>5 DEF CallIsSound
    <3> QED
      BY <1>3, <2>1, <3>2, <3>4, <3>6
  <2> QED
    BY <2>2, <2>3
<1>6. CASE TestActive(t)
  <2>1. PICK s \in {"read", "forward"} : s = IF slots[d.slot].active THEN "read" ELSE "forward"
    OBVIOUS
  <2>2. PICK c : c = [d EXCEPT !.step = s]
    OBVIOUS
  <2>3. d.step = "test" /\ UNCHANGED hookVars /\ calls' = [calls EXCEPT ![t] = c]
    BY <1>0, <1>1, <1>6, <2>1, <2>2 DEF TestActive
  <2>4. c \in CallRecords
    BY <1>2, <2>2 DEF CallRecords, InFlight
  <2>5. /\ c.step = s /\ c.original = d.original
        /\ c.method = d.method /\ c.slot = d.slot /\ c.hook = d.hook /\ c.event = d.event
        /\ c.calm = d.calm /\ c.installs = d.installs
    BY <1>2, <2>2 DEF CallRecords
  <2>6. CallIsSound(c)
    BY <1>2, <2>1, <2>3, <2>5 DEF CallIsSound, Later
  <2> QED
    BY <1>3, <2>3, <2>4, <2>6
<1>7. CASE ReadSlot(t)
  <2>1. PICK c : c = [d EXCEPT !.step = "push", !.event = slots[d.slot].hook]
    OBVIOUS
  <2>2. d.step = "read" /\ UNCHANGED hookVars /\ calls' = [calls EXCEPT ![t] = c]
    BY <1>0, <1>1, <1>7, <2>1 DEF ReadSlot
  <2>3. slots[d.slot].hook \in HookIds \cup {NoHook}
    BY <1>2, <2>2, Fields DEF CallIsSound
  <2>4. c \in CallRecords
    BY <1>2, <2>1, <2>3 DEF CallRecords, InFlight
  <2>5. /\ c.step = "push" /\ c.original = d.original
        /\ c.method = d.method /\ c.slot = d.slot /\ c.hook = d.hook /\ c.event = slots[d.slot].hook
        /\ c.calm = d.calm /\ c.installs = d.installs
    BY <1>2, <2>1 DEF CallRecords
  <2>6. CallIsSound(c)
    BY <1>2, <2>2, <2>5 DEF CallIsSound, Later
  <2> QED
    BY <1>3, <2>2, <2>4, <2>6
<1>8. CASE PushEvent(t)
  <2>1. PICK c : c = [d EXCEPT !.step = "forward"]
    OBVIOUS
  <2>2. d.step = "push" /\ UNCHANGED hookVars /\ calls' = [calls EXCEPT ![t] = c]
    BY <1>0, <1>1, <1>8, <2>1 DEF PushEvent
  <2>3. c \in CallRecords
    BY <1>2, <2>1 DEF CallRecords, InFlight
  <2>4. /\ c.step = "forward" /\ c.original = d.original
        /\ c.method = d.method /\ c.slot = d.slot /\ c.hook = d.hook /\ c.event = d.event
        /\ c.calm = d.calm /\ c.installs = d.installs
    BY <1>2, <2>1 DEF CallRecords
  <2>5. CallIsSound(c)
    BY <1>2, <2>2, <2>4 DEF CallIsSound, Later
  <2> QED
    BY <1>3, <2>2, <2>3, <2>5
<1>9. CASE Forward(t)
  BY <1>3, <1>4, <1>9 DEF Forward
<1> QED
  BY <1>5, <1>6, <1>7, <1>8, <1>9

-----------------------------------------------------------------------------
(***************************************************************************)
(* The log.                                                                *)
(***************************************************************************)

\* Trim keeps the end of a queue, and a queue it shortens is a full one.
LEMMA Trimmed ==
  ASSUME NEW q \in Seq(Events)
  PROVE  /\ Trim(q) \in Seq(Events)
         /\ Len(Trim(q)) = IF Len(q) > MaxLines THEN MaxLines ELSE Len(q)
         /\ \A i \in 1..Len(Trim(q)) : Trim(q)[i] = q[i + (Len(q) - Len(Trim(q)))]
<1>0. MaxLines \in Nat \ {0} /\ Len(q) \in Nat
  BY CallLogAssumption, LenProperties
<1>1. CASE Len(q) > MaxLines
  <2>1. \A i \in (Len(q) - MaxLines + 1)..Len(q) : q[i] \in Events
    BY <1>0, <1>1, ElementOfSeq
  <2>2. /\ SubSeq(q, Len(q) - MaxLines + 1, Len(q)) \in Seq(Events)
        /\ Len(SubSeq(q, Len(q) - MaxLines + 1, Len(q))) = MaxLines
        /\ \A i \in 1..MaxLines :
             SubSeq(q, Len(q) - MaxLines + 1, Len(q))[i] = q[Len(q) - MaxLines + i]
    <3>1. PICK a \in Int, z \in Int : a = Len(q) - MaxLines + 1 /\ z = Len(q)
      BY <1>0
    <3>2. /\ SubSeq(q, a, z) \in Seq(Events)
          /\ Len(SubSeq(q, a, z)) = IF a <= z THEN z - a + 1 ELSE 0
          /\ \A i \in 1..(z - a + 1) : SubSeq(q, a, z)[i] = q[a + i - 1]
      BY <2>1, <3>1, SubSeqProperties
    <3>3. a <= z /\ z - a + 1 = MaxLines /\ (\A i \in 1..MaxLines : a + i - 1 = Len(q) - MaxLines + i)
      BY <1>0, <1>1, <3>1
    <3> QED
      BY <3>1, <3>2, <3>3
  <2>3. Trim(q) = SubSeq(q, Len(q) - MaxLines + 1, Len(q))
    BY <1>1 DEF Trim
  <2>4. \A i \in 1..MaxLines : Len(q) - MaxLines + i = i + (Len(q) - MaxLines)
    BY <1>0
  <2> QED
    BY <1>1, <2>2, <2>3, <2>4
<1>2. CASE ~(Len(q) > MaxLines)
  BY <1>0, <1>2 DEF Trim
<1> QED
  BY <1>1, <1>2

LEMMA TrimmedInOrder ==
  ASSUME NEW q \in Seq(Events), Consecutive(q), q # <<>>
  PROVE  /\ Consecutive(Trim(q)) /\ Trim(q) # <<>>
         /\ Trim(q)[Len(Trim(q))] = q[Len(q)]
<1>0. MaxLines \in Nat \ {0} /\ Len(q) \in Nat \ {0}
  BY CallLogAssumption, EmptySeq
<1>1. PICK r \in Seq(Events), n \in Nat \ {0}, k \in Nat :
        /\ r = Trim(q) /\ n = Len(r) /\ k = Len(q) - n
  <2>1. Len(Trim(q)) \in Nat \ {0} /\ Len(q) - Len(Trim(q)) \in Nat
    BY <1>0, Trimmed
  <2> QED
    BY <2>1, Trimmed
<1>2. \A i \in 1..n : r[i] = q[i + k]
  BY <1>1, Trimmed
<1>3. r # <<>>
  BY <1>1
<1>4. r[n] = q[Len(q)]
  <2>1. n \in 1..n /\ n + k = Len(q)
    BY <1>0, <1>1
  <2> QED
    BY <1>2, <2>1
<1>5. Consecutive(r)
  <2> SUFFICES ASSUME NEW i \in 1..(n - 1)
               PROVE  r[i + 1] = r[i] + 1
    BY <1>1 DEF Consecutive
  <2>1. PICK j \in 1..(Len(q) - 1) : j = i + k
    <3>1. i + k \in 1..(Len(q) - 1)
      BY <1>0, <1>1
    <3> QED
      BY <3>1
  <2>2. q[j + 1] = q[j] + 1
    BY DEF Consecutive
  <2>3. i \in 1..n /\ i + 1 \in 1..n /\ (i + 1) + k = j + 1
    BY <1>1, <2>1
  <2>4. r[i] = q[j] /\ r[i + 1] = q[j + 1]
    BY <1>2, <2>1, <2>3
  <2> QED
    BY <2>2, <2>4
<1> QED
  BY <1>1, <1>3, <1>4, <1>5

\* What one queue is appended to another has no gap, once trimmed, if it
\* follows it.
LEMMA JoinedInOrder ==
  ASSUME NEW q \in Seq(Events), NEW r \in Seq(Events), Consecutive(q), Consecutive(r),
         r # <<>>, Len(r) <= MaxLines, Follows(q, r)
  PROVE  /\ Consecutive(Trim(q \o r)) /\ Trim(q \o r) # <<>>
         /\ Trim(q \o r)[Len(Trim(q \o r))] = r[Len(r)]
<1>0. MaxLines \in Nat \ {0} /\ Len(q) \in Nat /\ Len(r) \in Nat \ {0}
  BY CallLogAssumption, EmptySeq, LenProperties
<1>1. PICK b \in Seq(Events) : b = q \o r
  BY ConcatProperties
<1>2. /\ Len(b) = Len(q) + Len(r)
      /\ \A i \in 1..(Len(q) + Len(r)) : b[i] = IF i <= Len(q) THEN q[i] ELSE r[i - Len(q)]
  BY <1>1, ConcatProperties
<1>3. b # <<>> /\ b[Len(b)] = r[Len(r)]
  BY <1>0, <1>2
<1>4. CASE q = <<>> \/ r[1] = q[Len(q)] + 1
  <2>1. Consecutive(b)
    <3> SUFFICES ASSUME NEW i \in 1..(Len(b) - 1)
                 PROVE  b[i + 1] = b[i] + 1
      BY DEF Consecutive
    <3>1. CASE i < Len(q)
      <4>1. q[i + 1] = q[i] + 1
        BY <1>0, <3>1 DEF Consecutive
      <4> QED
        BY <1>0, <1>2, <3>1, <4>1
    <3>2. CASE i = Len(q)
      <4>1. r[1] = q[Len(q)] + 1
        BY <1>0, <1>4, <3>2
      <4> QED
        BY <1>0, <1>2, <3>2, <4>1
    <3>3. CASE i > Len(q)
      <4>1. PICK j \in 1..(Len(r) - 1) : j = i - Len(q)
        <5>1. i - Len(q) \in 1..(Len(r) - 1)
          BY <1>0, <1>2, <3>3
        <5> QED
          BY <5>1
      <4>2. r[j + 1] = r[j] + 1
        BY DEF Consecutive
      <4>3. b[i] = r[j] /\ b[i + 1] = r[j + 1]
        BY <1>0, <1>2, <3>3, <4>1
      <4> QED
        BY <4>2, <4>3
    <3> QED
      BY <1>0, <3>1, <3>2, <3>3
  <2> QED
    BY <1>1, <1>3, <2>1, TrimmedInOrder
<1>5. CASE q # <<>> /\ Len(r) = MaxLines
  <2>1. PICK c \in Seq(Events) : c = Trim(b)
    BY Trimmed
  <2>2. Len(b) > MaxLines /\ Len(b) - MaxLines = Len(q)
    <3>1. Len(q) # 0
      BY <1>5, EmptySeq
    <3> QED
      BY <1>0, <1>2, <1>5, <3>1
  <2>3. Len(c) = Len(r) /\ (\A i \in 1..Len(r) : c[i] = b[i + Len(q)])
    BY <1>5, <2>1, <2>2, Trimmed
  <2>4. \A i \in 1..Len(r) : c[i] = r[i]
    <3> SUFFICES ASSUME NEW i \in 1..Len(r)
                 PROVE  c[i] = r[i]
      OBVIOUS
    <3>1. PICK k : k = i + Len(q)
      OBVIOUS
    <3>2. k \in 1..(Len(q) + Len(r)) /\ ~(k <= Len(q)) /\ k - Len(q) = i
      BY <1>0, <3>1
    <3> QED
      BY <1>2, <2>3, <3>1, <3>2
  <2>5. Consecutive(c)
    BY <1>0, <2>3, <2>4 DEF Consecutive
  <2>6. c # <<>> /\ c[Len(c)] = r[Len(r)]
    BY <1>0, <2>3, <2>4
  <2> QED
    BY <1>1, <2>1, <2>5, <2>6
<1> QED
  BY <1>4, <1>5 DEF Follows

LEMMA LogPushed ==
  ASSUME TypeOK, LogInv, NEW t \in GameThreads, PushEvent(t)
  PROVE  LogTypes' /\ LogInv'
<1>0. /\ LogTypes /\ MaxLines \in Nat \ {0} /\ MaxEvents \in Nat /\ nextEvent \in Nat \ {0}
      /\ Len(pending) \in Nat
  BY TypeParts, CallLogAssumption, LenProperties DEF LogTypes
<1>1. /\ nextEvent \in Events /\ nextEvent' = nextEvent + 1
      /\ pending' = Trim(Append(pending, nextEvent))
      /\ UNCHANGED <<batch, lines, gui>>
  BY <1>0 DEF PushEvent, Events, hookVars
<1>2. PICK a \in Seq(Events) : a = Append(pending, nextEvent)
  BY <1>0, <1>1, AppendProperties DEF LogTypes
<1>3. /\ a # <<>> /\ Len(a) = Len(pending) + 1 /\ a[Len(a)] = nextEvent
      /\ \A i \in 1..Len(pending) : a[i] = pending[i]
  BY <1>0, <1>1, <1>2, AppendProperties DEF LogTypes
<1>4. Consecutive(a)
  <2> SUFFICES ASSUME NEW i \in 1..(Len(a) - 1)
               PROVE  a[i + 1] = a[i] + 1
    BY DEF Consecutive
  <2>1. CASE i < Len(pending)
    BY <1>0, <1>3, <2>1 DEF LogInv, Consecutive
  <2>2. CASE i = Len(pending)
    <3>1. pending[Len(pending)] = nextEvent - 1
      BY <1>0, <2>2 DEF LogInv, EndsNow
    <3> QED
      BY <1>0, <1>3, <2>2, <3>1
  <2> QED
    BY <1>0, <1>3, <2>1, <2>2
<1>5. PICK p : p = pending'
  OBVIOUS
<1>6. /\ p \in Seq(Events) /\ Consecutive(p) /\ p # <<>> /\ p[Len(p)] = nextEvent
      /\ Len(p) = IF Len(a) > MaxLines THEN MaxLines ELSE Len(a)
      /\ \A i \in 1..Len(p) : p[i] = a[i + (Len(a) - Len(p))]
  BY <1>1, <1>2, <1>3, <1>4, <1>5, Trimmed, TrimmedInOrder
<1>7. LogTypes'
  BY <1>0, <1>1, <1>5, <1>6, LenProperties DEF LogTypes, Events
<1>8. ASSUME NEW q \in Seq(Events), Follows(q, pending), pending = <<>> => EndsNow(q)
      PROVE  Follows(q, p)
  <2>1. CASE q # <<>> /\ pending = <<>>
    <3>1. Len(p) = 1 /\ p[1] = nextEvent
      BY <1>0, <1>3, <1>6, <2>1
    <3>2. q[Len(q)] = nextEvent - 1
      BY <1>8, <2>1 DEF EndsNow
    <3> QED
      BY <1>0, <3>1, <3>2 DEF Follows
  <2>2. CASE q # <<>> /\ pending # <<>>
    <3>1. CASE Len(a) > MaxLines
      BY <1>6, <3>1 DEF Follows
    <3>2. CASE Len(a) <= MaxLines
      <4>1. p[1] = pending[1]
        <5>1. Len(pending) # 0
          BY <1>0, <2>2, EmptySeq DEF LogTypes
        <5>2. Len(p) = Len(a) /\ 1 \in 1..Len(p) /\ 1 \in 1..Len(pending) /\ 1 + (Len(a) - Len(a)) = 1
          BY <1>0, <1>3, <1>6, <3>2, <5>1
        <5> QED
          BY <1>3, <1>6, <5>2
      <4>2. Len(pending) # MaxLines
        BY <1>0, <1>3, <3>2
      <4>3. pending[1] = q[Len(q)] + 1
        BY <1>8, <2>2, <4>2 DEF Follows
      <4> QED
        BY <4>1, <4>3 DEF Follows
    <3> QED
      BY <1>0, <1>3, <3>1, <3>2
  <2> QED
    BY <2>1, <2>2 DEF Follows
<1>9. LogInv'
  <2>1. lines \in Seq(Events) /\ batch \in Seq(Events)
    BY <1>0 DEF LogTypes
  <2>2. /\ Consecutive(pending') /\ pending' # <<>> /\ pending'[Len(pending')] = nextEvent' - 1
    BY <1>0, <1>1, <1>5, <1>6
  <2>3. CASE gui.step = "append"
    <3>1. Follows(batch, pending')
      BY <1>5, <1>8, <2>1, <2>3 DEF LogInv
    <3> QED
      BY <1>1, <2>2, <2>3, <3>1 DEF LogInv, EndsNow, Follows, Consecutive
  <2>4. CASE gui.step # "append"
    <3>1. Follows(lines, pending')
      BY <1>5, <1>8, <2>1, <2>4 DEF LogInv
    <3> QED
      BY <1>1, <2>2, <2>4, <3>1 DEF LogInv, EndsNow, Follows, Consecutive
  <2> QED
    BY <2>3, <2>4
<1> QED
  BY <1>7, <1>9

\* A step that leaves the log alone.
LEMMA LogStays ==
  ASSUME LogTypes, LogInv, UNCHANGED logVars, (gui'.step = "append") <=> (gui.step = "append")
  PROVE  LogTypes' /\ LogInv'
BY DEF LogTypes, LogInv, logVars, EndsNow, Follows, Consecutive

\* The steps of the Log tab.
LEMMA LogShown ==
  ASSUME TypeOK, AtWork, LogInv, TakePending \/ AppendLines \/ ClearLines
  PROVE  /\ LogTypes' /\ LogInv' /\ gui' \in GuiRecords
         /\ AtRest /\ AtRest'
         /\ gui'.slot = gui.slot /\ gui'.hook = gui.hook
         /\ gui'.target = gui.target /\ gui'.original = gui.original
<1>0. /\ LogTypes /\ gui \in GuiRecords /\ MaxLines \in Nat \ {0}
      /\ <<>> \in Seq(Events) /\ Len(<<>>) = 0 /\ Consecutive(<<>>)
  BY TypeParts, CallLogAssumption DEF HookTypes, Consecutive
<1>1. CASE TakePending
  <2>1. /\ gui.step = "rest" /\ gui'.step = "append" /\ gui' \in GuiRecords
        /\ gui'.slot = gui.slot /\ gui'.hook = gui.hook
        /\ gui'.target = gui.target /\ gui'.original = gui.original
    BY <1>0, <1>1 DEF TakePending, GuiRecords
  <2>2. pending # <<>> /\ batch' = pending /\ pending' = <<>> /\ UNCHANGED <<lines, nextEvent>>
    BY <1>1 DEF TakePending, PendingAfterSwap
  <2>3. LogTypes'
    BY <1>0, <2>2 DEF LogTypes
  <2>4. LogInv'
    BY <1>0, <2>1, <2>2 DEF LogInv, EndsNow, Follows, Consecutive
  <2> QED
    BY <2>1, <2>3, <2>4 DEF AtRest
<1>2. CASE AppendLines
  <2>1. /\ gui.step = "append" /\ gui'.step = "rest" /\ gui' \in GuiRecords
        /\ gui'.slot = NoSlot /\ gui'.hook = NoHook /\ gui'.target = NoMethod /\ gui'.original = NoBlock
    BY <1>2 DEF AppendLines, Resting, GuiRecords
  <2>2. gui.slot = NoSlot /\ gui.hook = NoHook /\ gui.target = NoMethod /\ gui.original = NoBlock
    BY <2>1 DEF AtWork, AtRest
  <2>3. batch' = <<>> /\ lines' = Trim(lines \o batch) /\ UNCHANGED <<pending, nextEvent>>
    BY <1>2 DEF AppendLines
  <2>4. PICK l : l = lines'
    OBVIOUS
  <2>5. lines \o batch \in Seq(Events) /\ batch # <<>> /\ Follows(lines, batch)
    BY <1>0, <2>1 DEF LogTypes, LogInv
  <2>6. l \in Seq(Events) /\ Len(l) <= MaxLines
    <3>1. PICK b \in Seq(Events) : b = lines \o batch
      BY <2>5
    <3>2. Len(b) \in Nat
      BY LenProperties
    <3>3. l \in Seq(Events) /\ Len(l) = IF Len(b) > MaxLines THEN MaxLines ELSE Len(b)
      BY <2>3, <2>4, <3>1, Trimmed
    <3> QED
      BY <1>0, <3>2, <3>3
  <2>7. Consecutive(l) /\ l # <<>> /\ l[Len(l)] = batch[Len(batch)]
    BY <1>0, <2>3, <2>4, <2>5, JoinedInOrder DEF LogTypes, LogInv
  <2>8. LogTypes'
    BY <1>0, <2>3, <2>4, <2>6 DEF LogTypes
  <2>9. LogInv'
    BY <1>0, <2>1, <2>3, <2>4, <2>5, <2>7 DEF LogInv, EndsNow, Follows, Consecutive
  <2> QED
    BY <2>1, <2>2, <2>8, <2>9 DEF AtRest
<1>3. CASE ClearLines
  <2>1. gui.step = "rest" /\ gui' = gui /\ pending' = <<>> /\ lines' = <<>> /\ UNCHANGED <<batch, nextEvent>>
    BY <1>3 DEF ClearLines, hookVars
  <2>2. LogTypes'
    BY <1>0, <2>1 DEF LogTypes
  <2>3. LogInv'
    BY <1>0, <2>1 DEF LogInv, EndsNow, Follows, Consecutive
  <2> QED
    BY <1>0, <2>1, <2>2, <2>3 DEF AtRest
<1> QED
  BY <1>1, <1>2, <1>3

-----------------------------------------------------------------------------
(***************************************************************************)
(* The invariant is inductive.                                             *)
(***************************************************************************)
LEMMA InitIInv == Init => IInv
<1> SUFFICES ASSUME Init PROVE IInv
  OBVIOUS
<1>0. /\ MaxHooks \in Nat \ {0} /\ MaxLines \in Nat \ {0} /\ MaxHookIds \in Nat \ {0} /\ MaxEvents \in Nat \ {0}
      /\ Foreign \subseteq Methods
  BY CallLogAssumption
<1>1. TypeOK
  <2>1. Free \in SlotRecords /\ gui \in GuiRecords /\ NoCall \in CallRecords
    BY DEF Init, Resting, Free, NoCall, SlotRecords, GuiRecords, CallRecords
  <2>2. IsFiniteSet({}) /\ Cardinality({}) = 0
    BY FS_EmptySet
  <2>3. HookTypes
    BY <1>0, <2>1, <2>2 DEF Init, HookTypes
  <2>4. LogTypes
    BY <1>0 DEF Init, LogTypes
  <2> QED
    BY <2>1, <2>3, <2>4, TypeParts DEF Init
<1>2. /\ hooks = {} /\ gui.step = "rest"
      /\ gui.slot = NoSlot /\ gui.hook = NoHook /\ gui.target = NoMethod /\ gui.original = NoBlock
      /\ \A s \in Slots : slots[s].active = FALSE /\ slots[s].hook = NoHook /\ slots[s].original = NoBlock
      /\ \A m \in Methods : patch[m] = NoSlot
      /\ registered = Foreign
  BY DEF Init, Resting, Free
<1>3. HooksInv
  <2>1. IsFiniteSet(hooks)
    BY <1>2, FS_EmptySet
  <2> QED
    BY <1>2, <2>1 DEF HooksInv, Installing
<1>4. AtWork
  BY <1>2 DEF AtWork, AtRest, Installing, Removing
<1>5. CallsShape /\ CalmCalls /\ OwnHookOnly
  BY DEF Init, NoCall, CallsShape, CalmCalls, OwnHookOnly, Later
<1>6. LogInv
  BY <1>2 DEF Init, LogInv, Consecutive, EndsNow, Follows
<1> QED
  BY <1>1, <1>3, <1>4, <1>5, <1>6 DEF IInv

LEMMA NextIInv == IInv /\ [Next]_vars => IInv'
<1> SUFFICES ASSUME IInv, [Next]_vars PROVE IInv'
  OBVIOUS
<1>0. /\ TypeOK /\ HooksInv /\ AtWork /\ CallsInv /\ LogInv
      /\ HookTypes /\ calls \in [GameThreads -> CallRecords] /\ LogTypes
      /\ nextHookId \in Nat /\ HookIds \subseteq Nat
  BY TypeParts DEF IInv, CallsInv, TypeOK, HookIds
<1>1. ASSUME HookTypes', calls' \in [GameThreads -> CallRecords], LogTypes',
             HooksInv', AtWork', CallsInv', LogInv'
      PROVE  IInv'
  BY <1>1, TypePartsNext DEF IInv, CallsInv
<1>2. CASE \/ \E m \in Methods : ToggleAdd(m)
           \/ FillSlot \/ ActivateSlot \/ (\E h \in hooks : RemoveHook(h)) \/ Unpatch \/ ClearSlot
  <2>1. HookTypes' /\ HooksInv' /\ AtWork'
    BY <1>0, <1>2, HookTypesStep, HooksInstall, HooksRemove
  <2>2. calls' \in [GameThreads -> CallRecords] /\ CallsInv'
    BY <1>0, <1>2, CallsInstall, CallsRemove
  <2>3. UNCHANGED logVars
    BY <1>2 DEF ToggleAdd, FillSlot, ActivateSlot, RemoveHook, Unpatch, ClearSlot
  <2>4. gui.step # "append" /\ gui'.step # "append"
    BY <1>0, <1>2 DEF ToggleAdd, FillSlot, ActivateSlot, RemoveHook, Unpatch, ClearSlot, Resting,
                      HookTypes, GuiRecords
  <2> QED
    BY <1>0, <1>1, <2>1, <2>2, <2>3, <2>4, LogStays
<1>3. ASSUME NEW t \in GameThreads,
             \/ \E m \in Methods : Enter(t, m)
             \/ ReadOriginal(t) \/ TestActive(t) \/ ReadSlot(t) \/ PushEvent(t) \/ Forward(t)
      PROVE  IInv'
  <2>1. UNCHANGED hookVars
    BY <1>3 DEF Enter, ReadOriginal, TestActive, ReadSlot, PushEvent, Forward
  <2>2. HooksInv' /\ AtWork'
    BY <1>0, <2>1, HooksStay DEF hookVars
  <2>3. HookTypes'
    BY <1>0, <2>1 DEF HookTypes, hookVars
  <2>4. calls' \in [GameThreads -> CallRecords] /\ CallsInv'
    BY <1>0, <1>3, CallEnters, CallGoesOn
  <2>5. LogTypes' /\ LogInv'
    <3>1. CASE PushEvent(t)
      BY <1>0, <3>1, LogPushed
    <3>2. CASE UNCHANGED logVars
      BY <1>0, <2>1, <3>2, LogStays DEF hookVars
    <3> QED
      BY <1>3, <3>1, <3>2 DEF Enter, ReadOriginal, TestActive, ReadSlot, Forward
  <2> QED
    BY <1>1, <2>2, <2>3, <2>4, <2>5
<1>4. CASE TakePending \/ AppendLines \/ ClearLines
  <2>1. UNCHANGED <<slots, patch, trampoline, registered, hooks, nextHookId, calls>>
    BY <1>4 DEF TakePending, AppendLines, ClearLines, hookVars
  <2>2. /\ LogTypes' /\ LogInv' /\ gui' \in GuiRecords
        /\ AtRest /\ AtRest'
        /\ gui'.slot = gui.slot /\ gui'.hook = gui.hook
        /\ gui'.target = gui.target /\ gui'.original = gui.original
    BY <1>0, <1>4, LogShown
  <2>3. HooksInv' /\ AtWork'
    BY <1>0, <2>1, <2>2, HooksStay
  <2>4. HookTypes'
    BY <1>0, <2>1, <2>2 DEF HookTypes
  <2>5. CallsInv'
    BY <1>0, <2>1, <2>2, CallsStay
  <2> QED
    BY <1>0, <1>1, <2>1, <2>2, <2>3, <2>4, <2>5
<1>5. CASE UNCHANGED vars
  <2>1. UNCHANGED <<slots, patch, trampoline, registered, hooks, nextHookId, gui, calls>> /\ UNCHANGED logVars
    BY <1>5 DEF vars, hookVars
  <2>2. HooksInv' /\ AtWork'
    BY <1>0, <2>1, HooksStay
  <2>3. HookTypes'
    BY <1>0, <2>1 DEF HookTypes
  <2>4. CallsInv' /\ LogTypes' /\ LogInv'
    BY <1>0, <2>1, CallsStay, LogStays
  <2> QED
    BY <1>0, <1>1, <2>1, <2>2, <2>3, <2>4
<1> QED
  BY <1>2, <1>3, <1>4, <1>5 DEF Next

LEMMA Invariance == Spec => []IInv
<1>1. Init => IInv
  BY InitIInv
<1>2. IInv /\ [Next]_vars => IInv'
  BY NextIInv
<1> QED
  BY <1>1, <1>2, PTL DEF Spec

-----------------------------------------------------------------------------
(***************************************************************************)
(* The properties of the runs.                                             *)
(***************************************************************************)

\* Between two clicks every hook of the model is live in one slot, patched and
\* registered, and nothing else is (Toggle, RemoveHook, Install, Uninstall).
LEMMA RecordsAgree == IInv => HooksAgree
<1> SUFFICES ASSUME IInv, AtRest PROVE HooksAgree
  BY DEF HooksAgree, AtRest
<1>0. TypeOK /\ HooksInv /\ AtWork /\ ~Removing /\ ~Installing /\ gui.step # "unpatch"
  BY DEF IInv, AtRest, Removing, Installing
<1>1. \A h \in hooks : Settled(h) /\ HookIsComplete(h)
  BY <1>0 DEF HooksInv, Settled
<1>2. /\ \A h \in hooks : h.target \in Methods /\ patch[h.target] \in Slots
      /\ NoSlot \notin Slots
  BY <1>0, <1>1, Fields DEF HookIsComplete, Slots, NoSlot
<1>3. {s \in Slots : slots[s].active} = {patch[h.target] : h \in hooks}
  BY <1>0, <1>1, <1>2 DEF HooksInv, HookIsComplete
<1>4. /\ \A h \in hooks : slots[patch[h.target]].hook = h.id
      /\ \A h \in hooks : trampoline[slots[patch[h.target]].original] = h.target
  BY <1>1 DEF HookIsComplete
<1>5. {h.target : h \in hooks} = {m \in Methods : patch[m] # NoSlot}
  BY <1>0, <1>2 DEF HooksInv
<1>6. registered = Foreign \cup {h.target : h \in hooks}
  <2>1. Foreign \subseteq Methods /\ registered \subseteq Methods
    BY <1>0, CallLogAssumption DEF TypeOK
  <2>2. \A m \in Methods : m \in registered <=> m \in Foreign \/ \E h \in hooks : h.target = m
    BY <1>0, <1>1 DEF HooksInv
  <2> QED
    BY <1>2, <2>1, <2>2
<1>7. Cardinality({h.target : h \in hooks}) = Cardinality(hooks)
  <2> DEFINE T == {h.target : h \in hooks}
             f == [h \in hooks |-> h.target]
  <2>1. IsFiniteSet(hooks)
    BY <1>0 DEF HooksInv
  <2>2. f \in Bijection(hooks, T)
    <3>1. f \in [hooks -> T] /\ (\A t \in T : \E h \in hooks : f[h] = t)
      OBVIOUS
    <3>2. \A h, k \in hooks : f[h] = f[k] => h = k
      BY <1>0 DEF HooksInv
    <3> QED
      BY <3>1, <3>2 DEF Bijection, Injection, Surjection, IsInjective
  <2>3. ExistsBijection(hooks, T)
    BY <2>2 DEF ExistsBijection
  <2> QED
    BY <2>1, <2>3, FS_Bijection
<1> QED
  BY <1>3, <1>4, <1>5, <1>6, <1>7 DEF HooksAgree

\* Toggle, RemoveHook and SnapshotLines keep the four records of what is
\* hooked in agreement and the lines of the Log tab without a gap, for any
\* number of threads, hooks, slots and lines.
THEOREM LogIsConsistent == Spec => []LogConsistent
<1>1. IInv => LogConsistent
  BY RecordsAgree DEF IInv, LogInv, LogConsistent, LinesHaveNoGap
<1> QED
  BY <1>1, Invariance, PTL

\* A call whose slot nobody touches while it is in OnHit runs its own method
\* and is logged under its own hook, whatever happens to other slots meanwhile.
THEOREM UndisturbedLogged == Spec => []UndisturbedCallIsLogged
<1>1. IInv => UndisturbedCallIsLogged
  <2> SUFFICES ASSUME IInv, NEW t \in GameThreads, calls[t].calm
               PROVE  /\ calls[t].step = "enter" => slots[calls[t].slot].original # NoBlock
                      /\ calls[t].step = "forward" =>
                           Runs(calls[t]) = calls[t].method /\ calls[t].event = calls[t].hook
    BY DEF UndisturbedCallIsLogged
  <2> QED
    BY CallLogAssumption DEF IInv, CalmCalls, Later, Runs
<1> QED
  BY <1>1, Invariance, PTL

\* As long as no hook is installed while a call is in OnHit, the call runs its
\* own method or none and its line carries its own hook or a blank, however
\* many hooks are removed under it.
THEOREM OnlyInstalls == Spec => []OnlyInstallRedirects
<1>1. IInv => OnlyInstallRedirects
  BY DEF IInv, OwnHookOnly, OnlyInstallRedirects, Runs, Later
<1> QED
  BY <1>1, Invariance, PTL
=============================================================================
