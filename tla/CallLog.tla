------------------------------ MODULE CallLog -------------------------------
(***************************************************************************)
(* Native call logging (src/services/call_log_hooks.cpp, its model in      *)
(* src/gui/state/runtime/call_log_model.cpp and the registry of            *)
(* src/services/hook_installer.cpp).  The GUI thread hooks a method by     *)
(* patching it to the detour of a slot; threads of the game that call the  *)
(* method run the detour, which logs the call and forwards it through the  *)
(* hook's trampoline.                                                      *)
(*                                                                         *)
(* The detour takes no lock.  Install and Uninstall change a slot in       *)
(* several steps, and a slot and MinHook's memory for trampolines are used *)
(* again, so a call that is inside the detour while its slot changes may   *)
(* be lost or reach another method; the properties say when it cannot.     *)
(* A nested call of a thread is as good as the call of another thread.     *)
(*                                                                         *)
(* An operator whose name begins with Mut is no part of the model: it is a *)
(* bug put into the next operator, which some property must then reject.   *)
(***************************************************************************)
EXTENDS Integers, Sequences, FiniteSets

CONSTANTS
  Methods,      \* addresses of methods that IsLogEligible accepts
  Foreign,      \* those other parts have hooked: runtime_invoke, Application.Quit, presets
  GameThreads,
  NoMethod,     \* no method at all
  Blocks,       \* memory MinHook makes trampolines in
  NoBlock,      \* a null pointer
  MaxHooks,     \* kMaxHooks and kMaxSlots, which are equal
  MaxLines,     \* kMaxLines
  MaxHookIds,   \* bound of the model: calls of Install
  MaxEvents     \* bound of the model: calls logged

ASSUME CallLogAssumption ==
  /\ NoMethod \notin Methods
  /\ NoBlock \notin Blocks
  /\ Foreign \subseteq Methods
  /\ {MaxHooks, MaxLines, MaxHookIds, MaxEvents} \subseteq Nat \ {0}

Slots == 0..(MaxHooks - 1)
NoSlot == -1
HookIds == 1..MaxHookIds
NoHook == 0
NotLogged == -1

VARIABLES
  slots,       \* g_slots: active, hookId, and the trampoline original points to
  patch,       \* external: the slot whose detour a method jumps to
  trampoline,  \* external: the method each block forwards to, NoMethod if it is free
  registered,  \* g_hookedTargets
  hooks,       \* hooks of the model: ids with their targets
  nextHookId,  \* nextHookId
  gui,         \* what the GUI thread does: its step, and the hook and slot it works on
  calls,       \* the call each game thread is in
  pending,     \* pendingEvents, as the numbers of the events
  batch,       \* events SnapshotLines took and is formatting
  lines,       \* lines
  nextEvent    \* history: the number of the next event pushed

hookVars == <<slots, patch, trampoline, registered, hooks, nextHookId, gui>>
logVars == <<pending, batch, lines, nextEvent>>
vars == <<hookVars, calls, logVars>>

Free == [active |-> FALSE, hook |-> NoHook, original |-> NoBlock]
Resting == [step |-> "rest", slot |-> NoSlot, hook |-> NoHook, target |-> NoMethod,
            original |-> NoBlock]

\* hook: whose patch the call came through; event: the id it was logged under;
\* calm: its slot was at rest all along; installs: some hook was installed
\* since the call began.
NoCall == [step |-> "none", method |-> NoMethod, slot |-> NoSlot, hook |-> NoHook,
           original |-> NoBlock, event |-> NotLogged,
           calm |-> FALSE, installs |-> FALSE]

Events == 1..MaxEvents
InFlight == {"enter", "test", "read", "push", "forward"}

TypeOK ==
  /\ slots \in [Slots -> [active : BOOLEAN, hook : HookIds \cup {NoHook},
                          original : Blocks \cup {NoBlock}]]
  /\ patch \in [Methods -> Slots \cup {NoSlot}]
  /\ trampoline \in [Blocks -> Methods \cup {NoMethod}]
  /\ registered \in SUBSET Methods
  /\ hooks \in SUBSET [id : HookIds, target : Methods]
  /\ Cardinality(hooks) <= MaxHooks
  /\ nextHookId \in 1..(MaxHookIds + 1)
  /\ gui \in [step : {"rest", "fill", "activate", "unpatch", "clear", "append"},
              slot : Slots \cup {NoSlot}, hook : HookIds \cup {NoHook},
              target : Methods \cup {NoMethod}, original : Blocks \cup {NoBlock}]
  /\ calls \in [GameThreads ->
       [step : InFlight \cup {"none"}, method : Methods \cup {NoMethod},
        slot : Slots \cup {NoSlot}, hook : HookIds \cup {NoHook},
        original : Blocks \cup {NoBlock}, event : HookIds \cup {NoHook, NotLogged},
        calm : BOOLEAN, installs : BOOLEAN]]
  /\ {pending, batch, lines} \subseteq Seq(Events)
  /\ \A q \in {pending, batch, lines} : Len(q) <= MaxLines
  /\ nextEvent \in 1..(MaxEvents + 1)

Init ==
  /\ slots = [s \in Slots |-> Free]
  /\ patch = [m \in Methods |-> NoSlot]
  /\ trampoline = [b \in Blocks |-> NoMethod]
  /\ registered = Foreign
  /\ hooks = {}
  /\ nextHookId = 1
  /\ gui = Resting
  /\ calls = [t \in GameThreads |-> NoCall]
  /\ pending = <<>> /\ batch = <<>> /\ lines = <<>>
  /\ nextEvent = 1

\* History: the calls inside the detour of slot s are no longer calm.
Disturb(s) == [t \in GameThreads |->
  IF calls[t].slot = s THEN [calls[t] EXCEPT !.calm = FALSE] ELSE calls[t]]

-----------------------------------------------------------------------------
(***************************************************************************)
(* The GUI thread: Toggle and RemoveHook.  g_installMutex and the model's  *)
(* mutex keep no one else out of these steps.                              *)
(***************************************************************************)
IsLogging(m) == \E h \in hooks : h.target = m

FreeSlots == {s \in Slots : ~slots[s].active}
FindFreeSlot == {s \in FreeSlots : \A q \in FreeSlots : s <= q}

MutDetourOfNextSlot(s) == (s + 1) % MaxHooks
DetourForSlot(s) == s

\* Toggle of a method without a hook, up to MH_EnableHook: its id is used up,
\* and the hook is live or MinHook refused and everything is undone.
ToggleAdd(m) ==
  /\ gui.step = "rest"
  /\ nextHookId <= MaxHookIds
  /\ ~IsLogging(m)
  /\ Cardinality(hooks) < MaxHooks
  /\ m \notin registered
  /\ nextHookId' = nextHookId + 1
  /\ \/ \E s \in FindFreeSlot, b \in {b \in Blocks : trampoline[b] = NoMethod} :
          /\ registered' = registered \cup {m}
          /\ patch' = [patch EXCEPT ![m] = DetourForSlot(s)]
          /\ trampoline' = [trampoline EXCEPT ![b] = m]
          /\ gui' = [step |-> "fill", slot |-> s, hook |-> nextHookId, target |-> m,
                     original |-> b]
          /\ calls' = [t \in GameThreads |->
               [Disturb(s)[t] EXCEPT !.installs = calls[t].step \in InFlight]]
     \/ UNCHANGED <<registered, patch, trampoline, gui, calls>>
  /\ UNCHANGED <<slots, hooks, logVars>>

MutFillKeepsHookId(s) == slots[s].hook
FilledHookId(s) == gui.hook

\* The trampoline and the spec are copied into the slot, which is inactive.
FillSlot ==
  /\ gui.step = "fill"
  /\ slots' = [slots EXCEPT ![gui.slot] =
       [active |-> FALSE, hook |-> FilledHookId(gui.slot), original |-> gui.original]]
  /\ gui' = [gui EXCEPT !.step = "activate"]
  /\ calls' = Disturb(gui.slot)
  /\ UNCHANGED <<patch, trampoline, registered, hooks, nextHookId, logVars>>

ActivateSlot ==
  /\ gui.step = "activate"
  /\ slots' = [slots EXCEPT ![gui.slot].active = TRUE]
  /\ hooks' = hooks \cup {[id |-> gui.hook, target |-> gui.target]}
  /\ gui' = Resting
  /\ calls' = Disturb(gui.slot)
  /\ UNCHANGED <<patch, trampoline, registered, nextHookId, logVars>>

FindSlotByHookId(h) == {s \in Slots : slots[s].active /\ slots[s].hook = h}

\* RemoveHook, from Toggle or from the Logger dock: the slot goes inactive.
RemoveHook(h) ==
  /\ gui.step = "rest"
  /\ \E s \in FindSlotByHookId(h.id) :
       /\ slots' = [slots EXCEPT ![s].active = FALSE]
       /\ gui' = [step |-> "unpatch", slot |-> s, hook |-> h.id, target |-> h.target,
                  original |-> slots[s].original]
       /\ calls' = Disturb(s)
  /\ UNCHANGED <<patch, trampoline, registered, hooks, nextHookId, logVars>>

UnregisterHookTarget(m) == registered \ {m}

\* MH_DisableHook and MH_RemoveHook: the method is itself again and its
\* trampoline's memory is free.
Unpatch ==
  /\ gui.step = "unpatch"
  /\ patch' = [patch EXCEPT ![gui.target] = NoSlot]
  /\ trampoline' = [trampoline EXCEPT ![gui.original] = NoMethod]
  /\ registered' = UnregisterHookTarget(gui.target)
  /\ gui' = [gui EXCEPT !.step = "clear"]
  /\ calls' = Disturb(gui.slot)
  /\ UNCHANGED <<slots, hooks, nextHookId, logVars>>

ClearSlot ==
  /\ gui.step = "clear"
  /\ slots' = [slots EXCEPT ![gui.slot] = Free]
  /\ hooks' = {h \in hooks : h.id # gui.hook}
  /\ gui' = Resting
  /\ calls' = Disturb(gui.slot)
  /\ UNCHANGED <<patch, trampoline, registered, nextHookId, logVars>>

-----------------------------------------------------------------------------
(***************************************************************************)
(* A game thread inside OnHit.                                             *)
(***************************************************************************)
\* History: the hook that patched m, which may be one just being made or removed.
HookOf(m) == IF gui.target = m THEN gui.hook ELSE (CHOOSE h \in hooks : h.target = m).id

Enter(t, m) ==
  /\ calls[t].step = "none"
  /\ patch[m] # NoSlot
  /\ calls' = [calls EXCEPT ![t] = [NoCall EXCEPT
       !.step = "enter", !.method = m, !.slot = patch[m], !.hook = HookOf(m),
       !.calm = gui.slot # patch[m]]]
  /\ UNCHANGED <<hookVars, logVars>>

\* FastCall4 original = slot.original; without one the call returns at once.
ReadOriginal(t) ==
  /\ calls[t].step = "enter"
  /\ LET original == slots[calls[t].slot].original
     IN  calls' = [calls EXCEPT ![t] =
           IF original = NoBlock THEN NoCall
           ELSE [@ EXCEPT !.step = "test", !.original = original]]
  /\ UNCHANGED <<hookVars, logVars>>

\* active is tested by OnHit and again by CaptureAndPushEvent, with nothing
\* between: failing either has the same effect, so one step stands for both.
TestActive(t) ==
  /\ calls[t].step = "test"
  /\ calls' = [calls EXCEPT ![t].step =
       IF slots[calls[t].slot].active THEN "read" ELSE "forward"]
  /\ UNCHANGED <<hookVars, logVars>>

\* CaptureAndPushEvent copies the slot, whatever it holds by now.
ReadSlot(t) ==
  /\ calls[t].step = "read"
  /\ calls' = [calls EXCEPT ![t].step = "push", ![t].event = slots[calls[t].slot].hook]
  /\ UNCHANGED <<hookVars, logVars>>

\* The oldest go until kMaxLines are left.
Trim(q) == IF Len(q) > MaxLines THEN SubSeq(q, Len(q) - MaxLines + 1, Len(q)) ELSE q

PushEvent(t) ==
  /\ calls[t].step = "push"
  /\ nextEvent <= MaxEvents
  /\ pending' = Trim(Append(pending, nextEvent))
  /\ nextEvent' = nextEvent + 1
  /\ calls' = [calls EXCEPT ![t].step = "forward"]
  /\ UNCHANGED <<hookVars, batch, lines>>

\* original(...), whatever its block holds by now: one that was freed faults,
\* which the detour catches, unless a later hook has been given it.
Runs(call) == trampoline[call.original]

Forward(t) ==
  /\ calls[t].step = "forward"
  /\ calls' = [calls EXCEPT ![t] = NoCall]
  /\ UNCHANGED <<hookVars, logVars>>

-----------------------------------------------------------------------------
(***************************************************************************)
(* The Log tab: SnapshotLines swaps the events out under the mutex,        *)
(* formats them without it and appends them under it again.                *)
(***************************************************************************)
MutCopiedNotSwapped == pending
PendingAfterSwap == <<>>

TakePending ==
  /\ gui.step = "rest"
  /\ pending # <<>>
  /\ batch' = pending
  /\ pending' = PendingAfterSwap
  /\ gui' = [gui EXCEPT !.step = "append"]
  /\ UNCHANGED <<slots, patch, trampoline, registered, hooks, nextHookId, calls, lines, nextEvent>>

AppendLines ==
  /\ gui.step = "append"
  /\ lines' = Trim(lines \o batch)
  /\ batch' = <<>>
  /\ gui' = Resting
  /\ UNCHANGED <<slots, patch, trampoline, registered, hooks, nextHookId, calls, pending, nextEvent>>

ClearLines ==
  /\ gui.step = "rest"
  /\ pending' = <<>> /\ lines' = <<>>
  /\ UNCHANGED <<hookVars, calls, batch, nextEvent>>

Next ==
  \/ \E m \in Methods : ToggleAdd(m)
  \/ FillSlot
  \/ ActivateSlot
  \/ \E h \in hooks : RemoveHook(h)
  \/ Unpatch
  \/ ClearSlot
  \/ \E t \in GameThreads :
       \/ \E m \in Methods : Enter(t, m)
       \/ ReadOriginal(t)
       \/ TestActive(t)
       \/ ReadSlot(t)
       \/ PushEvent(t)
       \/ Forward(t)
  \/ TakePending
  \/ AppendLines
  \/ ClearLines

Spec == Init /\ [][Next]_vars

-----------------------------------------------------------------------------
(***************************************************************************)
(* Properties                                                              *)
(***************************************************************************)

\* Between two clicks the four records of what is hooked agree: the model's
\* list, the active slots, the patched methods and the registry (beside what
\* others hooked).  A failed install or a removal that leaves one of them
\* behind makes a method that can never be hooked, or never unhooked, again.
HooksAgree ==
  gui.step \in {"rest", "append"} =>
    /\ {s \in Slots : slots[s].active} = {patch[h.target] : h \in hooks}
    /\ \A h \in hooks : slots[patch[h.target]].hook = h.id 
    /\ \A h \in hooks : trampoline[slots[patch[h.target]].original] = h.target
    /\ {h.target : h \in hooks} = {m \in Methods : patch[m] # NoSlot}
    /\ registered = Foreign \cup {h.target : h \in hooks}
    /\ Cardinality({h.target : h \in hooks}) = Cardinality(hooks)

\* A call whose slot is not touched while it is in the detour runs its own
\* method and is logged under its own hook, whatever happens to other slots.
UndisturbedCallIsLogged ==
  \A t \in GameThreads :
    /\ calls[t].step = "enter" /\ calls[t].calm => slots[calls[t].slot].original # NoBlock
    /\ calls[t].step = "forward" /\ calls[t].calm =>
         Runs(calls[t]) = calls[t].method /\ calls[t].event = calls[t].hook

\* Removing hooks never sends a call to another method: as long as nothing is
\* installed meanwhile, a call runs its own method or none (it is lost when
\* its hook is removed or not complete yet), and its line carries its own
\* hook or a blank.
OnlyInstallRedirects ==
  \A t \in GameThreads :
    calls[t].step = "forward" /\ ~calls[t].installs =>
      /\ Runs(calls[t]) \in {calls[t].method, NoMethod}
      /\ calls[t].event \in {calls[t].hook, NoHook, NotLogged}

Consecutive(q) == \A i \in 1..(Len(q) - 1) : q[i + 1] = q[i] + 1

\* The Log tab never shows a gap: its lines are consecutive events, although
\* events are dropped from pendingEvents and from lines at different times and
\* pushed while a batch is being formatted.
LinesHaveNoGap == Consecutive(lines)

\* Hooks, slots, pending events and lines keep their shape and bounds, and the log its order
\* (CallLogModel under its mutexes, SnapshotLines formatting outside them).
LogConsistent == TypeOK /\ HooksAgree /\ LinesHaveNoGap
=============================================================================
