-------------------------- MODULE ScriptReflection --------------------------
(***************************************************************************)
(* A script's calls into the game (src/scripting/bridge/                   *)
(* script_reflection_api.cpp, script_reflection_lookup.cpp, lua_ds_api.cpp *)
(* lua_proxy.cpp, lua_curated_api.cpp, src/scripting/abi/script_abi.cpp)   *)
(* on top of the handle registry, which this module implements.            *)
(*                                                                         *)
(* A call packs its work as a task of the command channel, of which only   *)
(* the outcomes are here: refused before it was claimed, executed while    *)
(* the caller waits, or left by its caller (CommandChannel.tla has the     *)
(* rest).  A task runs on the Unity main thread; the script, whose handles *)
(* are invalidated when it ends, may be gone by then.  The game does not   *)
(* run during a task, except inside a method that the task calls.          *)
(***************************************************************************)
EXTENDS HandleRegistry, ScriptValues

CONSTANTS
  Objects,      \* addresses where the game keeps objects, used again for others
  Classes,      \* addresses of classes, which stay
  NoClass,      \* no object of a readable class is at an address
  Descendants,  \* the classes whose objects a search for a class finds
  NoHandle

ASSUME ReflectionAssumption ==
  /\ Addresses = Objects \cup Classes
  /\ Objects \cap Classes = {}
  /\ Kinds = {"class", "member", "instance"}
  /\ NoClass \notin Classes
  /\ Descendants \in [Classes -> SUBSET Classes]

\* Images, FindImage and FindClass need no handle, FindMethod and FindField
\* the one of a class; "abi" is a read or write of the curated interface.
FindOps     == {"lookup", "find_member", "find_objects"}
InstanceOps == {"get", "set", "invoke", "abi"}
Ops         == FindOps \cup InstanceOps

\* IsDispatchInfrastructureFailure: the answers of the channel itself.  REFUSED
\* stands for STARVATION, QUEUE_FULL, DISPATCHER_UNAVAILABLE and
\* MAIN_THREAD_NOT_CAPTURED, which are alike here.
Infrastructure == {"REFUSED", "TIMEOUT", "CANCELLED"}
Statuses == Infrastructure \cup
  {"OK", "HANDLE_INVALID", "STALE_OBJECT", "KIND_MISMATCH", "INVALID_POINTER", "TYPE_MISMATCH",
   "BAD_ARGUMENT", "METHOD_NOT_FOUND", "ARG_COUNT_MISMATCH", "ARG_TYPE_MISMATCH",
   "UNSUPPORTED_TYPE", "MANAGED_EXCEPTION"}

VARIABLES
  identity,  \* expectedClassIdentity of each entry of the registry
  heap,      \* what is at the address of an object
  proxies,   \* the proxies that the running script was given
  call,      \* the call the script waits for, with its answer
  task       \* the claimed task: its argument, progress and shared result

reflectionVars == <<vars, identity, heap, proxies, call, task>>

Handle == [index : Slots, generation : Nat, kind : Kinds]
Request == [address : Addresses, kind : Kinds, identity : Classes \cup {NoClass}]
NoCall == [op |-> "none"]
NoTask == [op |-> "none"]
Asked == [handle : Handle \cup {NoHandle}, arg : Handle \cup {NoHandle}, class : Classes \cup {NoClass}]
Taken == [handle |-> NoHandle, arg |-> NoHandle, class |-> NoClass]  \* the task has them
Call == [op : Ops, asked : Asked, phase : {"queued", "claimed", "answered"}, command : Statuses,
         result : Statuses, got : SUBSET Handle, effect : {"none", "part", "done"}, faulted : BOOLEAN]
Task == [op : Ops, asked : Asked, owner : Owners, waited : BOOLEAN,
         step : {"validate", "act", "register"},
         target : Addresses \cup {NullAddress}, todo : SUBSET Request, result : Statuses,
         got : SUBSET Handle, effect : {"none", "part", "done"}]

ReflectionTypeOK ==
  /\ TypeOK
  /\ identity \in [Slots -> Classes \cup {NoClass}]
  /\ heap \in [Objects -> Classes \cup {NoClass}]
  /\ proxies \in SUBSET Handle
  /\ call \in Call \cup {NoCall}
  /\ task \in Task \cup {NoTask}

ReflectionInit ==
  /\ Init
  /\ identity = [i \in Slots |-> NoClass]
  /\ heap = [o \in Objects |-> NoClass]
  /\ proxies = {}
  /\ call = NoCall
  /\ task = NoTask

-----------------------------------------------------------------------------
\* The script's side.

MutLaunchTooEarly ==
  /\ current < MaxOwners
  /\ current' = current + 1
  /\ proxies' = {}
  /\ UNCHANGED <<size, entries, free, nextGeneration, retired, issued, identity, heap, call, task>>

LaunchScript ==
  /\ Launch
  /\ proxies' = {}
  /\ UNCHANGED <<identity, heap, call, task>>

\* The handles that Lua lets a call name: a proxy of the kind it expects
\* (CheckProxy), or an instance of the curated interface made from one.
Nameable(op) ==
  CASE op = "find_member" -> {p \in proxies : p.kind = "class"}
    [] op \in InstanceOps -> {p \in proxies : p.kind = "instance"}
    [] OTHER -> {NoHandle}

\* A call that finds the task of an earlier one still running waits behind it,
\* and nothing looks at it before: here it is made when that task is over.
Submit(op) ==
  /\ current \notin retired \cup {0}
  /\ call = NoCall /\ task = NoTask
  /\ \E h \in Nameable(op), c \in IF op \in {"lookup", "find_objects"} THEN Classes ELSE {NoClass} :
     \E a \in {NoHandle} \cup (IF op = "invoke" THEN Nameable(op) ELSE {}) :
       call' = [op |-> op, asked |-> [handle |-> h, arg |-> a, class |-> c], phase |-> "queued",
                command |-> "OK", result |-> "BAD_ARGUMENT", got |-> {}, effect |-> "none",
                faulted |-> FALSE]
  /\ UNCHANGED <<vars, identity, heap, proxies, task>>

\* The channel refused the task, or its caller left before it was claimed.
Refuse ==
  /\ call # NoCall /\ call.phase = "queued"
  /\ \E status \in Infrastructure : call' = [call EXCEPT !.phase = "answered", !.asked = Taken,
                                                              !.command = status]
  /\ UNCHANGED <<vars, identity, heap, proxies, task>>

\* The caller leaves a claimed task, which goes on.
GiveUp ==
  /\ call # NoCall /\ call.phase = "claimed"
  /\ \E status \in {"TIMEOUT", "CANCELLED"} :
       call' = [call EXCEPT !.phase = "answered", !.command = status,
                            !.result = task.result, !.effect = task.effect]
  /\ task' = [task EXCEPT !.waited = FALSE]
  /\ UNCHANGED <<vars, identity, heap, proxies>>

MutResultFirst(c) == c.result
\* ResolveApiCommandFailure: the channel's own failures, else what the
\* operation found; the curated interface prefers the status of the command.
StatusOf(c) ==
  IF c.op = "abi" \/ c.command \in Infrastructure
  THEN IF c.command = "OK" THEN c.result ELSE c.command
  ELSE c.result

\* Handles come back with a command that succeeded.
Returned(c) == IF c.command = "OK" /\ c.result = "OK" THEN c.got ELSE {}

Return ==
  /\ call # NoCall /\ call.phase = "answered"
  /\ proxies' = proxies \cup Returned(call)
  /\ call' = NoCall
  /\ UNCHANGED <<vars, identity, heap, task>>

\* WorkerMain when the script is over, and RequestStop once more when the
\* panel shuts down and has joined the worker.
EndScript ==
  /\ current # 0
  /\ call = NoCall
  /\ InvalidateOwnedBy(current)
  /\ proxies' = {}
  /\ UNCHANGED <<identity, heap, call, task>>

-----------------------------------------------------------------------------
\* The main thread's side.

Claim ==
  /\ task = NoTask
  /\ call # NoCall /\ call.phase = "queued"
  /\ call' = [call EXCEPT !.phase = "claimed", !.asked = Taken]
  /\ task' = [op |-> call.op, asked |-> call.asked, owner |-> current, waited |-> TRUE,
              step |-> IF call.op \in {"lookup", "find_objects"} THEN "act" ELSE "validate",
              target |-> NullAddress, todo |-> {}, result |-> "BAD_ARGUMENT", got |-> {},
              effect |-> "none"]
  /\ UNCHANGED <<vars, identity, heap, proxies>>

\* The end of a task; its caller, if it waits, has the status of the command.
End(status, result, got, effect, faulted) ==
  /\ task' = NoTask
  /\ call' = IF ~task.waited THEN call
             ELSE [call EXCEPT !.phase = "answered", !.command = status, !.result = result,
                               !.got = got, !.effect = effect, !.faulted = faulted]
Fail(status, effect) == End(status, status, {}, effect, FALSE)

\* ValidateStructural
Resolution(h, kind) ==
  CASE h.index >= size \/ entries[h.index].generation # h.generation -> "HANDLE_INVALID"
    [] ~entries[h.index].alive -> "STALE_OBJECT"
    [] entries[h.index].owner # task.owner -> "HANDLE_INVALID"
    [] entries[h.index].kind # kind -> "KIND_MISMATCH"
    [] OTHER -> "OK"

MutChanged(expected, o) == FALSE
Changed(expected, o) == expected # NoClass /\ expected # heap[o]

\* ValidateInstanceHandle and ResolveClassHandle.  They put OK in the result
\* that the task shares with its caller, before the work is done.
Validate ==
  /\ task # NoTask /\ task.step = "validate"
  /\ LET kind == IF task.op = "find_member" THEN "class" ELSE "instance"
         found == Resolution(task.asked.handle, kind)
         target == entries[task.asked.handle.index].address
         passed == task' = [task EXCEPT !.step = "act", !.target = target, !.result = "OK"] /\ UNCHANGED call
     IN  CASE found # "OK" -> Fail(found, "none")
           [] found = "OK" /\ kind = "class" -> passed
           [] found = "OK" /\ kind = "instance" ->
                CASE heap[target] = NoClass ->
                       \E status \in {"INVALID_POINTER", "STALE_OBJECT"} : Fail(status, "none")
                  [] Changed(identity[task.asked.handle.index], target) -> Fail("TYPE_MISMATCH", "none")
                  [] OTHER -> passed
  /\ UNCHANGED <<vars, identity, heap, proxies>>

\* The handles a task has still to register.
Wants(requests, effect) ==
  /\ task' = [task EXCEPT !.step = "register", !.asked = Taken, !.target = NullAddress,
                          !.todo = requests, !.result = "OK", !.effect = effect]
  /\ UNCHANGED call
InstanceAt(o, class) == [address |-> o, kind |-> "instance", identity |-> class]

\* ResolveClassByName, ResolveFieldByName and ResolveMethodBySignature: what was
\* named may not be there, and a signature may not be one.
Unresolved(op) ==
  CASE op \in {"lookup", "find_objects"}  -> {"BAD_ARGUMENT"}
    [] op \in {"find_member", "invoke"}   -> {"BAD_ARGUMENT", "METHOD_NOT_FOUND"}

\* Images, FindImage and FindClass
ActLookup ==
  /\ task.op = "lookup"
  /\ \/ Wants({[address |-> task.asked.class, kind |-> "class", identity |-> NoClass]}, "none")
     \/ \E status \in Unresolved("lookup") : Fail(status, "none")

\* FindMethod and FindField, in the class that was resolved
ActFindMember ==
  /\ task.op = "find_member"
  /\ \/ Wants({[address |-> task.target, kind |-> "member", identity |-> task.target]}, "none")
     \/ \E status \in Unresolved("find_member") : Fail(status, "none")

\* FindLiveInstancesOnMain: the active objects of the class and of those derived
\* from it.  A search that fails, or finds too many, finds nothing.
LiveInstances(class) == {{}, {o \in Objects : heap[o] \in Descendants[class]}}

\* FindObjects registers every object with the class that was asked for.
ActFindObjects ==
  /\ task.op = "find_objects"
  /\ \/ \E found \in LiveInstances(task.asked.class) :
          Wants({InstanceAt(o, task.asked.class) : o \in found}, "none")
     \/ \E status \in Unresolved("find_objects") : Fail(status, "none")

\* GetField: a reference comes back as a new handle, with the class its object
\* has now, if it can be read.
ActGet ==
  /\ task.op = "get"
  /\ \/ \E o \in Objects : Wants({InstanceAt(o, heap[o])}, "none")
     \/ Wants({}, "none")
     \/ \E status \in {"BAD_ARGUMENT", "INVALID_POINTER", "UNSUPPORTED_TYPE"} : Fail(status, "none")

\* SetField: whether the statuses of ScriptValues come up depends on the value.
ActSet ==
  /\ task.op = "set"
  /\ \/ Fail("BAD_ARGUMENT", "none")
     \/ \E status \in WriteStatuses : Fail(status, IF status = "OK" THEN "done" ELSE "none")

\* InvokeMethod, once the arguments are marshalled: a result, of which an object
\* is registered; or the method throws half way, or crashes under the guard of
\* the invoker.
Invoked ==
  \/ Wants({}, "done")
  \/ \E o \in Objects : Wants({InstanceAt(o, heap[o])}, "done")
  \/ Fail("MANAGED_EXCEPTION", "part")
  \/ Fail("BAD_ARGUMENT", "part")

\* Invoke: of an object argument only the handle is resolved.
ArgumentFound == IF task.asked.arg = NoHandle THEN "OK" ELSE Resolution(task.asked.arg, "instance")
ActInvoke ==
  /\ task.op = "invoke"
  /\ \/ \E status \in Unresolved("invoke") \cup {"ARG_COUNT_MISMATCH"} \cup (ArgumentStatuses \ {"OK"}) :
          Fail(status, "none")
     \/ ArgumentFound # "OK" /\ Fail(ArgumentFound, "none")
     \/ ArgumentFound = "OK" /\ Invoked

\* The curated reads and writes at an offset of the object.
ActAbi ==
  /\ task.op = "abi"
  /\ \/ Fail("OK", "done")
     \/ \E status \in {"BAD_ARGUMENT", "INVALID_POINTER"} : Fail(status, "none")

Act ==
  /\ task # NoTask /\ task.step = "act"
  /\ ActLookup \/ ActFindMember \/ ActFindObjects \/ ActGet \/ ActSet \/ ActInvoke \/ ActAbi
  /\ UNCHANGED <<vars, identity, heap, proxies>>

\* MakeProxy and RegisterHandle, one handle a step: the script may end between
\* two of them.
RegisterNext ==
  /\ task # NoTask /\ task.step = "register"
  /\ \E request \in task.todo :
       /\ Register(task.owner, request.address, request.kind)
       /\ LET i == CHOOSE j \in Slots : entries'[j] # entries[j] IN
          /\ identity' = [identity EXCEPT ![i] = request.identity]
          /\ task' = [task EXCEPT !.todo = @ \ {request},
                                  !.got = @ \cup {[index |-> i, generation |-> nextGeneration,
                                                   kind |-> request.kind]}]
  /\ UNCHANGED <<heap, proxies, call>>

Finish ==
  /\ task # NoTask /\ task.step = "register" /\ task.todo = {}
  /\ End("OK", "OK", task.got, "done", FALSE)
  /\ UNCHANGED <<vars, identity, heap, proxies>>

\* An access violation in the engine's metadata, or in the frame of an ended
\* script's thread, where a task of the curated interface reads its context:
\* the guard around the task answers for the command, while the shared result
\* may already be OK.
Fault ==
  /\ task # NoTask
  /\ End("INVALID_POINTER", task.result, {}, task.effect, TRUE)
  /\ UNCHANGED <<vars, identity, heap, proxies>>

\* The game frees an object or uses its address again, between two tasks or in
\* a method that one of them calls.  Only a task reads the heap, so that the
\* last changes before it is claimed stand for those of the time before.
GameRuns ==
  /\ \/ task = NoTask /\ call # NoCall /\ call.phase = "queued"
     \/ task # NoTask /\ task.op = "invoke" /\ task.step = "register" /\ task.got = {}
  /\ \E o \in Objects, class \in Classes \cup {NoClass} : heap' = [heap EXCEPT ![o] = class]
  /\ UNCHANGED <<vars, identity, proxies, call, task>>

ScriptSteps == LaunchScript \/ (\E op \in Ops : Submit(op)) \/ Refuse \/ GiveUp \/ Return \/ EndScript
TaskSteps == Claim \/ Validate \/ Act \/ RegisterNext \/ Finish \/ Fault
ReflectionNext == ScriptSteps \/ TaskSteps \/ GameRuns
ReflectionSpec == ReflectionInit /\ [][ReflectionNext]_reflectionVars

-----------------------------------------------------------------------------
\* Whatever calls, late tasks and ends of scripts come together, what they do
\* to the registry is what the registry's own specification allows.
ImplementsRegistry == Spec

\* An operation works on the object its handle was registered for by the same
\* script, while an object of the class known then is at the address: an
\* address used again for another class is noticed, as is a handle of an older
\* script (script_reflection_lookup.cpp:85).
ActsOnTheNamedObject ==
  (task # NoTask /\ task.step = "act" /\ task.op \in InstanceOps) =>
    /\ \E r \in issued :
         /\ r.index = task.asked.handle.index /\ r.generation = task.asked.handle.generation
         /\ r.address = task.target /\ r.kind = "instance" /\ r.owner = task.owner
    /\ heap[task.target] # NoClass
    /\ task.owner \notin retired =>
         identity[task.asked.handle.index] \in {NoClass, heap[task.target]}

\* OK means that the operation was carried out, and a refusal that the game was
\* not touched; a timeout or a cancellation tells neither, nor does a method
\* that threw or crashed, nor an access violation outside the operation.
AnswersAreTrue ==
  (call # NoCall /\ call.phase = "answered" /\ ~call.faulted) =>
    LET status == StatusOf(call) IN
    /\ status = "OK" => call.effect = "done"
    /\ call.effect # "none" =>
         status \in {"OK", "TIMEOUT", "CANCELLED", "MANAGED_EXCEPTION"}
           \/ (call.op = "invoke" /\ status = "BAD_ARGUMENT")

\* Every proxy that a running script holds resolves, with its kind: no other
\* script's end, late task or reuse of an index takes it away.
ProxiesStayUsable ==
  /\ ReflectionTypeOK
  /\ current \notin retired =>
       \A p \in proxies : Resolves(p.index, p.generation, current, p.kind)

\* Conversions do not depend on the rest of the state: they are looked at where
\* a task converts a value while its caller waits.
Acting(op) == task # NoTask /\ task.op = op /\ task.step = "act" /\ task.waited

\* A script that writes back what it read leaves the field as it was, and what
\* one call returned it can pass to another, in every category of plain values
\* and up to their boundaries (an integer of 64 bits travels as text, because
\* a Lua number would round it), but for one loss: a float with a whole value
\* beyond int64_t comes back as the lowest int64_t (lua_proxy.cpp:220-222).  A
\* number that a script writes is stored or refused: nothing is cut to the width
\* of the field (value_writer.h:28, "no silent truncate"), an integer field takes
\* only the very number, a float loses bits of the mantissa or is that lowest
\* value.  No value that Lua has gets an answer other than the ones listed.
ValuesKeepTheirMeaning ==
  /\ Acting("get") => \A cat \in Copyable : ReadsBack(cat)
  /\ Acting("set") => \A cat \in Categories : StoresOrRefuses(cat)
=============================================================================
