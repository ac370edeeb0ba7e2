---------------------------- MODULE ScriptEngine ----------------------------
(***************************************************************************)
(* The life cycle of a script (src/scripting/script_engine.cpp) as the     *)
(* panel drives it: one GUI thread that runs frames (Pump, paint, perhaps  *)
(* a click in the Scripting dock) and one worker thread per launched       *)
(* instance.  Everything the GUI does is sequential; the worker runs       *)
(* between any two steps of it.                                            *)
(*                                                                         *)
(* The worker runs the main chunk of the script, then its tick callback in *)
(* a loop, then its unload callback (runtime/luajit_runtime.cpp and        *)
(* runtime/lua_callbacks.cpp).  What the Lua code does is left open: it    *)
(* may return, raise, stop itself, take too long, or catch the error with  *)
(* which the instruction hook interrupts it.                               *)
(*                                                                         *)
(* An operator whose name begins with Mut is no part of the model: it is a *)
(* bug put into the next operator, which some property must then reject.   *)
(***************************************************************************)
EXTENDS Naturals, FiniteSets

CONSTANT MaxInstances   \* bound of the model: workers launched

ASSUME EngineAssumption == MaxInstances \in Nat \ {0}

Instances == 1..MaxInstances
NoWorker == 0

VARIABLES
  gui,           \* where the GUI thread is: in a frame, or inside Start / RequestStop
  shown,         \* the run state the frame being painted shows
  runState,      \* runState_
  last,          \* lastResult_: its run state and stop reason
  pending,       \* pendingStart_ holds options
  stopReason,    \* requestedStopReason_
  cancelled,     \* cancellation_
  finished,      \* workerFinished_
  unresponsive,  \* unresponsive_
  instance,      \* instanceId_
  worker,        \* the instance whose thread worker_ owns, or NoWorker
  phase,         \* where the thread of each instance is
  result,        \* runtimeResult.runState of each worker
  quarantine     \* quarantineRequested of the script that runs

guiVars == <<gui, shown>>
engineVars == <<runState, last, pending, stopReason>>
flagVars == <<cancelled, finished, unresponsive>>
runVars == <<result, quarantine>>
vars == <<guiVars, engineVars, flagVars, instance, worker, phase, runVars>>

EndStates == {"Completed", "Cancelled", "Failed", "LoadError", "Quarantined"}
ActiveStates == {"Running", "Stopping", "Reloading", "Unresponsive"}
RunStates == {"Idle"} \cup ActiveStates \cup EndStates
Reasons == {"None", "UserRequest", "Shutdown"}
AtRest == {"idle", "paint", "input"}

\* Where a script thread can be: in the main chunk, at the head of the tick
\* loop, in the tick callback, in WaitForCancelOrTimeout (about to evaluate
\* its predicate, found it false, blocked), or in the unload callback.
InScript == {"chunk", "test", "tick", "wait", "falling", "asleep", "unload"}
InEpilogue == {"publish", "invalidate", "clear", "finish"}

TypeOK ==
  /\ gui \in AtRest \cup {"startCancel", "stop", "shutdown", "join", "off"}
  /\ shown \in RunStates
  /\ runState \in RunStates \ {"Unresponsive"}
  /\ last \in [state : RunStates \ {"Unresponsive"}, reason : Reasons]
  /\ stopReason \in Reasons
  /\ {pending, cancelled, finished, unresponsive, quarantine} \subseteq BOOLEAN
  /\ instance \in 0..MaxInstances
  /\ worker \in Instances \cup {NoWorker}
  /\ phase \in [Instances -> InScript \cup InEpilogue \cup {"none", "exited"}]
  /\ result \in [Instances -> EndStates]

Init ==
  /\ gui = "idle"
  /\ shown = "Idle"
  /\ runState = "Idle"
  /\ last = [state |-> "Idle", reason |-> "None"]
  /\ stopReason = "None"
  /\ pending = FALSE /\ cancelled = FALSE /\ finished = FALSE /\ unresponsive = FALSE
  /\ quarantine = FALSE
  /\ instance = 0
  /\ worker = NoWorker
  /\ phase = [i \in Instances |-> "none"]
  /\ result = [i \in Instances |-> "Completed"]

IsActive(state) == state \in ActiveStates

\* GetRunState: a slow tick shows only while the script is Running.
GetRunState == IF runState = "Running" /\ unresponsive THEN "Unresponsive" ELSE runState

-----------------------------------------------------------------------------
(***************************************************************************)
(* Steps of ScriptEngine's methods.                                        *)
(***************************************************************************)

\* LaunchWorkerLocked: everything of the previous run is reset.
LaunchWorker ==
  /\ instance < MaxInstances
  /\ instance' = instance + 1
  /\ worker' = instance'
  /\ phase' = [phase EXCEPT ![instance'] = "chunk"]
  /\ quarantine' = FALSE
  /\ pending' = FALSE
  /\ cancelled' = FALSE
  /\ finished' = FALSE
  /\ unresponsive' = FALSE
  /\ stopReason' = "None"
  /\ runState' = "Running"
  /\ last' = [state |-> "Running", reason |-> "None"]
  /\ UNCHANGED result

MutStateInactive == ~IsActive(runState)

\* worker_ is not joinable, or workerFinished_ is set.
WorkerGone == worker = NoWorker \/ finished

\* Start with a path that resolves.  A live worker is asked to stop and the
\* options wait for Pump; a finished one is joined after the launch.
StartLocked ==
  \/ /\ ~WorkerGone
     /\ pending' = TRUE
     /\ stopReason' = "UserRequest"
     /\ runState' = "Reloading"
     /\ last' = [state |-> "Reloading", reason |-> "UserRequest"]
     /\ gui' = "startCancel"
     /\ UNCHANGED <<flagVars, instance, worker, phase, runVars>>
  \/ /\ WorkerGone
     /\ LaunchWorker
     /\ gui' = "idle"

\* Start with a path that does not resolve any more (the file is gone).
StartRefused ==
  /\ last' = [state |-> "LoadError", reason |-> "None"]
  /\ runState' = "LoadError"
  /\ gui' = "idle"
  /\ UNCHANGED <<pending, stopReason, flagVars, instance, worker, phase, runVars>>

\* CancellationState::RequestCancel: the flag, then a notification that wakes
\* whoever is blocked by then.  It does not take the mutex of the wait, so a
\* waiter that has just found its predicate false misses it.
RequestCancel ==
  /\ cancelled' = TRUE
  /\ phase' = [i \in Instances |-> IF phase[i] = "asleep" THEN "wait" ELSE phase[i]]

MutStartCancelsNothing ==
  /\ gui = "startCancel"
  /\ gui' = "idle"
  /\ UNCHANGED <<shown, engineVars, flagVars, instance, worker, phase, runVars>>

\* The cancellation of Start follows after mutex_ was released.
StartCancel ==
  /\ gui = "startCancel"
  /\ RequestCancel
  /\ gui' = "idle"
  /\ UNCHANGED <<shown, engineVars, finished, unresponsive, instance, worker, runVars>>

\* RequestStop, first the cancellation, then the state under mutex_.
RequestStopCancel(next) ==
  /\ RequestCancel
  /\ gui' = next
  /\ UNCHANGED <<engineVars, finished, unresponsive, instance, worker, runVars>>

RequestStopLocked(reason) ==
  /\ stopReason' = reason
  /\ pending' = FALSE
  /\ IF runState \in {"Running", "Reloading"}
     THEN runState' = "Stopping" /\ last' = [state |-> "Stopping", reason |-> reason]
     ELSE UNCHANGED <<runState, last>>
  /\ UNCHANGED <<shown, flagVars, instance, phase, runVars>>

StopLocked ==
  /\ gui = "stop"
  /\ RequestStopLocked("UserRequest")
  /\ gui' = "idle"
  /\ UNCHANGED worker

\* Shutdown takes worker_ and joins it before it returns.
ShutdownLocked ==
  /\ gui = "shutdown"
  /\ RequestStopLocked("Shutdown")
  /\ worker' = NoWorker
  /\ gui' = "join"

\* What jthread::join waits for.
Joined == instance # 0 => phase[instance] = "exited"

ShutdownJoin ==
  /\ gui = "join"
  /\ Joined
  /\ gui' = "off"
  /\ UNCHANGED <<shown, engineVars, flagVars, instance, worker, phase, runVars>>

-----------------------------------------------------------------------------
(***************************************************************************)
(* Frames (src/gui/control_panel.cpp) and the buttons of the Scripting     *)
(* dock (src/gui/views/dock/scripting_tab.cpp).                            *)
(***************************************************************************)

\* Pump: joins a finished worker and launches what waits for it.
Pump ==
  /\ gui = "idle"
  /\ gui' = "paint"
  /\ IF worker # NoWorker /\ finished
     THEN IF pending
          THEN LaunchWorker
          ELSE /\ worker' = NoWorker
               /\ finished' = FALSE
               /\ UNCHANGED <<engineVars, cancelled, unresponsive, instance, phase, runVars>>
     ELSE UNCHANGED <<engineVars, flagVars, instance, worker, phase, runVars>>
  /\ UNCHANGED shown

Paint ==
  /\ gui = "paint"
  /\ shown' = GetRunState
  /\ gui' = "input"
  /\ UNCHANGED <<engineVars, flagVars, instance, worker, phase, runVars>>

NoClick ==
  /\ gui = "input"
  /\ gui' = "idle"
  /\ UNCHANGED <<shown, engineVars, flagVars, instance, worker, phase, runVars>>

\* The buttons are enabled by the state the frame shows, not the current one.
CanStart == ~IsActive(shown)
CanReload == shown = "Running" \/ ~IsActive(shown)

ClickStart ==
  /\ gui = "input"
  /\ CanStart \/ CanReload
  /\ StartLocked \/ StartRefused
  /\ UNCHANGED shown

ClickStop ==
  /\ gui = "input"
  /\ IsActive(shown)
  /\ RequestStopCancel("stop")
  /\ UNCHANGED shown

\* The panel is closed: BeginShutdown stops the script with reason Shutdown.
ClosePanel ==
  /\ gui = "idle"
  /\ RequestStopCancel("shutdown")
  /\ UNCHANGED shown

-----------------------------------------------------------------------------
(***************************************************************************)
(* The script of instance i: RunScriptOnCurrentThread.                     *)
(***************************************************************************)
ToUnload(i, r) ==
  /\ result' = [result EXCEPT ![i] = r]
  /\ phase' = [phase EXCEPT ![i] = "unload"]

\* What an error that leaves the Lua code is reported as.  A script may raise
\* the text of the cancellation error itself.
Raised == IF quarantine THEN {"Quarantined"}
          ELSE IF cancelled THEN {"Cancelled"} ELSE {"Failed", "Cancelled"}

MarkSlow(slow) == unresponsive' = slow /\ UNCHANGED runState

\* ds.stop().
StopsItself(i) ==
  /\ phase[i] \in {"chunk", "tick", "unload"}
  /\ RequestCancel
  /\ UNCHANGED <<guiVars, engineVars, finished, unresponsive, instance, worker, runVars>>

\* The instruction hook gives up on a chunk or a tick.  It raises an error,
\* which the script may catch.
Quarantine(i) ==
  /\ phase[i] \in {"chunk", "tick"}
  /\ RequestCancel
  /\ quarantine' = TRUE
  /\ UNCHANGED <<guiVars, engineVars, finished, unresponsive, instance, worker, result>>

\* The file does not load (no unload then); the chunk returns, with or without
\* a tick callback; it raises.
ChunkEnds(i) ==
  /\ phase[i] = "chunk"
  /\ \/ /\ \E r \in {"LoadError", "Failed"} : result' = [result EXCEPT ![i] = r]
        /\ phase' = [phase EXCEPT ![i] = "publish"]
     \/ phase' = [phase EXCEPT ![i] = "test"] /\ UNCHANGED result
     \/ ToUnload(i, "Completed")
     \/ \E r \in Raised : ToUnload(i, r)
  /\ UNCHANGED <<guiVars, engineVars, flagVars, instance, worker, quarantine>>

\* RunTickLoop, the loop condition.
TestCancel(i) ==
  /\ phase[i] = "test"
  /\ \/ cancelled /\ ToUnload(i, "Cancelled")
     \/ ~cancelled /\ phase' = [phase EXCEPT ![i] = "tick"] /\ UNCHANGED result
  /\ UNCHANGED <<guiVars, engineVars, flagVars, instance, worker, quarantine>>

\* InvokeCallback of the tick: it returns in time or slowly, returns after the
\* hard budget (always so once the hook gave up on it), or raises.
TickEnds(i) ==
  /\ phase[i] = "tick"
  /\ \/ /\ ~quarantine
        /\ \E slow \in BOOLEAN : MarkSlow(slow)
        /\ phase' = [phase EXCEPT ![i] = "wait"]
        /\ UNCHANGED <<cancelled, runVars>>
     \/ /\ MarkSlow(FALSE)
        /\ cancelled' = TRUE /\ quarantine' = TRUE
        /\ ToUnload(i, "Quarantined")
     \/ /\ \E r \in Raised : ToUnload(i, r)
        /\ UNCHANGED <<runState, cancelled, unresponsive, quarantine>>
  /\ UNCHANGED <<guiVars, last, pending, stopReason, finished, instance, worker>>

\* WaitForCancelOrTimeout: the predicate, then blocked on the condition
\* variable until notified (RequestCancel) or until the interval is over.
EvaluatePredicate(i) ==
  /\ phase[i] = "wait"
  /\ \/ cancelled /\ ToUnload(i, "Cancelled")
     \/ ~cancelled /\ phase' = [phase EXCEPT ![i] = "falling"] /\ UNCHANGED result
  /\ UNCHANGED <<guiVars, engineVars, flagVars, instance, worker, quarantine>>

Block(i) ==
  /\ phase[i] = "falling"
  /\ phase' = [phase EXCEPT ![i] = "asleep"]
  /\ UNCHANGED <<guiVars, engineVars, flagVars, instance, worker, runVars>>

MutWaitsForNotification(i) == FALSE

IntervalOver(i) ==
  /\ phase[i] = "asleep"
  /\ \/ cancelled /\ ToUnload(i, "Cancelled")
     \/ ~cancelled /\ phase' = [phase EXCEPT ![i] = "test"] /\ UNCHANGED result
  /\ UNCHANGED <<guiVars, engineVars, flagVars, instance, worker, quarantine>>

\* InvokeUnload: no callback, or it returns (and clears the slow mark), or it
\* raises, after its deadline at the latest; only a failure or a quarantine
\* replaces the result.
UnloadEnds(i) ==
  /\ phase[i] = "unload"
  /\ \/ unresponsive' \in {unresponsive, FALSE} /\ UNCHANGED result
     \/ /\ \E r \in Raised :
             result' = IF r # "Cancelled" /\ result[i] # "Quarantined"
                       THEN [result EXCEPT ![i] = r] ELSE result
        /\ UNCHANGED unresponsive
  /\ phase' = [phase EXCEPT ![i] = "publish"]
  /\ UNCHANGED <<guiVars, engineVars, cancelled, finished, instance, worker, quarantine>>

-----------------------------------------------------------------------------
(***************************************************************************)
(* The rest of the worker thread: WorkerMain's epilogue.                   *)
(***************************************************************************)
\* The run state and the reason WorkerMain publishes.
PublishedState(i) == IF pending THEN "Reloading" ELSE result[i]

PublishedReason == IF stopReason # "None" THEN stopReason
                   ELSE IF cancelled THEN "UserRequest" ELSE "None"

\* Under mutex_.  A worker that is not the current instance any more leaves
\* the state alone.
Publish(i) ==
  /\ phase[i] = "publish"
  /\ IF instance = i
     THEN /\ last' = [state |-> result[i], reason |-> PublishedReason]
          /\ runState' = PublishedState(i)
          /\ phase' = [phase EXCEPT ![i] = "invalidate"]
          /\ UNCHANGED finished
     ELSE /\ finished' = TRUE
          /\ phase' = [phase EXCEPT ![i] = "exited"]
          /\ UNCHANGED <<last, runState>>
  /\ UNCHANGED <<guiVars, pending, stopReason, cancelled, unresponsive, instance, worker, runVars>>

\* handleRegistry_.InvalidateOwnedBy (HandleRegistry.tla), then the flags.
Epilogue(i) ==
  /\ \/ /\ phase[i] = "invalidate"
        /\ phase' = [phase EXCEPT ![i] = "clear"]
        /\ UNCHANGED <<finished, unresponsive>>
     \/ /\ phase[i] = "clear"
        /\ unresponsive' = FALSE
        /\ phase' = [phase EXCEPT ![i] = "finish"]
        /\ UNCHANGED finished
     \/ /\ phase[i] = "finish"
        /\ finished' = TRUE
        /\ phase' = [phase EXCEPT ![i] = "exited"]
        /\ UNCHANGED unresponsive
  /\ UNCHANGED <<guiVars, engineVars, cancelled, instance, worker, runVars>>

Frame == Pump \/ Paint \/ NoClick
Lua(i) == StopsItself(i) \/ Quarantine(i) \/ ChunkEnds(i) \/ TickEnds(i) \/ UnloadEnds(i)
Wait(i) == TestCancel(i) \/ EvaluatePredicate(i) \/ Block(i) \/ IntervalOver(i)
Worker(i) == Publish(i) \/ Epilogue(i)

Next ==
  \/ Frame \/ ClickStart \/ ClickStop \/ ClosePanel
  \/ StartCancel \/ StopLocked \/ ShutdownLocked \/ ShutdownJoin
  \/ \E i \in Instances : Lua(i) \/ Wait(i) \/ Worker(i)

Spec == Init /\ [][Next]_vars

(***************************************************************************)
(* Frames are guaranteed only while the run state is active (the wake-up   *)
(* test wantsPeriodicTick of the panel loop); a method of the engine that  *)
(* was entered proceeds, and so do the runtime's own loop and wait.  Lua   *)
(* code that is interrupted by the hook, because it was cancelled or is    *)
(* unloading, ends: it does not catch that error for ever.                 *)
(***************************************************************************)
Fairness ==
  /\ WF_vars(IsActive(runState) /\ Frame)
  /\ WF_vars(StartCancel) /\ WF_vars(StopLocked)
  /\ WF_vars(ShutdownLocked) /\ WF_vars(ShutdownJoin)
  /\ \A i \in Instances : 
       /\ WF_vars(cancelled /\ (ChunkEnds(i) \/ TickEnds(i))) /\ WF_vars(UnloadEnds(i))
       /\ WF_vars(Wait(i)) /\ WF_vars(Worker(i))

FairSpec == Spec /\ Fairness

-----------------------------------------------------------------------------
Live(i) == phase[i] \notin {"none", "exited"}
ScriptRuns == \E i \in Instances : phase[i] \in InScript

\* Two scripts never run at once: they would share one cancellation flag, one
\* command channel and one unresponsive flag.  None outlives the panel.
OneScriptAtATime ==
  /\ TypeOK
  /\ Cardinality({i \in Instances : Live(i)}) <= 1
  /\ \A i \in Instances : Live(i) => i = instance /\ gui # "off"

\* What the dock shows is so.  While it shows Stopping or Reloading over a
\* running script, that script has been told: a launch never wipes out a
\* cancellation meant for the script that runs.  It never shows a script as
\* running whose worker is gone, and shows a reload that waits as Reloading
\* whatever the old worker publishes meanwhile.
DockIsTrue ==
  /\ gui \in AtRest /\ runState \in {"Stopping", "Reloading"} /\ ScriptRuns => cancelled
  /\ runState = "Running" => instance # 0 /\ phase[instance] \in InScript \cup {"publish"}
  /\ gui \in AtRest /\ pending => runState = "Reloading"

\* What is asked for happens: a reload that was accepted is launched, unless
\* the user stops it first; a stop given to a running script ends it and
\* enables Start again; closing the panel, which joins the script, terminates.
RequestsAreServed ==
  /\ pending /\ instance < MaxInstances ~> ~pending
  /\ runState = "Stopping" /\ ScriptRuns ~> ~IsActive(runState) \/ gui = "off"
  /\ gui = "shutdown" ~> gui = "off"

\* "Refresh, select the package and Start / Stop / Reload" (README.md:116):
\* whatever was stopped can be started again.
StopEnablesStart ==
  runState = "Stopping" ~> ~IsActive(runState) \/ gui = "off"

=============================================================================
