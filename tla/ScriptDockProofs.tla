-------------------------- MODULE ScriptDockProofs --------------------------
(***************************************************************************)
(* Theorems about ScriptEngine, for any number of launched instances, and  *)
(* about ScriptDock, for any finite contents of the mods folder.           *)
(***************************************************************************)
EXTENDS ScriptDock, FiniteSetTheorems, WellFoundedInduction, TLAPS


(***************************************************************************)
(* The inductive invariant.  OneScriptAtATime needs to know that the       *)
(* instances before the current one have exited (Alone), which is so       *)
(* because a launch finds worker_ joined or workerFinished_ set (Owned).   *)
(* DockIsTrue needs that a stop signals before it writes the state (Told)  *)
(* and that a frame painted while a start is pending shows Reloading, so   *)
(* that none of its buttons starts over it (Shown).                        *)
(***************************************************************************)
Alone ==
  /\ \A i \in Instances : i > instance => phase[i] = "none"
  /\ \A i \in Instances : i < instance => phase[i] = "exited"
  /\ instance # 0 => phase[instance] # "none"

Owned ==
  /\ worker \in {NoWorker, instance}
  /\ finished => Joined
  /\ worker = NoWorker /\ gui # "join" => Joined
  /\ gui = "off" => Joined

Told ==
  /\ gui \in {"stop", "shutdown"} => cancelled
  /\ runState \in {"Stopping", "Reloading"} /\ gui # "startCancel" /\ ScriptRuns => cancelled

Shown ==
  /\ runState = "Running" => instance # 0 /\ phase[instance] \in InScript \cup {"publish"}
  /\ pending => runState = "Reloading"
  /\ gui = "input" /\ pending => shown = "Reloading"

IInv == TypeOK /\ Alone /\ Owned /\ Told /\ Shown

-----------------------------------------------------------------------------
LEMMA InitIInv == Init => IInv
<1> SUFFICES ASSUME Init PROVE IInv
  OBVIOUS
<1> USE DEF Init
<1>1. last \in [state : RunStates \ {"Unresponsive"}, reason : Reasons]
  BY DEF RunStates, ActiveStates, Reasons
<1>2. TypeOK
  <2>1. phase \in [Instances -> InScript \cup InEpilogue \cup {"none", "exited"}]
        /\ result \in [Instances -> EndStates]
    BY DEF EndStates
  <2>2. {pending, cancelled, finished, unresponsive, quarantine} \subseteq BOOLEAN
    OBVIOUS
  <2>3. gui \in AtRest /\ shown \in RunStates /\ runState \in RunStates \ {"Unresponsive"}
        /\ stopReason \in Reasons /\ instance \in 0..MaxInstances
    BY EngineAssumption DEF AtRest, RunStates, ActiveStates, Reasons
  <2> QED
    BY <1>1, <2>1, <2>2, <2>3 DEF TypeOK
<1>3. Alone /\ Owned
  BY DEF Alone, Joined, Owned, Instances
<1>4. Told /\ Shown
  BY DEF Told, Shown
<1> QED
  BY <1>2, <1>3, <1>4 DEF IInv

\* A thread that lives is that of the current instance.
LEMMA LiveIsCurrent ==
  ASSUME IInv, NEW i \in Instances, phase[i] \notin {"none", "exited"}
  PROVE  i = instance /\ instance \in Instances
BY DEF IInv, TypeOK, Alone, Instances

\* LaunchWorkerLocked, where nothing runs any more.
LEMMA LaunchStep ==
  ASSUME IInv, Joined, LaunchWorker, gui' \in {"idle", "paint"}, shown' \in RunStates
  PROVE  IInv'
<1> USE EngineAssumption DEF Instances, NoWorker, LaunchWorker
<1>1. instance \in Nat /\ instance' \in Instances /\ instance' = instance + 1
  BY DEF IInv, TypeOK
<1>2. phase' = [phase EXCEPT ![instance'] = "chunk"] /\ phase'[instance'] = "chunk"
      /\ \A i \in Instances : i # instance' => phase'[i] = phase[i]
  BY <1>1 DEF IInv, TypeOK
<1>r. last' \in [state : RunStates \ {"Unresponsive"}, reason : Reasons]
      /\ runState' \in RunStates \ {"Unresponsive"} /\ stopReason' \in Reasons
  BY DEF RunStates, ActiveStates, Reasons
<1>p. phase' \in [Instances -> InScript \cup InEpilogue \cup {"none", "exited"}]
  BY <1>1, <1>2 DEF IInv, TypeOK, InScript
<1>3. TypeOK'
  <2>1. {pending', cancelled', finished', unresponsive', quarantine'} \subseteq BOOLEAN
    OBVIOUS
  <2>2. gui' \in AtRest /\ instance' \in 0..MaxInstances /\ worker' \in Instances
    BY <1>1 DEF AtRest
  <2>3. result' \in [Instances -> EndStates]
    BY DEF IInv, TypeOK
  <2> QED
    BY <1>r, <1>p, <2>1, <2>2, <2>3 DEF TypeOK
<1>4. Alone'
  BY <1>1, <1>2 DEF IInv, TypeOK, Alone, Joined
<1>5. Owned'
  BY <1>1 DEF Owned
<1>6. Told' /\ Shown'
  BY <1>1, <1>2 DEF Told, Shown, InScript
<1> QED
  BY <1>3, <1>4, <1>5, <1>6 DEF IInv

\* worker_ is not joinable or workerFinished_ is set: nothing runs.
LEMMA GoneIsOver ==
  ASSUME IInv, WorkerGone, gui # "join"
  PROVE  Joined
BY DEF IInv, Owned, WorkerGone

-----------------------------------------------------------------------------
(* One lemma for each kind of step. *)

LEMMA FrameStep == ASSUME IInv, Frame PROVE IInv'
<1>1. CASE Pump
  <2>1. CASE worker # NoWorker /\ finished /\ pending
    <3>1. Joined
      BY <1>1, <2>1, GoneIsOver DEF WorkerGone, Pump
    <3> QED
      BY <1>1, <2>1, <3>1, LaunchStep DEF Pump, IInv, TypeOK
  <2>2. CASE worker # NoWorker /\ finished /\ ~pending
    <3>1. Joined /\ worker' = NoWorker /\ finished' = FALSE /\ gui' = "paint"
          /\ UNCHANGED <<engineVars, cancelled, unresponsive, instance, phase, runVars, shown>>
      BY <1>1, <2>2, GoneIsOver DEF WorkerGone, Pump
    <3> QED
      BY <1>1, <2>2, <3>1 DEF Pump, IInv, TypeOK, Alone, Joined, Owned, Told, Shown, ScriptRuns, engineVars,
            runVars, AtRest, NoWorker
  <2>3. CASE ~(worker # NoWorker /\ finished)
    BY <1>1, <2>3 DEF Pump, IInv, TypeOK, Alone, Joined, Owned, Told, Shown, ScriptRuns, engineVars, flagVars,
          runVars, AtRest
  <2> QED
    BY <2>1, <2>2, <2>3
<1>2. CASE Paint
  BY <1>2 DEF Paint, GetRunState, IInv, TypeOK, Alone, Joined, Owned, Told, Shown, ScriptRuns, engineVars,
        flagVars, runVars, AtRest, RunStates, ActiveStates
<1>3. CASE NoClick
  BY <1>3 DEF NoClick, IInv, TypeOK, Alone, Joined, Owned, Told, Shown, ScriptRuns, engineVars, flagVars,
        runVars, AtRest
<1> QED
  BY <1>1, <1>2, <1>3 DEF Frame

LEMMA ClickStartStep == ASSUME IInv, ClickStart PROVE IInv'
<1>1. gui = "input" /\ shown' = shown /\ shown \in RunStates /\ ~pending
  BY DEF ClickStart, CanStart, CanReload, IsActive, ActiveStates, IInv, TypeOK, Shown
<1>2. CASE StartLocked
  <2>1. CASE ~WorkerGone
    <3>1. /\ pending' = TRUE /\ runState' = "Reloading" /\ gui' = "startCancel"
          /\ stopReason' = "UserRequest"
          /\ last' = [state |-> "Reloading", reason |-> "UserRequest"]
          /\ UNCHANGED <<shown, flagVars, instance, worker, phase, runVars>>
      BY <1>1, <1>2, <2>1 DEF StartLocked
    <3>2. last' \in [state : RunStates \ {"Unresponsive"}, reason : Reasons]
          /\ runState' \in RunStates \ {"Unresponsive"} /\ stopReason' \in Reasons
      BY <3>1 DEF RunStates, ActiveStates, Reasons
    <3>3. TypeOK'
      BY <3>1, <3>2 DEF IInv, TypeOK, flagVars, runVars
    <3>4. Alone' /\ Owned'
      BY <1>1, <3>1 DEF IInv, Alone, Joined, Owned, flagVars
    <3> QED
      BY <3>1, <3>3, <3>4 DEF IInv, Told, Shown
  <2>2. CASE WorkerGone
    BY <1>1, <1>2, <2>2, GoneIsOver, LaunchStep DEF StartLocked
  <2> QED
    BY <2>1, <2>2
<1>3. CASE StartRefused
  BY <1>1, <1>3 DEF StartRefused, IInv, TypeOK, Alone, Joined, Owned, Told, Shown, ScriptRuns, flagVars,
        runVars, AtRest, RunStates, ActiveStates, EndStates, Reasons
<1> QED
  BY <1>2, <1>3 DEF ClickStart

\* RequestCancel wakes a blocked waiter; it stays inside the script.
LEMMA CancelFacts ==
  ASSUME IInv, RequestCancel
  PROVE  /\ cancelled' = TRUE
         /\ phase' \in [Instances -> InScript \cup InEpilogue \cup {"none", "exited"}]
         /\ \A i \in Instances : 
              /\ phase'[i] = phase[i] \/ (phase[i] = "asleep" /\ phase'[i] = "wait")
BY DEF RequestCancel, IInv, TypeOK, InScript

LEMMA CancelStep ==
  ASSUME IInv, RequestCancel,
         UNCHANGED <<engineVars, finished, unresponsive, instance, worker, result, shown>>,
         quarantine' \in BOOLEAN,
         \/ UNCHANGED gui
         \/ gui' \in {"stop", "shutdown", "idle"} /\ gui \notin {"join", "off"}
  PROVE  IInv'
<1>1. cancelled' = TRUE
      /\ phase' \in [Instances -> InScript \cup InEpilogue \cup {"none", "exited"}]
      /\ \A i \in Instances : phase'[i] = phase[i] \/ (phase[i] = "asleep" /\ phase'[i] = "wait")
  BY CancelFacts
<1>2. instance # 0 => instance \in Instances
  BY DEF IInv, TypeOK, Instances
<1>3. TypeOK'
  BY <1>1 DEF IInv, TypeOK, engineVars, AtRest
<1>4. Alone' /\ (Joined => Joined')
  BY <1>1, <1>2 DEF IInv, TypeOK, Alone, Joined
<1>5. Owned'
  BY <1>4 DEF IInv, Owned
<1>6. Told'
  BY <1>1 DEF Told
<1>7. Shown'
  BY <1>1, <1>2 DEF IInv, Shown, InScript, engineVars
<1> QED
  BY <1>3, <1>4, <1>5, <1>6, <1>7 DEF IInv

LEMMA SignalStep ==
  ASSUME IInv, ClickStop \/ ClosePanel \/ StartCancel
  PROVE  IInv'
BY CancelStep DEF ClickStop, ClosePanel, StartCancel, RequestStopCancel, runVars, IInv, TypeOK

LEMMA StopStep ==
  ASSUME IInv, StopLocked \/ ShutdownLocked \/ ShutdownJoin
  PROVE  IInv'
<1>1. CASE \E reason \in {"UserRequest", "Shutdown"} :
             /\ RequestStopLocked(reason) /\ gui \in {"stop", "shutdown"}
             /\ \/ gui = "stop" /\ gui' = "idle" /\ UNCHANGED worker
                \/ gui' = "join" /\ worker' = NoWorker
  <2>1. PICK reason \in {"UserRequest", "Shutdown"} : RequestStopLocked(reason)
    BY <1>1
  <2>2. /\ stopReason' = reason /\ pending' = FALSE
        /\ \/ /\ runState \in {"Running", "Reloading"} /\ runState' = "Stopping"
              /\ last' = [state |-> "Stopping", reason |-> reason]
           \/ /\ runState \notin {"Running", "Reloading"} /\ UNCHANGED <<runState, last>>
        /\ UNCHANGED <<shown, flagVars, instance, phase, runVars>>
    BY <2>1 DEF RequestStopLocked
  <2>3. last' \in [state : RunStates \ {"Unresponsive"}, reason : Reasons]
    BY <2>2 DEF IInv, TypeOK, RunStates, ActiveStates, Reasons
  <2>4. runState' \in RunStates \ {"Unresponsive"} /\ runState' # "Running" /\ stopReason' \in Reasons
    BY <2>2 DEF IInv, TypeOK, RunStates, ActiveStates, Reasons
  <2>5. TypeOK'
    BY <1>1, <2>2, <2>3, <2>4 DEF IInv, TypeOK, flagVars, runVars, AtRest
  <2>6. Alone' /\ Owned'
    BY <1>1, <2>2 DEF IInv, Alone, Joined, Owned, flagVars
  <2>7. Told' /\ Shown'
    BY <1>1, <2>2, <2>4 DEF IInv, Told, Shown, flagVars
  <2> QED
    BY <2>5, <2>6, <2>7 DEF IInv
<1>3. CASE ShutdownJoin
  BY <1>3 DEF ShutdownJoin, IInv, TypeOK, Alone, Joined, Owned, Told, Shown, ScriptRuns, engineVars,
        flagVars, runVars, AtRest
<1> QED
  BY <1>1, <1>3 DEF StopLocked, ShutdownLocked

\* The thread of the script moves on inside the script or to its publication.
LEMMA ScriptMoves ==
  ASSUME IInv, NEW i \in Instances, phase[i] \in InScript, NEW p \in InScript \cup {"publish"},
         phase' = [phase EXCEPT ![i] = p],
         result' \in [Instances -> EndStates], unresponsive' \in BOOLEAN, quarantine' \in BOOLEAN,
         cancelled' \in BOOLEAN, cancelled => cancelled',
         UNCHANGED <<guiVars, engineVars, finished, instance, worker>>
  PROVE  IInv'
<1>1. i = instance /\ instance \in Instances
  BY LiveIsCurrent DEF InScript
<1>2. phase' \in [Instances -> InScript \cup InEpilogue \cup {"none", "exited"}]
      /\ phase'[i] = p /\ \A j \in Instances : j # i => phase'[j] = phase[j]
  BY DEF IInv, TypeOK, InEpilogue
<1>3. TypeOK'
  BY <1>2 DEF IInv, TypeOK, guiVars, engineVars
<1>4. Alone' /\ Owned'
  BY <1>1, <1>2 DEF IInv, Alone, Joined, Owned, guiVars, InScript
<1>5. Told' /\ Shown'
  BY <1>1, <1>2 DEF IInv, Told, Shown, ScriptRuns, guiVars, engineVars
<1> QED
  BY <1>3, <1>4, <1>5 DEF IInv

LEMMA RaisedIsEnd == Raised \subseteq EndStates
BY DEF Raised, EndStates

LEMMA LuaStep == ASSUME IInv, NEW i \in Instances, Lua(i) PROVE IInv'
<1> USE RaisedIsEnd
<1>t. cancelled \in BOOLEAN /\ quarantine \in BOOLEAN /\ unresponsive \in BOOLEAN
      /\ result \in [Instances -> EndStates]
  BY DEF IInv, TypeOK
<1>1. CASE StopsItself(i)
  BY <1>1, <1>t, CancelStep DEF StopsItself, guiVars, runVars
<1>2. CASE Quarantine(i)
  BY <1>2, CancelStep DEF Quarantine, guiVars
<1>3. CASE ChunkEnds(i)
  <2>1. \E p \in InScript \cup {"publish"} : phase' = [phase EXCEPT ![i] = p]
    BY <1>3 DEF ChunkEnds, ToUnload, InScript
  <2>2. result' \in [Instances -> EndStates]
    BY <1>3, <1>t DEF ChunkEnds, ToUnload, EndStates
  <2> QED
    BY <1>3, <1>t, <2>1, <2>2, ScriptMoves DEF ChunkEnds, InScript, flagVars
<1>4. CASE TickEnds(i)
  <2>1. \E p \in InScript \cup {"publish"} : phase' = [phase EXCEPT ![i] = p]
    BY <1>4 DEF TickEnds, ToUnload, InScript
  <2>2. result' \in [Instances -> EndStates]
    BY <1>4, <1>t DEF TickEnds, ToUnload, EndStates, runVars
  <2>3. unresponsive' \in BOOLEAN /\ quarantine' \in BOOLEAN /\ cancelled' \in BOOLEAN
        /\ (cancelled => cancelled')
    BY <1>4, <1>t DEF TickEnds, ToUnload, MarkSlow, runVars
  <2>4. UNCHANGED <<guiVars, engineVars, finished, instance, worker>>
    BY <1>4 DEF TickEnds, MarkSlow, engineVars
  <2> QED
    BY <1>4, <2>1, <2>2, <2>3, <2>4, ScriptMoves DEF TickEnds, InScript
<1>5. CASE UnloadEnds(i)
  <2>2. result' \in [Instances -> EndStates]
    BY <1>5, <1>t DEF UnloadEnds
  <2>3. unresponsive' \in BOOLEAN
    BY <1>5, <1>t DEF UnloadEnds
  <2> QED
    BY <1>5, <1>t, <2>2, <2>3, ScriptMoves DEF UnloadEnds, InScript
<1> QED
  BY <1>1, <1>2, <1>3, <1>4, <1>5 DEF Lua

LEMMA WaitStep == ASSUME IInv, NEW i \in Instances, Wait(i) PROVE IInv'
<1>t. cancelled \in BOOLEAN /\ quarantine \in BOOLEAN /\ unresponsive \in BOOLEAN
      /\ result \in [Instances -> EndStates]
  BY DEF IInv, TypeOK
<1>1. phase[i] \in InScript /\ \E p \in InScript \cup {"publish"} : phase' = [phase EXCEPT ![i] = p]
  BY DEF Wait, TestCancel, EvaluatePredicate, Block, IntervalOver, ToUnload, InScript
<1>2. result' \in [Instances -> EndStates]
  BY <1>t DEF Wait, TestCancel, EvaluatePredicate, Block, IntervalOver, ToUnload, EndStates, runVars
<1>3. UNCHANGED <<guiVars, engineVars, flagVars, instance, worker, quarantine>>
  BY DEF Wait, TestCancel, EvaluatePredicate, Block, IntervalOver, runVars
<1> QED
  BY <1>t, <1>1, <1>2, <1>3, ScriptMoves DEF flagVars

LEMMA WorkerStep == ASSUME IInv, NEW i \in Instances, Worker(i) PROVE IInv'
<1>1. phase[i] \in InEpilogue
  BY DEF Worker, Publish, Epilogue, InEpilogue
<1>2. i = instance /\ instance \in Instances
  BY <1>1, LiveIsCurrent DEF InEpilogue
<1>3. CASE Publish(i)
  <2>1. /\ last' = [state |-> result[i], reason |-> PublishedReason]
        /\ runState' = PublishedState(i)
        /\ phase' = [phase EXCEPT ![i] = "invalidate"]
        /\ UNCHANGED <<guiVars, pending, stopReason, cancelled, unresponsive, finished, instance, worker, runVars>>
    BY <1>2, <1>3 DEF Publish
  <2>2. result[i] \in EndStates /\ PublishedReason \in Reasons
    BY DEF IInv, TypeOK, PublishedReason, Reasons
  <2>3. phase'[i] = "invalidate" /\ (\A j \in Instances : j # i => phase'[j] = phase[j])
        /\ phase' \in [Instances -> InScript \cup InEpilogue \cup {"none", "exited"}]
    BY <2>1 DEF IInv, TypeOK, InEpilogue
  <2>4. runState' \in RunStates \ {"Unresponsive"} /\ runState' # "Running"
        /\ last' \in [state : RunStates \ {"Unresponsive"}, reason : Reasons]
    BY <2>1, <2>2 DEF PublishedState, RunStates, ActiveStates, EndStates
  <2>5. TypeOK'
    BY <2>1, <2>3, <2>4 DEF IInv, TypeOK, guiVars, runVars
  <2>6. Alone' /\ Owned'
    BY <1>2, <1>3, <2>1, <2>3 DEF IInv, Alone, Joined, Owned, guiVars, Publish
  <2>7. ~ScriptRuns'
    BY <1>2, <2>1, <2>3 DEF ScriptRuns, IInv, Alone, InScript, Instances
  <2>8. Told' /\ Shown'
    BY <2>1, <2>4, <2>7 DEF IInv, Told, Shown, guiVars, PublishedState
  <2> QED
    BY <2>5, <2>6, <2>8 DEF IInv
<1>4. CASE Epilogue(i)
  <2>t. finished \in BOOLEAN
    BY DEF IInv, TypeOK
  <2>1. \E p \in {"clear", "finish", "exited"} :
           /\ phase' = [phase EXCEPT ![i] = p] /\ finished' \in BOOLEAN
           /\ (finished' => finished \/ p = "exited")
    <3>1. CASE phase[i] = "invalidate"
      BY <1>4, <2>t, <3>1 DEF Epilogue
    <3>2. CASE phase[i] = "clear"
      BY <1>4, <2>t, <3>2 DEF Epilogue
    <3>3. CASE phase[i] = "finish"
      BY <1>4, <3>3 DEF Epilogue
    <3> QED
      BY <1>4, <3>1, <3>2, <3>3 DEF Epilogue
  <2>2. unresponsive' \in BOOLEAN /\ phase[i] \in {"invalidate", "clear", "finish"}
        /\ UNCHANGED <<guiVars, engineVars, cancelled, instance, worker, runVars>>
    BY <1>4 DEF Epilogue, IInv, TypeOK
  <2>3. TypeOK'
    BY <2>1, <2>2 DEF IInv, TypeOK, guiVars, engineVars, runVars, InEpilogue
  <2>4. Alone' /\ Owned'
    BY <1>2, <2>1, <2>2 DEF IInv, TypeOK, Alone, Joined, Owned, guiVars
  <2>5. ~ScriptRuns' /\ runState # "Running"
    BY <1>2, <2>1, <2>2 DEF ScriptRuns, IInv, TypeOK, Alone, Shown, InScript, Instances
  <2>6. Told' /\ Shown'
    BY <2>2, <2>5 DEF IInv, Told, Shown, guiVars, engineVars
  <2> QED
    BY <2>3, <2>4, <2>6 DEF IInv
<1> QED
  BY <1>3, <1>4 DEF Worker

-----------------------------------------------------------------------------
LEMMA NextIInv == IInv /\ [Next]_vars => IInv'
<1> SUFFICES ASSUME IInv, [Next]_vars PROVE IInv'
  OBVIOUS
<1>1. CASE Next
  BY <1>1, FrameStep, ClickStartStep, SignalStep, StopStep, LuaStep, WaitStep, WorkerStep DEF Next
<1>2. CASE UNCHANGED vars
  BY <1>2 DEF vars, guiVars, engineVars, flagVars, runVars, IInv, TypeOK, Alone, Joined, Owned, Told, Shown,
        ScriptRuns
<1> QED
  BY <1>1, <1>2

THEOREM Invariance == Spec => []IInv
BY InitIInv, NextIInv, PTL DEF Spec

\* Two scripts never run at once, and none outlives the panel: Start, Pump and
\* Shutdown against WorkerMain, in any order.
THEOREM OneScript == Spec => []OneScriptAtATime
<1>1. ASSUME IInv PROVE OneScriptAtATime
  <2>1. \A i \in Instances : Live(i) => i = instance
    BY <1>1, LiveIsCurrent DEF Live
  <2>2. gui = "off" => \A i \in Instances : ~Live(i)
    BY <1>1, <2>1 DEF IInv, TypeOK, Owned, Joined, Live, Instances, NoWorker
  <2>3. Cardinality({i \in Instances : Live(i)}) <= 1
    <3>1. {i \in Instances : Live(i)} \subseteq {instance}
      BY <2>1
    <3>2. IsFiniteSet({instance}) /\ Cardinality({instance}) = 1
      BY FS_Singleton
    <3> QED
      BY <3>1, <3>2, FS_Subset, FS_CardinalityType
  <2> QED
    BY <1>1, <2>1, <2>2, <2>3 DEF OneScriptAtATime, IInv
<1> QED
  BY <1>1, Invariance, PTL

\* What the dock shows is so: a stop or reload on display has reached the
\* script that runs, and nothing is shown as running that is gone.
THEOREM DockTrue == Spec => []DockIsTrue
<1>1. IInv => DockIsTrue
  BY DEF IInv, Told, Shown, DockIsTrue, AtRest
<1> QED
  BY <1>1, Invariance, PTL


-----------------------------------------------------------------------------
\* Under the dock the engine does what its own specification allows: the clicks
\* that only concern the list are clicks on nothing for it.
LEMMA DockStepIsEngineStep == [DockNext]_allVars => [Next]_vars
<1> SUFFICES ASSUME [DockNext]_allVars PROVE [Next]_vars
  OBVIOUS
<1>1. CASE DockFrame
  BY <1>1 DEF DockFrame, DockPump, Next, Frame
<1>2. CASE RefreshPackages \/ SelectPackage
  <2>1. NoClick
    BY <1>2 DEF RefreshPackages, SelectPackage, NoClick
  <2> QED
    BY <2>1 DEF Next, Frame
<1>3. CASE StartSelected
  BY <1>3 DEF StartSelected, Next
<1>4. CASE DockStop
  BY <1>4 DEF DockStop, Next
<1>5. CASE ClickStop \/ ClosePanel \/ StartCancel \/ ShutdownJoin
  BY <1>5 DEF Next
<1>6. CASE \E i \in Instances : Lua(i) \/ Wait(i) \/ Worker(i)
  BY <1>6 DEF Next
<1>7. CASE UNCHANGED allVars
  BY <1>7 DEF allVars
<1> QED
  BY <1>1, <1>2, <1>3, <1>4, <1>5, <1>6, <1>7 DEF DockNext

THEOREM EngineUnderDock == DockSpec => Spec
<1>1. DockInit => Init
  BY DEF DockInit
<1> QED
  BY <1>1, DockStepIsEngineStep, PTL DEF DockSpec, Spec

\* What is proved of the engine holds under the dock: ScriptEngine as
\* scripting_tab.cpp and control_panel.cpp drive it.
THEOREM DockedOneScript == DockSpec => []OneScriptAtATime
BY EngineUnderDock, OneScript, PTL

THEOREM DockedDockTrue == DockSpec => []DockIsTrue
BY EngineUnderDock, DockTrue, PTL

-----------------------------------------------------------------------------
LEMMA PathIsNotEmpty ==
  /\ \A a : <<a>> # NoPath
  /\ \A a, b : <<a, b>> # NoPath
<1>1. \A a : Len(<<a>>) = 1
  OBVIOUS
<1>2. \A a, b : Len(<<a, b>>) = 2
  OBVIOUS
<1>3. Len(<<>>) = 0
  OBVIOUS
<1> QED
  BY <1>1, <1>2, <1>3 DEF NoPath

Well(package) == package.valid <=> package.options.path # NoPath

\* A package has a path exactly if it can be started.
LEMMA PackageIsWell == ASSUME NEW name, NEW item PROVE Well(BuildPackage(name, item))
<1>1. CASE item.kind = "folder"
  <2> DEFINE m     == IF item.manifest = "whole" THEN LoadManifest(item.given) ELSE Defaults
             valid == item.manifest # "invalid" /\ EntryIsFile(item, m.entry)
             path  == IF valid THEN <<name, m.entry>> ELSE NoPath
             p     == [name |-> IF m.name = NoName THEN name ELSE m.name,
                       valid |-> valid, options |-> Options(path, m)]
  <2>1. BuildPackage(name, item) = p
    BY <1>1 DEF BuildPackage, BuildDirectoryPackage
  <2>2. p.valid = valid /\ p.options = Options(path, m)
    OBVIOUS
  <2>3. p.options.path = path
    BY <2>2 DEF Options
  <2>4. valid <=> path # NoPath
    BY PathIsNotEmpty
  <2> HIDE DEF p, path, valid, m
  <2> QED
    BY <2>1, <2>2, <2>3, <2>4 DEF Well
<1>2. CASE item.kind # "folder"
  <2>1. BuildPackage(name, item) = BuildLooseLuaPackage(name)
    BY <1>2 DEF BuildPackage
  <2>2. BuildLooseLuaPackage(name).valid = TRUE
        /\ BuildLooseLuaPackage(name).options = Options(<<name>>, Defaults)
    BY DEF BuildLooseLuaPackage
  <2>3. Options(<<name>>, Defaults).path = <<name>>
    BY DEF Options
  <2> QED
    BY <2>1, <2>2, <2>3, PathIsNotEmpty DEF Well
<1> QED
  BY <1>1, <1>2

IsList(found) ==
  /\ Len(found) \in Nat
  /\ found = <<>> \/ Len(found) > 0
  /\ \A i \in 1..Len(found) : Well(found[i])

\* A scan yields a list of such packages.
LEMMA ScanIsList ==
  ASSUME NEW mods \in Mods, NEW found \in Scans(mods)
  PROVE  IsList(found)
<1> DEFINE Built == [name \in DOMAIN mods |-> BuildPackage(name, mods[name])]
           n == Cardinality(DOMAIN mods)
<1>1. n \in Nat
  BY DockAssumption, FS_CardinalityType
<1>2. PICK s \in [1..n -> DOMAIN mods] : found = [i \in 1..n |-> Built[s[i]]]
  BY DEF Scans
<1>3. \A i \in 1..n : Built[s[i]] = BuildPackage(s[i], mods[s[i]])
  BY <1>2
<1> DEFINE S == {BuildPackage(name, mods[name]) : name \in DOMAIN mods}
<1>4. \A i \in 1..n : Built[s[i]] \in S
  BY <1>2, <1>3
<1> HIDE DEF Built, n, S
<1>5. found \in [1..n -> S]
  BY <1>2, <1>4
<1>6. Len(found) = n
  BY <1>1, <1>5
<1>8. found = <<>> \/ Len(found) > 0
  BY <1>1, <1>5
<1>7. \A i \in 1..n : found[i] = BuildPackage(s[i], mods[s[i]])
  BY <1>2, <1>3
<1> QED
  BY <1>1, <1>6, <1>7, <1>8, PackageIsWell DEF IsList

\* Where the file that is selected appears in a list.
SamePath(found) ==
  {i \in 1..Len(found) :
     HasSelection /\ Selected.valid /\ found[i].options.path = Selected.options.path}

\* The lookup finds the file that is selected if it is there.
LEMMA KeptIsSame ==
  ASSUME NEW found, IsList(found), SamePath(found) # {}
  PROVE  KeepSelection(found) \in SamePath(found)
<1>1. SamePath(found) \subseteq Nat /\ SamePath(found) \subseteq 1..Len(found)
  BY DEF SamePath, IsList
<1>2. found # <<>>
  BY <1>1
<1>3. KeepSelection(found) = CHOOSE i \in SamePath(found) : \A j \in SamePath(found) : i <= j
  BY <1>2 DEF KeepSelection, SamePath
<1>4. PICK i \in SamePath(found) : \A j \in SamePath(found) : <<j, i>> \notin OpToRel(<, Nat)
  BY <1>1, NatLessThanWellFounded, WFMin
<1>5. \A j \in SamePath(found) : i <= j
  <2> SUFFICES ASSUME NEW j \in SamePath(found), j < i PROVE FALSE
    BY <1>1
  <2>1. i \in Nat /\ j \in Nat
    BY <1>1
  <2>2. <<j, i>> \in Nat \X Nat /\ <<j, i>>[1] < <<j, i>>[2]
    BY <2>1
  <2>3. <<j, i>> \in OpToRel(<, Nat)
    BY ONLY <2>2 DEF OpToRel
  <2> QED
    BY <1>4, <2>3
<1> QED
  BY <1>3, <1>5

\* The selection is an index of the list, or none.
LEMMA KeptIsIndex ==
  ASSUME NEW found, IsList(found)
  PROVE  KeepSelection(found) \in 0..Len(found)
<1>1. Len(found) \in Nat /\ (found = <<>> \/ Len(found) > 0)
  BY DEF IsList
<1>2. CASE SamePath(found) = {}
  BY <1>1, <1>2 DEF KeepSelection, SamePath
<1>3. CASE SamePath(found) # {}
  <2>1. KeepSelection(found) \in 1..Len(found)
    BY <1>3, KeptIsSame DEF SamePath
  <2> QED
    BY <1>1, <2>1
<1> QED
  BY <1>2, <1>3

-----------------------------------------------------------------------------
(***************************************************************************)
(* The inductive invariant: the engine's, the list the dock shows, and the *)
(* options that were asked for, which wait exactly while a start is        *)
(* pending.  That they differ from the empty options a finished start      *)
(* leaves behind is what the list is needed for: only a package with a     *)
(* path can be started.                                                    *)
(***************************************************************************)
Listed == IsList(packages) /\ selected \in 0..Len(packages)

Requested ==
  /\ waiting = NoOptions <=> ~pending
  /\ asked = IF pending THEN waiting ELSE runs

DInv == IInv /\ Listed /\ Requested

LEMMA DInitInv == DockInit => DInv
<1> SUFFICES ASSUME DockInit PROVE DInv
  OBVIOUS
<1>1. IInv
  BY InitIInv DEF DockInit
<1>2. Listed
  BY DEF DockInit, Listed, IsList
<1>3. Requested
  BY DEF DockInit, Init, Requested
<1> QED
  BY <1>1, <1>2, <1>3 DEF DInv

\* A change of the list is no change of what was asked for.
LEMMA ListStep == ASSUME DInv, RefreshPackages \/ SelectPackage PROVE Listed' /\ Requested'
<1>1. Requested'
  BY DEF RefreshPackages, SelectPackage, engineVars, DInv, Requested
<1>2. CASE RefreshPackages
  <2>1. PICK mods \in Mods : packages' \in Scans(mods)
    BY <1>2 DEF RefreshPackages
  <2>2. IsList(packages')
    BY <2>1, ScanIsList
  <2>3. KeepSelection(packages') \in 0..Len(packages')
    BY <2>2, KeptIsIndex
  <2> QED
    BY <1>1, <1>2, <2>2, <2>3 DEF RefreshPackages, Listed
<1>3. CASE SelectPackage
  <2>1. packages' = packages /\ selected' \in 1..Len(packages) /\ Len(packages) \in Nat
    BY <1>3 DEF SelectPackage, DInv, Listed, IsList
  <2> QED
    BY <1>1, <2>1 DEF DInv, Listed
<1> QED
  BY <1>2, <1>3

LEMMA StartStep == ASSUME DInv, StartSelected PROVE Listed' /\ Requested'
<1>1. Selected.options # NoOptions
  <2>1. Selected.valid /\ selected \in 1..Len(packages)
    BY DEF StartSelected, HasSelection
  <2>2. Well(Selected)
    BY <2>1 DEF DInv, Listed, IsList, Selected
  <2>3. NoOptions.path = NoPath
    BY DEF NoOptions
  <2> QED
    BY <2>1, <2>2, <2>3 DEF Well
<1>2. instance \in Nat
  BY EngineAssumption DEF DInv, IInv, TypeOK
<1>3. CASE StartLocked
  <2>1. CASE ~WorkerGone
    <3>1. pending' = TRUE /\ instance' = instance /\ gui' = "startCancel"
      BY <1>3, <2>1 DEF StartLocked
    <3>2. waiting' = Selected.options /\ asked' = Selected.options
      BY <3>1 DEF StartSelected, PendingStart
    <3> QED
      BY <1>1, <3>1, <3>2 DEF StartSelected, DInv, Listed, Requested
  <2>2. CASE WorkerGone
    <3>1. pending' = FALSE /\ instance' = instance + 1 /\ gui' = "idle"
      BY <1>3, <2>2 DEF StartLocked, LaunchWorker
    <3>2. runs' = Selected.options /\ waiting' = NoOptions /\ asked' = Selected.options
      BY <1>2, <3>1 DEF StartSelected
    <3> QED
      BY <3>1, <3>2 DEF StartSelected, DInv, Listed, Requested
  <2> QED
    BY <2>1, <2>2
<1>4. CASE StartRefused
  BY <1>4 DEF StartRefused, StartSelected, DInv, Listed, Requested
<1> QED
  BY <1>3, <1>4 DEF StartSelected, ClickStart

LEMMA PumpStep == ASSUME DInv, DockPump PROVE Listed' /\ Requested'
<1>1. instance \in Nat
  BY EngineAssumption DEF DInv, IInv, TypeOK
<1>2. CASE worker # NoWorker /\ finished /\ pending
  <2>1. pending' = FALSE /\ instance' = instance + 1
    BY <1>2 DEF DockPump, Pump, LaunchWorker
  <2>2. runs' = waiting /\ waiting' = NoOptions
    BY <1>1, <2>1 DEF DockPump
  <2> QED
    BY <1>2, <2>1, <2>2 DEF DockPump, DInv, Listed, Requested
<1>3. CASE ~(worker # NoWorker /\ finished /\ pending)
  <2>1. pending' = pending /\ instance' = instance
    BY <1>3 DEF DockPump, Pump, engineVars
  <2> QED
    BY <2>1 DEF DockPump, DInv, Listed, Requested
<1> QED
  BY <1>2, <1>3

LEMMA DNextInv == DInv /\ [DockNext]_allVars => DInv'
<1> SUFFICES ASSUME DInv, [DockNext]_allVars PROVE DInv'
  OBVIOUS
<1>1. IInv'
  BY DockStepIsEngineStep, NextIInv DEF DInv
<1> SUFFICES Listed' /\ Requested'
  BY <1>1 DEF DInv
<1>2. ASSUME UNCHANGED dockVars, pending' = pending PROVE Listed' /\ Requested'
  BY <1>2 DEF dockVars, DInv, Listed, Requested
<1>3. CASE DockFrame
  BY <1>2, <1>3, PumpStep DEF DockFrame, Paint, NoClick, engineVars
<1>4. CASE RefreshPackages \/ SelectPackage
  BY <1>4, ListStep
<1>5. CASE StartSelected
  BY <1>5, StartStep
<1>6. CASE DockStop
  BY <1>6 DEF DockStop, StopLocked, ShutdownLocked, RequestStopLocked, DInv, Listed, Requested
<1>7. CASE (ClickStop \/ ClosePanel \/ StartCancel \/ ShutdownJoin) /\ UNCHANGED dockVars
  BY <1>2, <1>7 DEF ClickStop, ClosePanel, StartCancel, ShutdownJoin, RequestStopCancel, engineVars
<1>8. CASE \E i \in Instances : (Lua(i) \/ Wait(i) \/ Worker(i)) /\ UNCHANGED dockVars
  <2>1. PICK i \in Instances : (Lua(i) \/ Wait(i) \/ Worker(i)) /\ UNCHANGED dockVars
    BY <1>8
  <2>2. Lua(i) => pending' = pending
    BY DEF Lua, StopsItself, Quarantine, ChunkEnds, TickEnds, UnloadEnds, engineVars
  <2>3. Wait(i) => pending' = pending
    BY DEF Wait, TestCancel, EvaluatePredicate, Block, IntervalOver, engineVars
  <2>4. Worker(i) => pending' = pending
    BY DEF Worker, Publish, Epilogue, engineVars
  <2> QED
    BY <1>2, <2>1, <2>2, <2>3, <2>4
<1>9. CASE UNCHANGED allVars
  BY <1>2, <1>9 DEF allVars, vars, engineVars
<1> QED
  BY <1>3, <1>4, <1>5, <1>6, <1>7, <1>8, <1>9 DEF DockNext

\* Start and Reload run what was selected when they were clicked, with its
\* options (StartSelected, script_model.cpp; Start and Pump, script_engine.cpp),
\* whatever happens to the list until the old worker has ended.
THEOREM RunAsAsked == DockSpec => []RunIsAsAsked
<1>1. DInv => RunIsAsAsked
  BY DEF DInv, Listed, IsList, Well, Requested, RunIsAsAsked, DockTypeOK
<1> QED
  BY <1>1, DInitInv, DNextInv, PTL DEF DockSpec

\* RefreshPackages (script_model.cpp) does not move the selection to another
\* file as long as the selected one is found again.
THEOREM RefreshKeepsSelection == DockSpec => SelectionSurvivesRefresh
<1>1. ASSUME DInv, [DockNext]_allVars,
             packages' # packages, HasSelection, Selected.valid,
             \E i \in 1..Len(packages') : packages'[i].options.path = Selected.options.path
      PROVE  selected' # 0 /\ packages'[selected'].options.path = Selected.options.path
  <2>1. RefreshPackages
    BY <1>1 DEF DockNext, DockFrame, DockPump, SelectPackage, StartSelected, DockStop,
                dockVars, allVars
  <2>2. PICK mods \in Mods : packages' \in Scans(mods)
    BY <2>1 DEF RefreshPackages
  <2>3. IsList(packages')
    BY <2>2, ScanIsList
  <2>4. SamePath(packages') # {}
    BY <1>1 DEF SamePath
  <2>5. selected' \in SamePath(packages')
    BY <2>1, <2>3, <2>4, KeptIsSame DEF RefreshPackages
  <2> QED
    BY <2>5 DEF SamePath
<1>2. DInv /\ [DockNext]_allVars =>
        [packages' # packages /\ HasSelection /\ Selected.valid
           /\ (\E i \in 1..Len(packages') : packages'[i].options.path = Selected.options.path)
         => selected' # 0 /\ packages'[selected'].options.path = Selected.options.path]_allVars
  BY <1>1
<1> QED
  BY <1>2, DInitInv, DNextInv, PTL DEF DockSpec, SelectionSurvivesRefresh
=============================================================================
