--------------------------- MODULE CommandChannel ---------------------------
(***************************************************************************)
(* ScriptCommandChannel (src/scripting/bridge/script_command.cpp) on top   *)
(* of MainThreadDispatcher: a script thread submits a task, the Unity main *)
(* thread runs it, and the GUI thread may cancel everything in between.    *)
(*                                                                         *)
(* The deadline of a Submit is not modelled as a clock: it may pass at any *)
(* moment of a wait.  A step is one lock acquisition, one atomic operation *)
(* or one visible effect of the task.                                      *)
(*                                                                         *)
(* An operator whose name begins with Mut is no part of the model: it is a *)
(* bug put into the next operator, which some property must then reject.   *)
(***************************************************************************)
EXTENDS Naturals, Sequences, FiniteSets, SequencesExt

CONSTANTS
  Submitters,        \* script threads that may be inside Submit at once
  Gui,               \* the GUI thread: cancels, and enqueues invoke jobs
  GameThreads, NoThread, MaxQueueDepth, MaxJobsPerDrain,
  Capacity,          \* capacity_ (kDefaultScriptCommandChannelCapacity = 32)
  MaxCommands,       \* bound of the model: calls of Submit
  MaxGuiJobs         \* bound of the model: jobs the GUI thread enqueues

ASSUME ChannelAssumption ==
  /\ Gui \notin Submitters
  /\ IsFiniteSet(Submitters)
  /\ GameThreads \cap (Submitters \cup {Gui}) = {}
  /\ NoThread \notin GameThreads \cup Submitters \cup {Gui}
  /\ MaxQueueDepth \in Nat \ {0}
  /\ MaxJobsPerDrain \in Nat \ {0}
  /\ Capacity \in Nat \ {0}
  /\ MaxCommands \in Nat
  /\ MaxGuiJobs \in Nat

OurThreads == Submitters \cup {Gui}
Commands == 1..MaxCommands
NoCommand == 0
MaxAccepted == MaxCommands + MaxGuiJobs

VARIABLES queue, accepted, dropped, shutdown, mainThread, draining, left,
          running, drainedOnce, call, ran, started, lastStarted

D == INSTANCE MainThreadDispatcher
dispatcherVars == <<queue, accepted, dropped, shutdown, mainThread, draining, left,
                    running, drainedOnce, call, ran, started, lastStarted>>

VARIABLES
  jobOf,         \* what each accepted ticket runs: a command, or NoCommand for a GUI job
  pc,            \* where each submitter is in Submit
  cur,           \* the command each submitter is submitting
  verdict,       \* the local ScriptResult of each submitter
  calls,         \* commands handed out
  status,        \* ScriptCommand::status
  cancelReq,     \* ScriptCommand::cancelRequested
  answer,        \* ScriptCommand::resultStatus
  inFlight,      \* inFlightCount_
  active,        \* activeCommands_, in order of registration
  cancelled,     \* CancellationState of the running script instance
  canceller,     \* the GUI thread inside CancelAllPending
  snapshot,      \* commands its loop still has to visit, in order
  jobPc,         \* the main thread inside the job of a command
  task,          \* history: what happened to the task of each command
  outcome        \* history: what Submit returned for each command

submitVars == <<pc, cur, verdict, calls, outcome>>
commandVars == <<status, cancelReq, answer>>
channelVars == <<inFlight, active>>
cancelVars == <<cancelled, canceller, snapshot>>
mainVars == <<jobPc, task>>
vars == <<dispatcherVars, jobOf, submitVars, commandVars, channelVars, cancelVars, mainVars>>

Terminal == {"Succeeded", "Failed", "CancelledQueueFull", "CancelledTimeout",
             "CancelledShutdown", "TimeoutEngineStarvation"}
Statuses == {"Pending", "Queued", "Running"} \cup Terminal
Answers == {"BAD_ARGUMENT", "OK", "TASK_ERROR", "QUEUE_FULL", "TIMEOUT", "STARVATION", "CANCELLED"}
SubmitPcs == {"idle", "capacity", "register", "markQueued", "enqueue", "push",
              "wait", "timedOut", "timeoutMark", "erase", "endSubmit"}

TypeOK ==
  /\ D!TypeOK
  /\ jobOf \in Seq(Commands \cup {NoCommand})
  /\ pc \in [Submitters -> SubmitPcs]
  /\ cur \in [Submitters -> Commands \cup {NoCommand}]
  /\ verdict \in [Submitters -> Answers]
  /\ calls \in 0..MaxCommands
  /\ status \in [Commands -> Statuses]
  /\ cancelReq \in [Commands -> BOOLEAN]
  /\ answer \in [Commands -> Answers]
  /\ inFlight \in Nat
  /\ active \in Seq(Commands)
  /\ cancelled \in BOOLEAN
  /\ canceller \in {"idle", "snapshot", "visit", "mark"}
  /\ snapshot \in Seq(Commands)
  /\ jobPc \in {"none", "check", "invoke", "task", "mark", "done"}
  /\ task \in [Commands -> {"none", "claimed", "abandoned", "running", "ok", "failed"}]
  /\ outcome \in [Commands -> {"new", "open"} \cup (Answers \ {"BAD_ARGUMENT"})]

Init ==
  /\ D!Init
  /\ jobOf = <<>>
  /\ pc = [s \in Submitters |-> "idle"]
  /\ cur = [s \in Submitters |-> NoCommand]
  /\ verdict = [s \in Submitters |-> "OK"]
  /\ calls = 0
  /\ status = [c \in Commands |-> "Pending"]
  /\ cancelReq = [c \in Commands |-> FALSE]
  /\ answer = [c \in Commands |-> "BAD_ARGUMENT"]
  /\ inFlight = 0
  /\ active = <<>>
  /\ cancelled = FALSE
  /\ canceller = "idle"
  /\ snapshot = <<>>
  /\ jobPc = "none"
  /\ task = [c \in Commands |-> "none"]
  /\ outcome = [c \in Commands |-> "new"]

-----------------------------------------------------------------------------
(***************************************************************************)
(* ScriptCommand.                                                          *)
(***************************************************************************)
IsTerminal(c) == status[c] \in Terminal

MutMarkTerminalAlways(c, terminalStatus, result) ==
  /\ status' = [status EXCEPT ![c] = terminalStatus]
  /\ answer' = [answer EXCEPT ![c] = result]

\* The first terminal status wins; later ones are ignored.
MarkTerminal(c, terminalStatus, result) ==
  IF IsTerminal(c)
  THEN UNCHANGED <<status, answer>>
  ELSE /\ status' = [status EXCEPT ![c] = terminalStatus]
       /\ answer' = [answer EXCEPT ![c] = result]

\* vector::erase(remove(command)), of a command that is registered once
\* (SlotsBalance).
Without(commands, c) ==
  LET At == {i \in 1..Len(commands) : commands[i] = c}
  IN  IF At = {} THEN commands ELSE RemoveAt(commands, CHOOSE i \in At : TRUE)

MayRun(c) == ~cancelReq[c] /\ status[c] = "Queued"

MutKeepSlot == UNCHANGED inFlight

\* ScriptCommandChannel::EndSubmit.
GiveBackSlot == inFlight' = IF inFlight > 0 THEN inFlight - 1 ELSE 0

(***************************************************************************)
(* Submit.                                                                 *)
(***************************************************************************)
Goto(s, label) == pc' = [pc EXCEPT ![s] = label]

Return(s, result) ==
  /\ Goto(s, "idle")
  /\ outcome' = [outcome EXCEPT ![cur[s]] = result]
  /\ cur' = [cur EXCEPT ![s] = NoCommand]
  /\ verdict' = [verdict EXCEPT ![s] = "OK"]
  /\ UNCHANGED calls

\* ExecuteUnityTask and the first lines of Submit: a cancelled script or an
\* uncaptured main thread is refused before anything changes.
SubmitCall(s) ==
  /\ pc[s] = "idle"
  /\ calls < MaxCommands
  /\ ~cancelled
  /\ mainThread # NoThread
  /\ calls' = calls + 1
  /\ cur' = [cur EXCEPT ![s] = calls']
  /\ outcome' = [outcome EXCEPT ![calls'] = "open"]
  /\ Goto(s, "capacity")
  /\ UNCHANGED <<dispatcherVars, jobOf, verdict, commandVars, channelVars, cancelVars, mainVars>>

\* The capacity loop.  A full channel waits for EndSubmit or the deadline,
\* and looks at the cancellation only when it is woken.
AcquireSlot(s) ==
  /\ pc[s] = "capacity"
  /\ inFlight < Capacity
  /\ inFlight' = inFlight + 1
  /\ Goto(s, "register")
  /\ UNCHANGED <<dispatcherVars, jobOf, cur, verdict, calls, outcome, commandVars, active, cancelVars, mainVars>>

NoSlot(s) ==
  /\ pc[s] = "capacity"
  /\ inFlight >= Capacity
  /\ \/ cancelled /\ Return(s, "CANCELLED")
     \/ Return(s, "QUEUE_FULL")   \* the deadline passed
  /\ UNCHANGED <<dispatcherVars, jobOf, commandVars, channelVars, cancelVars, mainVars>>

Register(s) ==
  /\ pc[s] = "register"
  /\ active' = Append(active, cur[s])
  /\ Goto(s, "markQueued")
  /\ UNCHANGED <<dispatcherVars, jobOf, cur, verdict, calls, outcome, commandVars, inFlight, cancelVars, mainVars>>

\* A plain store: it overwrites whatever CancelAllPending wrote since the
\* command became visible in activeCommands_.
MarkQueued(s) ==
  /\ pc[s] = "markQueued"
  /\ status' = [status EXCEPT ![cur[s]] = "Queued"]
  /\ Goto(s, "enqueue")
  /\ UNCHANGED <<dispatcherVars, jobOf, cur, verdict, calls, outcome, cancelReq, answer, channelVars, cancelVars, mainVars>>

\* TryEnqueueNoDrop, first its unlocked shutdown test.  The dispatcher is
\* still open here: ControlPanelSessionState::BeginShutdown joins the script
\* worker before it closes the dispatcher.
EnqueueTest(s) ==
  /\ pc[s] = "enqueue"
  /\ D!EnqueueCall(s, "noDrop")
  /\ Goto(s, "push")
  /\ UNCHANGED <<jobOf, cur, verdict, calls, outcome, commandVars, channelVars, cancelVars, mainVars>>

EnqueuePush(s) ==
  /\ pc[s] = "push"
  /\ D!TryEnqueueNoDropLocked(s)
  /\ IF D!TryEnqueueAccepts
     THEN jobOf' = Append(jobOf, cur[s]) /\ Goto(s, "wait") /\ UNCHANGED verdict
     ELSE verdict' = [verdict EXCEPT ![s] = "QUEUE_FULL"] /\ Goto(s, "erase") /\ UNCHANGED jobOf
  /\ UNCHANGED <<cur, calls, outcome, commandVars, channelVars, cancelVars, mainVars>>

MutEndedIsSuccess(c) == IF status[c] # "Failed" THEN "OK" ELSE answer[c]

\* The result read from a finished command: its own answer, the mapping of
\* its status being only a fallback.
SnapshotResult(c) == IF status[c] = "Succeeded" THEN "OK" ELSE answer[c]

\* The waiter sees a terminal status, or the deadline passes first.
WaitDone(s) ==
  /\ pc[s] = "wait"
  /\ IsTerminal(cur[s])
  /\ verdict' = [verdict EXCEPT ![s] = SnapshotResult(cur[s])]
  /\ Goto(s, "erase")
  /\ UNCHANGED <<dispatcherVars, jobOf, cur, calls, outcome, commandVars, channelVars, cancelVars, mainVars>>

MutWaitForever(s) == FALSE

WaitTimeout(s) ==
  /\ pc[s] = "wait"
  /\ ~IsTerminal(cur[s])
  /\ Goto(s, "timedOut")
  /\ UNCHANGED <<dispatcherVars, jobOf, cur, verdict, calls, outcome, commandVars, channelVars, cancelVars, mainVars>>

TimeoutCancel(s) ==
  /\ pc[s] = "timedOut"
  /\ cancelReq' = [cancelReq EXCEPT ![cur[s]] = TRUE]
  /\ Goto(s, "timeoutMark")
  /\ UNCHANGED <<dispatcherVars, jobOf, cur, verdict, calls, outcome, status, answer, channelVars, cancelVars, mainVars>>

\* The answer is chosen from the dispatcher's health alone (never drained, or
\* not for kStarvationThresholdMs), even when the task ended meanwhile.
TimeoutMark(s) ==
  /\ pc[s] = "timeoutMark"
  /\ \/ /\ MarkTerminal(cur[s], "TimeoutEngineStarvation", "STARVATION")
        /\ verdict' = [verdict EXCEPT ![s] = "STARVATION"]
     \/ /\ drainedOnce
        /\ MarkTerminal(cur[s], "CancelledTimeout", "TIMEOUT")
        /\ verdict' = [verdict EXCEPT ![s] = "TIMEOUT"]
  /\ Goto(s, "erase")
  /\ UNCHANGED <<dispatcherVars, jobOf, cur, calls, outcome, cancelReq, channelVars, cancelVars, mainVars>>

Erase(s) ==
  /\ pc[s] = "erase"
  /\ active' = Without(active, cur[s])
  /\ Goto(s, "endSubmit")
  /\ UNCHANGED <<dispatcherVars, jobOf, cur, verdict, calls, outcome, commandVars, inFlight, cancelVars, mainVars>>

\* A command whose push was refused is marked last; no job refers to it.
EndSubmit(s) ==
  /\ pc[s] = "endSubmit"
  /\ GiveBackSlot
  /\ IF verdict[s] = "QUEUE_FULL"
     THEN MarkTerminal(cur[s], "CancelledQueueFull", "QUEUE_FULL")
     ELSE UNCHANGED <<status, answer>>
  /\ Return(s, verdict[s])
  /\ UNCHANGED <<dispatcherVars, jobOf, cancelReq, active, cancelVars, mainVars>>

SubmitStep(s) ==
  \/ AcquireSlot(s) \/ NoSlot(s) \/ Register(s) \/ MarkQueued(s)
  \/ EnqueueTest(s) \/ EnqueuePush(s)
  \/ WaitDone(s) \/ WaitTimeout(s) \/ TimeoutCancel(s) \/ TimeoutMark(s)
  \/ Erase(s) \/ EndSubmit(s)

-----------------------------------------------------------------------------
(***************************************************************************)
(* The job of a command, on the main thread.                               *)
(***************************************************************************)
JobCommand(t) == IF running[t] = D!NoJob THEN NoCommand ELSE jobOf[running[t]]

\* The job holds a weak_ptr: the command lives while a submitter, or the copy
\* CancelAllPending took, refers to it.
Referenced(c) == (\E s \in Submitters : cur[s] = c) \/ (\E i \in 1..Len(snapshot) : snapshot[i] = c)

Enter(t) ==
  /\ D!DetourEnter(t)
  /\ UNCHANGED <<jobOf, submitVars, commandVars, channelVars, cancelVars, mainVars>>

Pop(t) ==
  /\ D!DrainPop(t)
  /\ UNCHANGED <<jobOf, submitVars, commandVars, channelVars, cancelVars, mainVars>>

\* weak_ptr::lock and TryMarkRunning.
JobClaim(t) ==
  LET c == JobCommand(t) IN
  /\ c # NoCommand
  /\ jobPc = "none"
  /\ \/ /\ Referenced(c) /\ MayRun(c)
        /\ status' = [status EXCEPT ![c] = "Running"]
        /\ task' = [task EXCEPT ![c] = "claimed"]
        /\ jobPc' = "check"
        /\ UNCHANGED answer
     \/ /\ Referenced(c) /\ ~MayRun(c)
        /\ MarkTerminal(c, "CancelledShutdown", "CANCELLED")
        /\ jobPc' = "done"
        /\ UNCHANGED task
     \/ /\ ~Referenced(c)
        /\ jobPc' = "done"
        /\ UNCHANGED <<status, answer, task>>
  /\ UNCHANGED <<dispatcherVars, jobOf, submitVars, cancelReq, channelVars, cancelVars>>

JobCheck(t) ==
  LET c == JobCommand(t) IN
  /\ jobPc = "check" /\ c # NoCommand
  /\ \/ /\ cancelReq[c]
        /\ MarkTerminal(c, "CancelledTimeout", "CANCELLED")
        /\ task' = [task EXCEPT ![c] = "abandoned"]
        /\ jobPc' = "done"
     \/ /\ ~cancelReq[c]
        /\ jobPc' = "invoke"
        /\ UNCHANGED <<status, answer, task>>
  /\ UNCHANGED <<dispatcherVars, jobOf, submitVars, cancelReq, channelVars, cancelVars>>

\* RunTaskInline: the task starts, and later succeeds, fails or faults.
TaskBegin(t) ==
  LET c == JobCommand(t) IN
  /\ jobPc = "invoke" /\ c # NoCommand
  /\ task' = [task EXCEPT ![c] = "running"]
  /\ jobPc' = "task"
  /\ UNCHANGED <<dispatcherVars, jobOf, submitVars, commandVars, channelVars, cancelVars>>

TaskEnd(t) ==
  LET c == JobCommand(t) IN
  /\ jobPc = "task" /\ c # NoCommand
  /\ \E r \in {"ok", "failed"} : task' = [task EXCEPT ![c] = r]
  /\ jobPc' = "mark"
  /\ UNCHANGED <<dispatcherVars, jobOf, submitVars, commandVars, channelVars, cancelVars>>

JobMark(t) ==
  LET c == JobCommand(t) IN
  /\ jobPc = "mark" /\ c # NoCommand
  /\ IF task[c] = "ok" THEN MarkTerminal(c, "Succeeded", "OK")
                       ELSE MarkTerminal(c, "Failed", "TASK_ERROR")
  /\ jobPc' = "done"
  /\ UNCHANGED <<dispatcherVars, jobOf, submitVars, cancelReq, channelVars, cancelVars, task>>

Leave(t) ==
  /\ \/ /\ JobCommand(t) # NoCommand => jobPc = "done"
        /\ D!JobReturn(t)
        /\ jobPc' = "none"
     \/ D!DrainExit(t) /\ UNCHANGED jobPc
  /\ UNCHANGED <<jobOf, submitVars, commandVars, channelVars, cancelVars, task>>

MainStep(t) ==
  \/ Pop(t) \/ JobClaim(t) \/ JobCheck(t) \/ TaskBegin(t) \/ TaskEnd(t) \/ JobMark(t) \/ Leave(t)

-----------------------------------------------------------------------------
(***************************************************************************)
(* The GUI thread: invoke jobs with drop-oldest, and stopping the script.  *)
(***************************************************************************)
GuiJobs == Cardinality({n \in 1..Len(jobOf) : jobOf[n] = NoCommand})

GuiEnqueueTest ==
  /\ canceller = "idle"
  /\ GuiJobs < MaxGuiJobs
  /\ mainThread # NoThread
  /\ D!EnqueueCall(Gui, "dropOldest")
  /\ UNCHANGED <<jobOf, submitVars, commandVars, channelVars, cancelVars, mainVars>>

GuiEnqueue ==
  /\ D!EnqueueLocked(Gui)
  /\ jobOf' = Append(jobOf, NoCommand)
  /\ UNCHANGED <<submitVars, commandVars, channelVars, cancelVars, mainVars>>

\* ds.stop(), or a quarantine, between two calls of the script: the flag only.
ScriptStop(s) ==
  /\ pc[s] = "idle"
  /\ ~cancelled
  /\ cancelled' = TRUE
  /\ UNCHANGED <<dispatcherVars, jobOf, submitVars, commandVars, channelVars, canceller, snapshot, mainVars>>

\* RequestStop and a reload: the flag, then CancelAllPending.
StopScript ==
  /\ canceller = "idle" /\ call[Gui] = "idle"
  /\ cancelled' = TRUE
  /\ canceller' = "snapshot"
  /\ UNCHANGED <<dispatcherVars, jobOf, submitVars, commandVars, channelVars, snapshot, mainVars>>

TakeSnapshot ==
  /\ canceller = "snapshot"
  /\ snapshot' = active
  /\ canceller' = "visit"
  /\ UNCHANGED <<dispatcherVars, jobOf, submitVars, commandVars, channelVars, cancelled, mainVars>>

\* A terminal command is skipped, any other is cancelled and then marked.
VisitCommand ==
  LET c == Head(snapshot) IN
  /\ canceller = "visit"
  /\ snapshot # <<>>
  /\ IF IsTerminal(c)
     THEN snapshot' = Tail(snapshot) /\ UNCHANGED <<cancelReq, canceller>>
     ELSE /\ cancelReq' = [cancelReq EXCEPT ![c] = TRUE]
          /\ canceller' = "mark"
          /\ UNCHANGED snapshot
  /\ UNCHANGED <<dispatcherVars, jobOf, submitVars, status, answer, channelVars, cancelled, mainVars>>

MarkCancelled ==
  /\ canceller = "mark"
  /\ MarkTerminal(Head(snapshot), "CancelledShutdown", "CANCELLED")
  /\ snapshot' = Tail(snapshot)
  /\ canceller' = "visit"
  /\ UNCHANGED <<dispatcherVars, jobOf, submitVars, cancelReq, channelVars, cancelled, mainVars>>

CancelDone ==
  /\ canceller = "visit"
  /\ snapshot = <<>>
  /\ canceller' = "idle"
  /\ UNCHANGED <<dispatcherVars, jobOf, submitVars, commandVars, channelVars, cancelled, snapshot, mainVars>>

\* LaunchWorkerLocked, when the previous worker has left: a fresh script.
Relaunch ==
  /\ cancelled /\ canceller = "idle" /\ call[Gui] = "idle"
  /\ \A s \in Submitters : pc[s] = "idle"
  /\ cancelled' = FALSE
  /\ UNCHANGED <<dispatcherVars, jobOf, submitVars, commandVars, channelVars, canceller, snapshot, mainVars>>

Next ==
  \/ \E s \in Submitters : SubmitCall(s) \/ SubmitStep(s) \/ ScriptStop(s)
  \/ \E t \in GameThreads : Enter(t) \/ MainStep(t)
  \/ GuiEnqueueTest \/ GuiEnqueue
  \/ StopScript \/ TakeSnapshot \/ VisitCommand \/ MarkCancelled \/ CancelDone \/ Relaunch

Spec == Init /\ [][Next]_vars

-----------------------------------------------------------------------------
HoldsSlot(s) == pc[s] \notin {"idle", "capacity"}
Registered(s) == HoldsSlot(s) /\ pc[s] \notin {"register", "endSubmit"}
WasQueued(c) == \E n \in 1..Len(jobOf) : jobOf[n] = c

\* Every exit of Submit gives back exactly the slot and the registration it
\* took: a leak would end in a channel that refuses every command for ever.
SlotsBalance ==
  /\ inFlight = Cardinality({s \in Submitters : HoldsSlot(s)})
  /\ inFlight <= Capacity
  /\ {active[i] : i \in 1..Len(active)} = {cur[s] : s \in {x \in Submitters : Registered(x)}}
  /\ IsInjective(active)

\* The channel is well formed and its accounts balance, whoever leaves Submit by which exit.
ChannelConsistent == TypeOK /\ SlotsBalance

\* Submit never answers OK, or a task error, for work that did not run to
\* its end, and never QUEUE_FULL for work that did or will run; the main
\* thread commits to a task only while the submitter waits, and runs it once.
Contract == INSTANCE CommandContract
ImplementsContract == Contract!Spec

\* command_timeout_ms bounds every command (docs/examples/Manifest-Schema.md:98):
\* wherever a submitter is, it has a step of its own that no other thread
\* can withhold, although its job may have been dropped by an invoke, or the
\* game thread may never drain again; and Submit has no step backwards.
SubmitGoesOn == \A s \in Submitters : pc[s] # "idle" => ENABLED SubmitStep(s)

\* Once its job is in the dispatcher's queue the first terminal status of a
\* command stays, with its answer, whoever writes later: job, timeout, stop.
FirstTerminalWins ==
  [][\A c \in Commands :
       IsTerminal(c) /\ WasQueued(c) => status'[c] = status[c] /\ answer'[c] = answer[c]]_vars
=============================================================================
