------------------------ MODULE MainThreadDispatcher ------------------------
(***************************************************************************)
(* The bridge that runs jobs on the Unity main thread                      *)
(* (src/services/main_thread_dispatcher.cpp).  DllStalker's own threads    *)
(* append jobs to a bounded queue; the detour on the runtime's             *)
(* runtime_invoke export, which the game calls from its threads, pops and  *)
(* runs a small batch before it forwards to the original function.         *)
(*                                                                         *)
(* One action per lock acquisition or atomic operation.  A job is its      *)
(* ticket: the number of jobs accepted so far when it was accepted.        *)
(*                                                                         *)
(* An operator whose name begins with Mut is no part of the model: it is a *)
(* bug put into the next operator, which some property must then reject.   *)
(***************************************************************************)
EXTENDS Naturals, Sequences

CONSTANTS
  GameThreads,      \* threads of the game that call runtime_invoke
  OurThreads,       \* threads DllStalker tagged with TagCurrentThreadAsOurs
  NoThread,         \* g_mainThreadId = 0
  MaxQueueDepth,    \* kMaxQueueDepth (64 in the code)
  MaxJobsPerDrain,  \* kMaxJobsPerDrain (16 in the code)
  MaxAccepted       \* bound of the model: calls of Enqueue stop at this ticket

Threads == GameThreads \cup OurThreads

ASSUME DispatcherAssumption ==
  /\ GameThreads \cap OurThreads = {}
  /\ NoThread \notin Threads
  /\ MaxQueueDepth \in Nat \ {0}
  /\ MaxJobsPerDrain \in Nat \ {0}
  /\ MaxAccepted \in Nat

VARIABLES
  queue,        \* g_queue, a sequence of tickets, oldest first
  accepted,     \* tickets handed out: jobs pushed since start
  dropped,      \* g_droppedJobCount
  shutdown,     \* "open"; "closing": g_shuttingDown set; "closed": and queue cleared
  mainThread,   \* g_mainThreadId
  draining,     \* tl_drainingOnThisThread of each thread
  left,         \* iterations the DrainOnce loop of each thread still has
  running,      \* the ticket each thread is running, 0 when none
  drainedOnce,  \* g_lastDrainTickMs # 0
  call,         \* an Enqueue / TryEnqueueNoDrop call past its first shutdown test
  ran,          \* history: jobs run since the thread's detour was entered
  started,      \* history: number of jobs popped to be run
  lastStarted   \* history: ticket of the job popped last

queueVars   == <<queue, accepted, dropped>>
drainVars   == <<mainThread, draining, left, running, drainedOnce>>
historyVars == <<ran, started, lastStarted>>
vars == <<queueVars, shutdown, drainVars, call, historyVars>>

NoJob == 0
CallStates == {"idle", "dropOldest", "noDrop"}

TypeOK ==
  /\ queue \in Seq(Nat)
  /\ accepted \in Nat
  /\ dropped \in Nat
  /\ shutdown \in {"open", "closing", "closed"}
  /\ mainThread \in Threads \cup {NoThread}
  /\ draining \in [Threads -> BOOLEAN]
  /\ left \in [Threads -> Nat]
  /\ running \in [Threads -> Nat]
  /\ drainedOnce \in BOOLEAN
  /\ call \in [OurThreads -> CallStates]
  /\ ran \in [Threads -> Nat]
  /\ started \in Nat
  /\ lastStarted \in Nat

Init ==
  /\ queue = <<>>
  /\ accepted = 0
  /\ dropped = 0
  /\ shutdown = "open"
  /\ mainThread = NoThread
  /\ draining = [t \in Threads |-> FALSE]
  /\ left = [t \in Threads |-> 0]
  /\ running = [t \in Threads |-> NoJob]
  /\ drainedOnce = FALSE
  /\ call = [p \in OurThreads |-> "idle"]
  /\ ran = [t \in Threads |-> 0]
  /\ started = 0
  /\ lastStarted = 0

-----------------------------------------------------------------------------
(***************************************************************************)
(* Producers.                                                              *)
(***************************************************************************)

\* The unlocked test of g_shuttingDown; a call that fails it returns false
\* and changes nothing.
EnqueueCall(p, kind) ==
  /\ call[p] = "idle"
  /\ accepted < MaxAccepted
  /\ shutdown = "open"
  /\ call' = [call EXCEPT ![p] = kind]
  /\ UNCHANGED <<queueVars, shutdown, drainVars, historyVars>>

\* The tests that Enqueue and TryEnqueueNoDrop make under g_queueMutex.
Accepting == shutdown = "open"

Full == Len(queue) >= MaxQueueDepth

MutPushInFront(q) ==
  /\ accepted' = accepted + 1
  /\ queue' = <<accepted'>> \o q

Push(q) ==
  /\ accepted' = accepted + 1
  /\ queue' = Append(q, accepted')

MutDropUncounted == UNCHANGED dropped /\ Push(Tail(queue))
DropOldest == dropped' = dropped + 1 /\ Push(Tail(queue))

\* Enqueue under g_queueMutex: shutdown is tested again, and a full queue
\* loses its oldest job.
EnqueueLocked(p) ==
  /\ call[p] = "dropOldest"
  /\ call' = [call EXCEPT ![p] = "idle"]
  /\ \/ ~Accepting /\ UNCHANGED queueVars
     \/ Accepting /\ Full /\ DropOldest
     \/ Accepting /\ ~Full /\ Push(queue) /\ UNCHANGED dropped
  /\ UNCHANGED <<shutdown, drainVars, historyVars>>

\* TryEnqueueNoDrop under g_queueMutex: a full queue refuses the job.
TryEnqueueAccepts == Accepting /\ ~Full

TryEnqueueNoDropLocked(p) ==
  /\ call[p] = "noDrop"
  /\ call' = [call EXCEPT ![p] = "idle"]
  /\ IF TryEnqueueAccepts THEN Push(queue) ELSE UNCHANGED <<queue, accepted>>
  /\ UNCHANGED <<dropped, shutdown, drainVars, historyVars>>

-----------------------------------------------------------------------------
(***************************************************************************)
(* The detour.                                                             *)
(***************************************************************************)

MutMayDrainOnCapture(t) == t \notin OurThreads /\ ~draining[t] /\ mainThread = NoThread

MutMayDrainReentrantly(t) == t \notin OurThreads /\ mainThread \in {NoThread, t}

\* MaybeDrain: tagged threads and re-entrant calls forward at once, and so
\* does a thread that is not the one latched by the compare-exchange.
MayDrain(t) ==
  /\ t \notin OurThreads
  /\ ~draining[t]
  /\ mainThread \in {NoThread, t}

DetourEnter(t) ==
  /\ MayDrain(t)
  /\ mainThread' = t
  /\ draining' = [draining EXCEPT ![t] = TRUE]
  /\ left' = [left EXCEPT ![t] = MaxJobsPerDrain]
  /\ UNCHANGED <<queueVars, shutdown, running, drainedOnce, call, historyVars>>

\* The bound of the DrainOnce loop.
BudgetLeft(t) == left[t] > 0

\* One iteration of DrainOnce: pop under the lock, run outside it.
DrainPop(t) ==
  /\ draining[t]
  /\ running[t] = NoJob
  /\ BudgetLeft(t)
  /\ queue # <<>>
  /\ queue' = Tail(queue)
  /\ running' = [running EXCEPT ![t] = Head(queue)]
  /\ left' = [left EXCEPT ![t] = @ - 1]
  /\ ran' = [ran EXCEPT ![t] = @ + 1]
  /\ started' = started + 1
  /\ lastStarted' = Head(queue)
  /\ UNCHANGED <<accepted, dropped, shutdown, mainThread, draining, drainedOnce, call>>

\* The job returned, or faulted and was caught by RunJobWithSEH.
JobReturn(t) ==
  /\ running[t] # NoJob
  /\ running' = [running EXCEPT ![t] = NoJob]
  /\ UNCHANGED <<queueVars, shutdown, mainThread, draining, left, drainedOnce, call, historyVars>>

\* The loop ends on an empty queue or a spent budget; the tick is stamped
\* when the batch was not empty, and the call forwards to the original.
DrainExit(t) ==
  /\ draining[t]
  /\ running[t] = NoJob
  /\ ~BudgetLeft(t) \/ queue = <<>>
  /\ drainedOnce' = (drainedOnce \/ left[t] < MaxJobsPerDrain)
  /\ draining' = [draining EXCEPT ![t] = FALSE]
  /\ left' = [left EXCEPT ![t] = 0]
  /\ ran' = [ran EXCEPT ![t] = 0]
  /\ UNCHANGED <<queueVars, shutdown, mainThread, running, call, started, lastStarted>>

-----------------------------------------------------------------------------
(***************************************************************************)
(* Panel teardown.                                                         *)
(***************************************************************************)

BeginShutdownFlag ==
  /\ shutdown = "open"
  /\ shutdown' = "closing"
  /\ UNCHANGED <<queueVars, drainVars, call, historyVars>>

BeginShutdownClear ==
  /\ shutdown = "closing"
  /\ shutdown' = "closed"
  /\ queue' = <<>>
  /\ UNCHANGED <<accepted, dropped, drainVars, call, historyVars>>

Drain(t) == DrainPop(t) \/ JobReturn(t) \/ DrainExit(t)

Next ==
  \/ \E p \in OurThreads :
       \/ \E kind \in {"dropOldest", "noDrop"} : EnqueueCall(p, kind)
       \/ EnqueueLocked(p)
       \/ TryEnqueueNoDropLocked(p)
  \/ \E t \in Threads : DetourEnter(t) \/ Drain(t)
  \/ BeginShutdownFlag
  \/ BeginShutdownClear

Spec == Init /\ [][Next]_vars

(***************************************************************************)
(* The game drives runtime_invoke "every frame from its main thread"       *)
(* (main_thread_dispatcher.h:23-24) and every job it is given returns; the *)
(* producers owe nothing.                                                  *)
(***************************************************************************)
GameFairness ==
  \A t \in GameThreads : WF_vars(DetourEnter(t)) /\ WF_vars(Drain(t))

FairSpec == Spec /\ GameFairness

-----------------------------------------------------------------------------
Queued == {queue[i] : i \in 1..Len(queue)}

\* The queue never outgrows kMaxQueueDepth and always holds the most recent
\* tickets in the order they were accepted: whatever drops and drains
\* interleave, no job overtakes another and none is duplicated.
QueueIsNewestSuffix ==
  /\ Len(queue) <= MaxQueueDepth
  /\ shutdown # "closed" => \A i \in 1..Len(queue) : queue[i] = accepted - Len(queue) + i

\* No accepted job is lost without being counted: until the queue is cleared
\* every ticket was started, is counted in GetDroppedJobCount, or still waits.
JobsAccountedFor ==
  shutdown # "closed" => accepted = started + dropped + Len(queue)

\* Jobs run only on the latched thread, never on one of DllStalker's own.
DrainsOnMainThreadOnly ==
  \A t \in Threads : draining[t] \/ running[t] # NoJob =>
    /\ t = mainThread
    /\ t \in GameThreads
    /\ draining[t]

\* A frame is never held up by more than kMaxJobsPerDrain jobs, re-entrant
\* runtime_invoke calls made by those jobs included.
DrainIsBounded == \A t \in Threads : ran[t] <= MaxJobsPerDrain

\* The detour drains where and as much as it may: on the latched thread only,
\* a bounded batch per call.
DrainIsConfined == DrainsOnMainThreadOnly /\ DrainIsBounded

\* Once BeginShutdown returned nothing is queued any more, although callers
\* that passed the unlocked shutdown test before it may still be on their way.
ShutdownQuiesces == shutdown = "closed" => queue = <<>>

\* The queue is bounded, in order, fully accounted for, and stays empty after
\* the shutdown.
QueueIsSound == QueueIsNewestSuffix /\ JobsAccountedFor /\ ShutdownQuiesces

\* Jobs start in the order they were accepted, each at most once.
StartsInOrder ==
  [][lastStarted' # lastStarted => lastStarted' > lastStarted]_vars

\* No accepted job waits for ever: it is started, dropped or cleared.
QueuedJobsLeave ==
  \A n \in 1..(MaxAccepted + 2) : n \in Queued ~> n \notin Queued
=============================================================================
