---------------------------- MODULE ControlPanel ----------------------------
(***************************************************************************)
(* The control panel from the creation of its window to its end            *)
(* (src/gui/control_panel.cpp, src/gui/window.cpp), around the dispatcher. *)
(* The GUI thread and the thread of the live object search are its         *)
(* producers here; a script is another one, in CommandChannel.  The panel  *)
(* closes when the user closes it, when the game's window is gone          *)
(* (PollHostQuit), or when the game calls Application.Quit, which a detour *)
(* notices on the game's thread (src/services/application_quit_hook.cpp).  *)
(*                                                                         *)
(* On the way: method invocations, whose results reach the frames through  *)
(* one slot (invoke_request_queue.cpp), and the live search, which blocks  *)
(* on the main thread for ten seconds at most (live_object_finder.cpp).    *)
(*                                                                         *)
(* A frame is a few steps, because game threads write what it reads.  What *)
(* else a frame does is in Inspector, ImageScope and ScriptEngine.         *)
(***************************************************************************)
EXTENDS Naturals, Sequences, FiniteSets

CONSTANTS
  Gui,         \* CreateControlPanelThread
  Searcher,    \* instanceSearchThread
  GameThreads, NoThread, MaxQueueDepth, MaxJobsPerDrain, MaxAccepted,
  MaxQuits,    \* bound of the model: calls of Application.Quit
  MaxInvokes   \* bound of the model: jobs the GUI thread gives to the dispatcher

OurThreads == {Gui, Searcher}

ASSUME PanelAssumption ==
  /\ Gui # Searcher
  /\ GameThreads \cap OurThreads = {}
  /\ NoThread \notin GameThreads \cup OurThreads
  /\ {MaxQueueDepth, MaxJobsPerDrain} \subseteq Nat \ {0}
  /\ {MaxAccepted, MaxQuits, MaxInvokes} \subseteq Nat

VARIABLES queue, accepted, dropped, shutdown, mainThread, draining, left,
          running, drainedOnce, call, ran, started, lastStarted

D == INSTANCE MainThreadDispatcher
dispatcherVars == <<queue, accepted, dropped, shutdown, mainThread, draining, left,
                    running, drainedOnce, call, ran, started, lastStarted>>

VARIABLES
  gui,          \* where the GUI thread is
  window,       \* the panel's window: "none", "open", "gone"
  hwnd,         \* g_controlPanelHwnd is published
  notify,       \* g_quitNotify is registered
  hostQuitting, \* g_hostQuitting
  closes,       \* WM_CLOSE messages in the panel's queue
  quitMessage,  \* PostQuitMessage was called and WM_QUIT not read yet
  latched,      \* g_latchedHostHwnd: "none", "open" (a window of the game), "gone"
  quit,         \* where each game thread is in the detour of Application.Quit
  quits,        \* calls of Application.Quit so far
  search,       \* the live search: "none", "call", "wait"
  searchJob,    \* the ticket it waits for
  kind,         \* what each accepted job is
  result,       \* InvokeRequestQueue: latest result, version, pending audit
  toast,        \* the Methods tab: the version and the result it shows
  audited       \* the result of the last audit row

frameVars  == <<toast, audited>>
windowVars == <<window, hwnd, notify, closes, quitMessage>>
hostVars   == <<latched, quit, quits>>
searchVars == <<search, searchJob>>
panelVars  == <<gui, windowVars, hostQuitting, hostVars, searchVars, kind, result, frameVars>>
allVars    == <<dispatcherVars, panelVars>>

GuiPcs == {"create", "publish", "register", "renderer",
           "poll", "request", "post", "pump", "unregister", "unpublish", "destroyed",
           "audit", "readVersion", "copyResult", "input", "invoke", "cancel",
           "join", "closing", "clearing", "destroy", "off"}
QuitPcs == {"idle", "test", "request", "panel", "post"}
Kinds == {"invoke", "search"}

PanelTypeOK ==
  /\ D!TypeOK
  /\ gui \in GuiPcs
  /\ window \in {"none", "open", "gone"} /\ hwnd \in BOOLEAN /\ notify \in BOOLEAN
  /\ hostQuitting \in BOOLEAN /\ quitMessage \in BOOLEAN /\ closes \in Nat
  /\ latched \in {"none", "open", "gone"}
  /\ quit \in [GameThreads -> QuitPcs] /\ quits \in 0..MaxQuits
  /\ search \in {"none", "call", "wait"} /\ searchJob \in Nat
  /\ kind \in Seq(Kinds)
  /\ result \in [of : Nat, version : Nat, pending : BOOLEAN]
  /\ toast \in [of : Nat, version : Nat, read : Nat] /\ audited \in Nat

PanelInit ==
  /\ D!Init
  /\ gui = "create"
  /\ window = "none" /\ hwnd = FALSE /\ notify = FALSE
  /\ hostQuitting = FALSE /\ closes = 0 /\ quitMessage = FALSE
  /\ latched = "none"
  /\ quit = [t \in GameThreads |-> "idle"] /\ quits = 0
  /\ search = "none" /\ searchJob = D!NoJob
  /\ kind = <<>>
  /\ result = [of |-> D!NoJob, version |-> 0, pending |-> FALSE]
  /\ toast = [of |-> D!NoJob, version |-> 0, read |-> 0] /\ audited = D!NoJob

GuiGoes(from, to) == gui = from /\ gui' = to

\* PostMessageW(WM_CLOSE): lost when the window is gone.
PostClose == closes' = IF window = "open" THEN closes + 1 ELSE closes

-----------------------------------------------------------------------------
(***************************************************************************)
(* The panel's window.                                                     *)
(***************************************************************************)
\* Window::Create; the thread ends if there is no window.
CreateWindow ==
  /\ \/ GuiGoes("create", "publish") /\ window' = "open"
     \/ GuiGoes("create", "off") /\ UNCHANGED window
  /\ UNCHANGED <<dispatcherVars, hwnd, notify, closes, quitMessage, hostQuitting, hostVars, searchVars, kind, result, frameVars>>

PublishWindow ==
  /\ GuiGoes("publish", "register")
  /\ hwnd' = TRUE
  /\ UNCHANGED <<dispatcherVars, window, notify, closes, quitMessage, hostQuitting, hostVars, searchVars, kind, result, frameVars>>

SetQuitNotify ==
  /\ GuiGoes("register", "renderer")
  /\ notify' = TRUE
  /\ UNCHANGED <<dispatcherVars, window, hwnd, closes, quitMessage, hostQuitting, hostVars, searchVars, kind, result, frameVars>>

\* CreateControlPanel: without a renderer the window is destroyed again.
InitializeRenderer ==
  /\ GuiGoes("renderer", "poll") \/ GuiGoes("renderer", "destroy")
  /\ UNCHANGED <<dispatcherVars, windowVars, hostQuitting, hostVars, searchVars, kind, result, frameVars>>

\* WM_CLOSE reaches DefWindowProc, which destroys the window; the handler of
\* WM_DESTROY runs first.
PumpClose ==
  /\ GuiGoes("pump", "unregister")
  /\ closes > 0
  /\ UNCHANGED <<dispatcherVars, windowVars, hostQuitting, hostVars, searchVars, kind, result, frameVars>>

Unregister ==
  /\ GuiGoes("unregister", "unpublish")
  /\ notify' = FALSE
  /\ UNCHANGED <<dispatcherVars, window, hwnd, closes, quitMessage, hostQuitting, hostVars, searchVars, kind, result, frameVars>>

Unpublish ==
  /\ GuiGoes("unpublish", "destroyed")
  /\ hwnd' = FALSE
  /\ UNCHANGED <<dispatcherVars, window, notify, closes, quitMessage, hostQuitting, hostVars, searchVars, kind, result, frameVars>>

\* PostQuitMessage
LeaveLoop == quitMessage' = TRUE

\* The messages of a window go with it.
Destroyed ==
  /\ GuiGoes("destroyed", "pump")
  /\ LeaveLoop
  /\ window' = "gone" /\ closes' = 0
  /\ UNCHANGED <<dispatcherVars, hwnd, notify, hostQuitting, hostVars, searchVars, kind, result, frameVars>>

\* Window::Destroy, at the end of the thread.
DestroyWindow ==
  /\ GuiGoes("destroy", "off")
  /\ notify' = FALSE /\ hwnd' = FALSE
  /\ quitMessage' = (quitMessage \/ window = "open")
  /\ window' = "gone" /\ closes' = 0
  /\ UNCHANGED <<dispatcherVars, hostQuitting, hostVars, searchVars, kind, result, frameVars>>

-----------------------------------------------------------------------------
(***************************************************************************)
(* The end of the host.                                                    *)
(***************************************************************************)
\* FindHostGameWindow: a window of class UnityWndClass or, while there is none,
\* any other visible one; nothing depends on which it is.
FindHostGameWindow == {"none", "open"}

HostIsGone == latched = "gone" /\ gui' = "request" /\ UNCHANGED latched

\* PollHostQuit
PollHostQuit ==
  /\ gui = "poll"
  /\ \/ hostQuitting /\ gui' = "pump" /\ UNCHANGED latched
     \/ ~hostQuitting /\ latched = "none" /\ latched' \in FindHostGameWindow /\ gui' = "pump"
     \/ ~hostQuitting /\ latched = "open" /\ gui' = "pump" /\ UNCHANGED latched
     \/ ~hostQuitting /\ HostIsGone
  /\ UNCHANGED <<dispatcherVars, windowVars, hostQuitting, quit, quits, searchVars, kind, result, frameVars>>

RequestHostQuit ==
  /\ GuiGoes("request", "post")
  /\ hostQuitting' = TRUE
  /\ UNCHANGED <<dispatcherVars, windowVars, hostVars, searchVars, kind, result, frameVars>>

PollPostsClose ==
  /\ GuiGoes("post", "pump")
  /\ IF hwnd THEN PostClose ELSE UNCHANGED closes
  /\ UNCHANGED <<dispatcherVars, window, hwnd, notify, quitMessage, hostQuitting, hostVars, searchVars, kind, result, frameVars>>

\* The detour of Application.Quit, on a thread of the game: NotifyQuit and,
\* if something is registered by then, OnApplicationQuitNotify.
QuitGoes(t, from, to) == quit[t] = from /\ quit' = [quit EXCEPT ![t] = to]

ApplicationQuitDetour(t) ==
  /\ quits < MaxQuits
  /\ quits' = quits + 1
  /\ QuitGoes(t, "idle", IF notify THEN "test" ELSE "idle")
  /\ UNCHANGED <<dispatcherVars, gui, windowVars, hostQuitting, latched, searchVars, kind, result, frameVars>>

NotifyTests(t) == QuitGoes(t, "test", IF hostQuitting THEN "idle" ELSE "request")

MutNotifyForgetsPanel(t) == QuitGoes(t, "panel", "idle")

NotifyReadsPanel(t) == QuitGoes(t, "panel", IF hwnd THEN "post" ELSE "idle")

OnApplicationQuitNotify(t) ==
  /\ \/ NotifyTests(t) /\ UNCHANGED <<hostQuitting, closes>>
     \/ QuitGoes(t, "request", "panel") /\ hostQuitting' = TRUE /\ UNCHANGED closes
     \/ NotifyReadsPanel(t) /\ UNCHANGED <<hostQuitting, closes>>
     \/ QuitGoes(t, "post", "idle") /\ PostClose /\ UNCHANGED hostQuitting
  /\ UNCHANGED <<dispatcherVars, gui, window, hwnd, notify, quitMessage, latched, quits, searchVars, kind, result, frameVars>>

\* The game closes the window that is watched, the user closes the panel.
HostWindowCloses ==
  /\ latched = "open"
  /\ latched' = "gone"
  /\ UNCHANGED <<dispatcherVars, gui, windowVars, hostQuitting, quit, quits, searchVars, kind, result, frameVars>>

UserCloses ==
  /\ gui = "pump" /\ window = "open" /\ closes = 0
  /\ PostClose
  /\ UNCHANGED <<dispatcherVars, gui, window, hwnd, notify, quitMessage, hostQuitting, hostVars, searchVars, kind, result, frameVars>>

-----------------------------------------------------------------------------
(***************************************************************************)
(* The loop.                                                               *)
(***************************************************************************)
\* ProcessControlPanelMessages reads WM_QUIT after everything else.
PumpQuit ==
  /\ GuiGoes("pump", "join")
  /\ closes = 0 /\ quitMessage
  /\ quitMessage' = FALSE
  /\ UNCHANGED <<dispatcherVars, window, hwnd, notify, closes, hostQuitting, hostVars, searchVars, kind, result, frameVars>>

\* Nothing is left to read: wait (for 250 ms at most) and start over, or paint
\* a frame, unless the host quits.
PumpEmpty ==
  /\ closes = 0 /\ ~quitMessage
  /\ \/ GuiGoes("pump", "poll")
     \/ ~hostQuitting /\ GuiGoes("pump", "audit")
  /\ UNCHANGED <<dispatcherVars, windowVars, hostQuitting, hostVars, searchVars, kind, result, frameVars>>

AuditTaken == result' = [result EXCEPT !.pending = FALSE]

\* TickPresentSideEffects: an audit row for the latest result.
Audit ==
  /\ GuiGoes("audit", "readVersion")
  /\ IF result.pending THEN audited' = result.of /\ AuditTaken ELSE UNCHANGED <<audited, result>>
  /\ UNCHANGED <<dispatcherVars, windowVars, hostQuitting, hostVars, searchVars, kind, toast>>

\* The Methods tab reads the version without the lock, then the result.
ReadVersion ==
  /\ GuiGoes("readVersion", "copyResult")
  /\ toast' = [toast EXCEPT !.read = result.version]
  /\ UNCHANGED <<dispatcherVars, windowVars, hostQuitting, hostVars, searchVars, kind, result, audited>>

MutVersionReadLate == toast' = [of |-> toast.of, version |-> result.version, read |-> 0]

CopyLatest ==
  toast' = [of |-> IF toast.read # toast.version THEN result.of ELSE toast.of,
            version |-> toast.read, read |-> 0]

CopyResult ==
  /\ GuiGoes("copyResult", "input")
  /\ CopyLatest
  /\ UNCHANGED <<dispatcherVars, windowVars, hostQuitting, hostVars, searchVars, kind, result, audited>>

NoInput ==
  /\ GuiGoes("input", "poll")
  /\ UNCHANGED <<dispatcherVars, windowVars, hostQuitting, hostVars, searchVars, kind, result, frameVars>>

-----------------------------------------------------------------------------
(***************************************************************************)
(* Invocations and the live search.                                        *)
(***************************************************************************)
Invokes == Cardinality({n \in DOMAIN kind : kind[n] = "invoke"})

\* A job that was pushed is of this kind.
Pushed(k) == kind' = IF accepted' # accepted THEN Append(kind, k) ELSE kind

\* The Run button is disabled until the main thread is latched.
RunMethod ==
  /\ mainThread # NoThread /\ Invokes < MaxInvokes
  /\ GuiGoes("input", "invoke")
  /\ D!EnqueueCall(Gui, "dropOldest")
  /\ UNCHANGED <<windowVars, hostQuitting, hostVars, searchVars, kind, result, frameVars>>

EnqueueInvoke ==
  /\ GuiGoes("invoke", "poll")
  /\ D!EnqueueLocked(Gui) /\ Pushed("invoke")
  /\ UNCHANGED <<windowVars, hostQuitting, hostVars, searchVars, result, frameVars>>

\* The lambda of EnqueueInvoke publishes under the mutex of the slot; so the
\* results appear in the order in which the jobs return.
PublishResult(n) == result' = [of |-> n, version |-> result.version + 1, pending |-> TRUE]

JobEnds(t) ==
  /\ D!JobReturn(t)
  /\ IF kind[running[t]] = "invoke" THEN PublishResult(running[t]) ELSE UNCHANGED result
  /\ UNCHANGED <<gui, windowVars, hostQuitting, hostVars, searchVars, kind, frameVars>>

\* GetLiveInstances on the worker: nothing is asked before the latch.
FindInstances ==
  /\ search = "none" /\ mainThread # NoThread
  /\ GuiGoes("input", "poll")
  /\ search' = "call"
  /\ D!EnqueueCall(Searcher, "noDrop")
  /\ UNCHANGED <<windowVars, hostQuitting, hostVars, searchJob, kind, result, frameVars>>

SearchEnqueues ==
  /\ search = "call"
  /\ D!TryEnqueueNoDropLocked(Searcher) /\ Pushed("search")
  /\ search' = IF accepted' # accepted THEN "wait" ELSE "none"
  /\ searchJob' = IF accepted' # accepted THEN accepted' ELSE D!NoJob
  /\ UNCHANGED <<gui, windowVars, hostQuitting, hostVars, result, frameVars>>

\* The promise was kept, or broken: a job that is dropped or cleared is
\* destroyed with it.
FutureReady ==
  searchJob \notin {queue[n] : n \in DOMAIN queue} \cup {running[t] : t \in D!Threads}

\* kLiveFindDispatchTimeout may pass at any time.
DeadlinePasses == TRUE

SearchEnds ==
  /\ search = "wait"
  /\ FutureReady \/ DeadlinePasses
  /\ search' = "none" /\ searchJob' = D!NoJob
  /\ UNCHANGED <<dispatcherVars, gui, windowVars, hostQuitting, hostVars, kind, result, frameVars>>

\* A click that replaces what the inspector shows joins its workers first
\* (CancelInspectorCacheWriters), in the middle of the frame.
ClickReplacesView ==
  /\ GuiGoes("input", "cancel")
  /\ UNCHANGED <<dispatcherVars, windowVars, hostQuitting, hostVars, searchVars, kind, result, frameVars>>

CancelInspectorCacheWriters ==
  /\ GuiGoes("cancel", "poll")
  /\ search = "none"
  /\ UNCHANGED <<dispatcherVars, windowVars, hostQuitting, hostVars, searchVars, kind, result, frameVars>>

-----------------------------------------------------------------------------
(***************************************************************************)
(* BeginShutdown of the session, after the loop.                           *)
(***************************************************************************)
\* Workers are joined before the dispatcher is told.
JoinWorkers ==
  /\ GuiGoes("join", "closing")
  /\ search = "none"
  /\ UNCHANGED <<dispatcherVars, windowVars, hostQuitting, hostVars, searchVars, kind, result, frameVars>>

CloseDispatcher ==
  /\ GuiGoes("closing", "clearing")
  /\ D!BeginShutdownFlag
  /\ UNCHANGED <<windowVars, hostQuitting, hostVars, searchVars, kind, result, frameVars>>

ClearDispatcher ==
  /\ GuiGoes("clearing", "destroy")
  /\ D!BeginShutdownClear
  /\ UNCHANGED <<windowVars, hostQuitting, hostVars, searchVars, kind, result, frameVars>>

-----------------------------------------------------------------------------
\* A game thread is in one detour at a time.
Detour(t) ==
  /\ quit[t] = "idle"
  /\ \/ JobEnds(t)
     \/ /\ D!DetourEnter(t) \/ D!DrainPop(t) \/ D!DrainExit(t)
        /\ UNCHANGED panelVars

Window == CreateWindow \/ PublishWindow \/ SetQuitNotify \/ InitializeRenderer \/ PumpClose
            \/ Unregister \/ Unpublish \/ Destroyed \/ DestroyWindow
Loop == PollHostQuit \/ RequestHostQuit \/ PollPostsClose \/ PumpQuit \/ PumpEmpty
          \/ Audit \/ ReadVersion \/ CopyResult \/ NoInput \/ EnqueueInvoke
          \/ CancelInspectorCacheWriters
Shutdown == JoinWorkers \/ CloseDispatcher \/ ClearDispatcher

PanelNext ==
  \/ Window \/ Loop \/ Shutdown \/ RunMethod \/ FindInstances \/ ClickReplacesView
  \/ SearchEnqueues \/ SearchEnds
  \/ HostWindowCloses \/ UserCloses
  \/ \E t \in GameThreads : Detour(t) \/ ApplicationQuitDetour(t) \/ OnApplicationQuitNotify(t)

PanelSpec == PanelInit /\ [][PanelNext]_allVars

(***************************************************************************)
(* The GUI thread never waits without a time limit (250 ms when idle, 50   *)
(* once the host quits), so its loop proceeds; the wait of the search ends *)
(* at its deadline; a detour that was entered returns.  The game calls     *)
(* runtime_invoke and lets jobs return until it quits: nothing is expected *)
(* of it from then on.                                                     *)
(***************************************************************************)
PanelFairness ==
  /\ WF_allVars(Window \/ Loop \/ Shutdown)
  /\ WF_allVars(SearchEnqueues) /\ WF_allVars(SearchEnds)
  /\ \A t \in GameThreads :
       /\ WF_allVars(OnApplicationQuitNotify(t))
       /\ WF_allVars(~hostQuitting /\ Detour(t))

PanelFairSpec == PanelSpec /\ PanelFairness

-----------------------------------------------------------------------------
\* The panel ends when the host does, whichever of the two detectors sees it
\* first and wherever the GUI thread is; a search under way, and a game that
\* does not drain any more, do not hold it up.
PanelCloses == hostQuitting \/ latched = "gone" \/ quitMessage ~> gui = "off"

\* What a frame has shown is the latest result: a version that was displayed
\* belongs to a result at least as new as the one counted then, so that no
\* result stays hidden behind a toast that counts as up to date; and every
\* latest result has its audit row or still owes it.
ReportsAreCurrent ==
  /\ PanelTypeOK
  /\ toast.version = result.version => toast.of = result.of
  /\ result.pending \/ audited = result.of

\* No quit gets lost between the two detectors, of which only the one that
\* raised the flag tells the window: while the loop goes on and the flag is
\* up, a WM_CLOSE or the end of the loop is in the queue, or who raised the
\* flag is about to post one.
Looping == {"renderer", "poll", "request", "post", "pump", "audit", "readVersion", "copyResult",
            "input", "invoke", "cancel"}

NoQuitIsLost ==
  hostQuitting /\ gui \in Looping =>
    \/ closes > 0 \/ quitMessage
    \/ gui = "post" \/ \E t \in GameThreads : quit[t] \in {"panel", "post"}

\* The dispatcher is closed only when no thread of the panel is inside it or
\* waits for one of its jobs: the session joins its workers first
\* (src/gui/session_state.cpp:23-36), wherever the search is by then.
DispatcherOutlivesWorkers ==
  shutdown # "open" => search = "none" /\ \A p \in OurThreads : call[p] = "idle"
=============================================================================
