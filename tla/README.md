# A formal model of DllStalker

DllStalker is a `version.dll` proxy that is loaded into a Unity game. It opens
its own control panel, inspects the managed heap, and runs Lua scripts against
it. Its own logic is spread over threads that share the process with a game it
does not control:

- the **GUI thread** (`src/gui/control_panel.cpp`): frames, clicks, shutdown;
- the **Unity main thread**, which DllStalker borrows whenever the game calls
  `runtime_invoke` (`src/services/main_thread_dispatcher.cpp`);
- one **script worker** per launched Lua script (`src/scripting/script_engine.cpp`);
- **loader threads** that fill caches for the GUI (`src/gui/state/runtime`);
- the **watch sampler** (`src/gui/state/fields/field_watch_model.cpp`).

All paths below are relative to `src/DllStalker/`.

## 1. Inventory

### Components with a state machine

| component | state it keeps | operations | talks to | hard behaviour |
|---|---|---|---|---|
| Main-thread dispatcher | bounded queue, latched thread id, per-thread re-entrancy flag, shutdown flag | `Enqueue` (drops the oldest), `TryEnqueueNoDrop`, the detour's drain, `BeginShutdown` | called by GUI, scripts, live search; runs their jobs | producers, drains and the shutdown interleave; nested detours |
| Script command channel | in-flight count, active commands, and per command a status, a cancel flag, an answer | `Submit`, `CancelAllPending`, the job on the main thread | dispatcher below, reflection API above, engine cancels | timeout against completion, cancel against registration, dropped jobs |
| Script engine, Lua runtime | run state, last result, pending start, flags shared with the worker, tick loop, watchdog | `Start`, `RequestStop`, `Pump`, `WorkerMain`; run, tick, quarantine, unload | dock buttons, channel, handle registry | a stop, a reload and the end of a script in any order; a notification that is missed |
| Scripting dock | packages, selection, options of the run and of the pending start | scan, select, Start, Stop, Reload | engine, files | the list is replaced under a selection while a reload waits |
| Handle registry | entries with generations, free list | `Register`, `InvalidateOwnedBy`, `ResolveAndValidate` | reflection tasks on the main thread, engine | index reuse, late registrations |
| Reflection API | the task a call shares with the main thread, proxies of the script | lookup, find, get, set, invoke | channel, registry, engine exports | a task outlives its caller and its instance; objects are collected, addresses reused |
| Method call hooks, call log | hook slots, log ring | install, uninstall, `OnHit` | any game thread | slots read without the installer's lock |
| Async loaders and reconciler | inspector cache, image and class lists, in-progress flags, jthreads | start, stop and join, publish; one reconciling tick per frame | GUI models, metadata | a worker that still publishes while it is joined; decisions on a copy |
| Value search, method index | run number, hits, index and its identity, status | start, drill, stop, filter | class list, image selection | a result that arrives after its run was cancelled; addresses reused |
| Value scanner | none of its own; walks objects by their schema | search, drill | metadata, live memory | pruning that loses or repeats slots; a drill over memory that moved |
| History, walker, bookmarks | bounded rows, breadcrumb stack, recipes | record, navigate, jump back, restore, replay | inspector, loaders, session file | a row restored into a later selection; objects that are gone; names that must lead back |
| Fields tab | rows, edit texts, a snapshot and its differences | refresh, type, apply, add an element, snapshot | loaders, live memory | rows replaced under texts and edits; lists that move |
| Watch list | entries, plot selection, sampler jobs | toggle, remove, clear, sample | live memory, session file | results applied to a list that changed |
| Session persistence | `watches.json`, `bookmarks.json` | save, load, quarantine, rebind | watch list, bookmarks | a crash inside a save; addresses that come late |
| Panel window, host quit | window handle, quit flag, notify pointer | create, poll, the Quit detour, pump, shutdown | loop, dispatcher, workers | two detectors of one event; a game that stops draining |
| Invocation queue, live search | latest result and version; a ticket with a deadline | `EnqueueInvoke`, publish, audit, toast; `GetLiveInstances` | dispatcher, Methods tab | results overwritten before they are shown; a job that is dropped |
| Audit ring | counters, ring of records | `RecordAudit`, `ResetAudit` | every scripting thread | records of a replaced instance |

### Components without one

The engine wrappers (`src/engine`), the metadata catalogs (`src/dumper/catalog`),
value decoding (`src/types`), the SDK export, the transform helpers, the drawing
code (`src/gui/views`, `chrome`), `dllmain.cpp` and the logging are conversions
or I/O on one thread. Where a property depends on one of them (the width of an
integer, the rows of an object, the elements of a list), the module that states
it models the conversion. Ten files directly under `src/dumper` and twelve under
`src/gui/views` are older copies that the project file does not compile.
`PROJECT.json` lists every part with its status.

## 2. Modules

| module | models | composed of |
|---|---|---|
| `MainThreadDispatcher` | `src/services/main_thread_dispatcher.cpp` | |
| `CommandContract` | what a script may rely on: the abstract specification of `Submit` | |
| `CommandChannel` | `src/scripting/bridge/script_command.cpp` | `D == INSTANCE MainThreadDispatcher`, implements `CommandContract` |
| `ControlPanel` | `src/gui/control_panel.cpp`, `src/gui/window.cpp`, `application_quit_hook.cpp`, `invoke_request_queue.cpp`, `live_object_finder.cpp` | `D == INSTANCE MainThreadDispatcher` |
| `ScriptEngine` | `src/scripting/script_engine.cpp`, `runtime/luajit_runtime.cpp`, `runtime/lua_callbacks.cpp`, `core/script_context.h`, the frame loop and the dock's buttons | |
| `ScriptDock` | `src/gui/state/runtime/script_model.cpp`, `views/dock/scripting_tab.cpp` | extends `ScriptEngine` |
| `HandleRegistry` | `src/scripting/handles/script_handle_registry.cpp` | |
| `ScriptValues` | `bridge/script_value_format.cpp`, `lua_proxy.cpp`, `value_writer.h`, the conversions of fields, arguments and results | |
| `ScriptReflection` | `bridge/script_reflection_*.cpp`, `abi/script_abi.cpp` | extends `HandleRegistry` and `ScriptValues`, implements `HandleRegistry`'s `Spec` |
| `CallLog` | `src/services/call_log_hooks.cpp`, `call_log_model.cpp`, the registry of `hook_installer.cpp` | |
| `Inspector` | `async_loader_set.cpp`, `navigation/walker_controller.cpp`, `history/*`, the reconciler of `session_state.cpp`, the buttons of the Fields tab | |
| `SearchContract` | what a search pane promises: the abstract specification | |
| `ImageScope` | image and class loaders, `value_search_loader.cpp`, `method_search_loader.cpp` and their models, the sidebar's panes, the image side of a restore | `ValuePane`, `MethodPane == INSTANCE SearchContract` |
| `ValueScan` | `src/dumper/value_search/*`, the rows of `field_catalog.cpp` and `collection_view.cpp` | |
| `Bookmarks` | the crumbs of `walker_controller.cpp`, `inspector_bookmarks_model.cpp`, recipes of `session_persist.cpp`, `field_path_resolver.cpp`, `field_compare_modal.cpp` | extends `ValueScan` |
| `WatchList` | `field_watch_model.cpp`, the watch part of `session_persist.cpp` | |
| `FieldEdits` | `views/inspector/fields_tab.cpp`, `field_edit_cells.cpp`, `analysis_tab.cpp`, `field_snapshot_model.cpp`, the write guards of `collection_view.cpp` | |
| `MainThreadDispatcherProofs`, `CommandChannelProofs`, `ScriptReflectionProofs`, `CallLogProofs`, `InspectorProofs` | theorems about these modules; of `HandleRegistry` and `ScriptValues` in `ScriptReflectionProofs` | extends the module; `CommandChannelProofs` instantiates `MainThreadDispatcherProofs` |
| `PanelProofs` | theorems about `ImageScope` (the sidebar) and `ControlPanel` (the loop around it) | extends both, instantiates `MainThreadDispatcherProofs` |
| `ScriptDockProofs` | theorems about `ScriptEngine` and `ScriptDock` | extends `ScriptDock` |
| `FieldTabsProofs` | theorems about `WatchList` and `FieldEdits` | extends both |
| `MC...` | model values of the module they extend; `MCFieldTabs` puts `WatchList` and `FieldEdits` side by side | |

An operator whose name starts with `Mut` is no part of a model. It is the next
operator with a plausible bug in it (a guard dropped, an off-by-one, a reset
forgotten); `PROJECT.json` says which property must fail when it is put in.

### MainThreadDispatcher

A job is its *ticket*, the number of jobs accepted when it was accepted, so
order and loss are arithmetic on tickets. One action is one acquisition of
`g_queueMutex` or one atomic operation:

| action | code |
|---|---|
| `EnqueueCall` | the unlocked test of `g_shuttingDown` |
| `EnqueueLocked`, `TryEnqueueNoDropLocked` | the locked half of the two enqueue functions |
| `DetourEnter` | `MaybeDrain` up to `DrainOnce`: tags, re-entrancy guard, latch |
| `DrainPop`, `JobReturn`, `DrainExit` | one iteration of `DrainOnce`, the end of a job, the end of the batch |
| `BeginShutdownFlag`, `BeginShutdownClear` | the two halves of `BeginShutdown` |

A detour that does not drain (a tagged thread, a nested call, another thread
than the latched one) changes nothing and is no action. `ran`, `started` and
`lastStarted` are history variables. The hook is installed from the start.

### CommandContract and CommandChannel

`CommandContract` says what an answer of `Submit` promises: the task is claimed
at most once and only while the caller waits; `OK` and `TASK_ERROR` mean that it
ran to its end that way; `QUEUE_FULL` means that it never will run.
`CANCELLED`, `TIMEOUT` and `STARVATION` promise nothing: a claimed task runs on
after its caller has gone, and a caller whose deadline passes just after the
task ended still reads a timeout. This is weaker than a script author may
expect, and it is what the code does.

`CommandChannel` is one submitter per script thread with a program counter
through `Submit`, the game's main thread executing the job lambda, and the GUI
thread, which enqueues invokes (drop-oldest) and stops or relaunches the script.
The deadline is not a clock: it may pass at any point of a wait. The starvation
answer may always be given, because one long job delays the drain stamp; the
timeout answer needs at least one drain. The dispatcher is never shut down in
this module: the session joins the script worker before it closes the dispatcher.
`EndSubmit` also does the marking of a refused push, which the code does after
it, under no lock anyone else can take, since no job holds that command.
The game threads are not the channel's own, as the dispatcher assumes too, and
the erase of a command takes one entry out, since none is registered twice
(`SlotsBalance`).
`SubmitGoesOn` is an invariant: from every state inside `Submit` the script
thread alone has a next step, so it needs no game that drains.

### ControlPanel

The GUI thread's program counter goes through the creation of the window, the
publication of its handle and of the notify pointer, the renderer, then frames:
`PollHostQuit`, the message pump, the audit of the latest invoke, the toast (two
reads: version, then result), one input, the wait. `WM_CLOSE` unregisters,
unpublishes and destroys before `PostQuitMessage` leaves the loop; then the
workers are joined and the dispatcher is shut down, flag and clear apart.
The detour of `Application.Quit` runs on a game thread in the steps in which it
tests, sets and posts (`NotifyTests`, `NotifyReadsPanel`,
`OnApplicationQuitNotify`). `RunMethod` and `FindInstances` put jobs into the
dispatcher's queue; the search waits for its job or for its deadline, and its
answer may come late or never (the queue drops the oldest). The dispatcher is an
instance over the panel's variables: its threads are the game's, the GUI thread and the
worker of the search (`OurThreads`), and each step of the panel that touches its queue
is one of its own. `NoQuitIsLost` and `DispatcherOutlivesWorkers` are the safety behind
`PanelCloses`: the run checks that consequence, and the two are theorems. Left out: the other producers of the queue, the renderer, moving and resizing.

### ScriptEngine

The GUI thread is sequential: `Pump`, then `Paint` (the dock reads the run
state), then at most one click, enabled by what was *painted*; `gui` is where it
is. Methods that release `mutex_` halfway are split (`StartLocked`,
`StartCancel`; `RequestStopCancel`, `StopLocked`; `ShutdownLocked`,
`ShutdownJoin`). The worker runs its chunk (`ChunkEnds`), then the tick loop
(`TestCancel`, `TickEnds`, and the interval's wait as `EvaluatePredicate`,
`Block`, `IntervalOver`), then the unload callback, then `Publish` and three
steps of `Epilogue`, one per store after the lock. Between `EvaluatePredicate`
and `Block` a notification is missed, since `RequestCancel` does not take the
mutex of the wait: only the interval's end lets the script see the stop. What a
callback does is left open: it may stop the script, take too long (`Quarantine`
is the watchdog's hook, which cancels), raise any error, catch one, or return.
`CommandChannel` covers the command side of a stop.

### ScriptDock

Packages are records of what a scan of the disk finds: a folder with or without
a manifest, whole or not, or a loose script. `LoadManifest` fills in defaults and
clamps numbers, `Scans` orders by display name (equal names in any order),
`KeepSelection` looks the selected path up again. `StartSelected` hands the
options of the selected package to the engine or lets them wait there; `DockStop`
drops them. What lies on the disk may differ at every scan. Left out: console,
audit display, the text of JSON and of error messages.

### HandleRegistry

Each method holds `mutex_` throughout, so it is one action. `free` counts how
often an index is in `freeIndices_` (the code never looks for duplicates), and a
new handle may take *any* free index where the code takes the one freed last.
Registrations for an instance that has ended are possible, because a task may
outlive its caller (`CommandChannel`). `issued` and `retired` are history.

### ScriptValues and ScriptReflection

`ScriptReflection` is a script thread that calls one operation at a time, and the
task of it on the main thread: `Claim`, `Validate` (handle, owner, kind and class
under one lock), `Act`, `RegisterNext` for each handle it returns, `Finish`, or a
`Fault` that the guard around it turns into an answer. The caller may be refused,
wait for the end, or give up at any point (`GiveUp`): the task goes on, even after
the script ended and another one runs. `GameRuns` frees objects and uses their
addresses for others between two tasks and inside a method that is invoked.
Every step implements `HandleRegistry`'s `Spec` (`ImplementsRegistry`).

`ScriptValues` are the conversions: a Lua value to a script value, to the text of
a field or an argument, to a cell of the category's width, and back. Widths are
parameters, small enough to enumerate every integer at every boundary and large
enough that the widest has more bits than a Lua number's mantissa; floats have a
largest finite value, beyond the widest integers. A whole Lua number out of the
range of int64 becomes its lowest value (`Overflows`, `lua_proxy.cpp:220-222`), so a
float of 1e20 that a script reads and writes back is -9.22e18 afterwards.
`ValuesKeepTheirMeaning` states this loss for exactly those numbers, and that nothing
else is lost. Infinity behaves like them; it and NaN are left out. A text is its
form (decimal, fraction, quoted, ...) and a number. Left out: address helpers
that only resolve a handle on the script's own thread, the limits on the length
of texts, the wording of errors.

### CallLog

The GUI thread's `Toggle`, `RemoveHook` and `SnapshotLines` are split where a
game thread can see the difference: `ToggleAdd` (up to `MH_EnableHook`),
`FillSlot`, `ActivateSlot`; `RemoveHook`, `Unpatch`, `ClearSlot`; `TakePending`,
`AppendLines`. A game thread walks through `OnHit`: `Enter`, `ReadOriginal`,
`TestActive`, `ReadSlot`, `PushEvent`, `Forward`. None of its reads takes a lock,
and `original`, `hookId` and the label are plain fields, so it sees the slot as
it is at each step. MinHook is external: a patch per method and a set of blocks
for trampolines; a removed hook's block is free at once, although a thread may
still hold its address. Calls that meet a change of their slot may be lost,
logged under a blank or another id, or, after a new install, sent to another
method: the model shows all of these, and the properties draw the line
(`UndisturbedCallIsLogged`, `OnlyInstallRedirects`). Left out: the copies of the
arguments, formatting, and exceptions of the hooked method itself.

### Inspector

The inspector cache is written by three workers and by the GUI thread. A GUI
operation requests the stop of the writers, joins them one after the other
(`CancelInspectorCacheWriters`), then starts its own load. A writer tests its stop
token *before* it takes the mutex, so a joined writer may still publish, or not:
`AfterJoin` is the set of models the join can leave, and each operation takes one
of them. A worker is one action at its end (`FinishInspector`, `FinishFields`,
`FinishSearch`); `BeginFields` is apart, because the fields worker reads the
active object when it begins. The publication and the clearing of the
in-progress flag, two stores with nothing between, are one step.

The reconciler (`TickPresentSideEffects`) is two actions: `TickSample` copies
five fields under the mutex, `TickAct` decides on the copy and on the flags as
they are by then. Operations that end in `RecordNavigationEvent` leave the phase
`record`, since the new worker may publish before the row is captured. Rows of
the cache are abstracted to the kind of view, the class and the object they were
read from; a crumb is its kind, owner pair and source. `Collect` takes an object
away, as the host's garbage collector does.

### SearchContract and ImageScope

`SearchContract` numbers the requests of a pane: a request is answered at most
once and only while it is the latest and running; a withdrawn one never replaces
what is shown; hits are shown whole or not at all. `Recallable` permits a pane to
show an earlier request's hits again.

`ImageScope` is the sidebar: image list, class list, value search with its drill,
method index, and the history rows that bring an image back. A worker has a
stage: while it is being joined, one that has *passed* its last test of the stop
token still publishes and any other ends cancelled. A class list has an address
that the allocator may use again once nothing holds the list; the index is
identified by that address, the count and the selected image, as in the code.
The refinement maps `asked` to the model's run number, `phase` to the
in-progress flag and the status, and `shown` to the run whose hits are on
display (`values.hits.of`, when those hits are a whole result; `methods.hits`).
A new search first cancels the running one; the buttons are only enabled when
none runs, so these cancellations find nothing and are left out, as are the
refusals the buttons rule out. `GetRawClasses` throwing in the class worker,
which nothing catches, would end the process and is no behaviour of the model.

### ValueScan

The walk of a search over the fields of an object: rows of fields, of inline
structs, of what a pointer refers to (`PtrFollow...`), of list elements and of the
members of structs in lists, with the chips, the name and the value that select
them, and the schema that lets the scanner skip what no declared type can match.
Names are sequences of segments, an object is a function from field names to
values. The reference is independent of the walk: `Reach` is what the chips
allow to be reached, `Slots` what is in reach and matches. `SearchIsExact` says
that walk and reference agree and that no slot is reported twice; `DrillIsExact`
says the same of a drill after the host wrote once. The walk follows only the
first `MaxFollowed` pointers of an object that lead anywhere (16 in the code, 2 in
the run, whose players have three) and sets no truncation reason for the others
(`value_search_scanner.cpp:248`, `value_search_scan_expand.cpp:419`): a search without a
name reports precisely what is `near` in that sense, and one with a name at least that.
Left out: static fields, chips
for kinds that behave like numbers or pointers, structs with dotted names of their
own. The walk is recursive, so it is model-checked only.

### Bookmarks

A walk starts at an object or at an opened hit and goes on by clicks into
pointers, lists, elements and structs. `BookmarkCurrentView` stamps each hop with
the name or index it can be found by; the file keeps nothing else. In the next
session, over other objects, `ReplayBookmark` takes any live object of the root
class and follows the names; it either arrives at the meant place or leaves
everything as it was. Compare reads two instances along the present crumbs
(`ResolvePathValue`). Left out: images and namespaces, status texts; stepping
back is `Inspector`'s. One bookmark stands for all.

### WatchList

`entries` is the list under `entriesMutex`; `sampler` is where its thread is. The
GUI thread changes the list and then saves it: `OpenTmp`, `FillTmp`, `MoveTmp`,
any of which may fail, and nobody looks at the result. `NextProcess` ends the game
at any point of any thread; the next session reads the file (`LoadInto`, which
puts an unreadable one aside) and binds static fields by name in the frame in
which the image list arrives (`Rebind`). A displayed value is abstracted to where
it was read (`Sites`). Left out: plots and their buffers.

### FieldEdits

One object with a number and a list on display, two loaders (`ReadFields`,
`PublishFields`, `ReadView`, `PublishView`), a frame in three steps (reconcile,
copy the rows, draw one tab and take one click), and the game, which grows, trims
or overwrites. Places in memory are a finite set, so that memory left by a list
is used again. An edit of an element first reads the list's items, size and array
length again, in three steps, then writes to the address of the row that was
painted. A text being typed is in the input widget (`typing`), which ImGui knows by
the index of the row; each frame that draws the row stores it under the address the
row has by then (`Held`), so it survives the clearing of the buffers, and follows the
row to another value when other rows are published (`carried` records that). Snapshot and differences belong to a scope; `diff` is what colours the
rows. Left out: Escape, which takes a text back, loads that fail, rows of other kinds than numbers, more than one
open list.

## 3. Runs

| run | instance | shows |
|---|---|---|
| `dispatcher` | 2 game threads, 2 producers, queue of 2, batches of 2, 6 accepted jobs | order, accounting, batch bound, confinement, quiet shutdown; every job leaves the queue |
| `channel` | 2 script threads, 2 commands, capacity 1, queue of 1, 1 GUI job | slots and registrations balance, the first terminal status wins, nobody is stuck in `Submit`, `CommandContract` is implemented |
| `panel` | 1 game thread, queue of 2, 3 accepted jobs of which 2 invokes, 1 call of Quit | what frames report is current; the panel closes although the game stops draining |
| `engine` | 2 script instances, 2 contents of the disk with 2 packages each | one script at a time, a dock that shows what is so, the run that was asked for, a selection that survives Refresh; requests are served |
| `reflection` | 2 script instances, 2 objects, 2 classes, 2 registrations, integers of 2, 3, 4 and 6 bits, floats that reach beyond them | operations act on the named object, answers are true, proxies stay usable, handles are sound, values keep their meaning; the registry's specification is implemented |
| `call_log` | 2 slots, 2 methods and one hooked by others, 2 game threads, 3 installs, 4 events, 2 lines | the records of what is hooked agree, the log has no gap, undisturbed calls are logged and forwarded, removal alone misroutes nothing |
| `inspector` | 2 classes, 3 objects, a pointer and two lists, 2 history rows, 3 operations, 1 fault | every worker in flight serves the selection; after the last operation the view settles on it |
| `image_scope` | 2 images of 2 classes, 3 list addresses, hit cap 2, 4 operations | both panes implement `SearchContract`, a valid index is that of the list on display, whatever is started ends |
| `value_scan` | 4 classes, one of them unresolved and one a struct, 4 objects, 3 object graphs, lists of 2, 2 pointers followed of up to 3, 1 write, 3 clicks, 2 sessions | search and drill are exact, up to the pointers not followed; a hit opens its row, Compare follows the path, a bookmark leads back |
| `field_tabs` | a list of 2 watches, 3 changes, 2 sessions, 2 static fields (one late) and a member; beside it 2 objects with lists of up to 2 elements in 3 places, 1 step of the game, 3 clicks | the watch list is consistent, survives, is sampled, reconnects; an edit hits the value it was typed for, unless other rows came under the cell while it was typed in; differences are of one place |
| `inspector_stale_methods` | as `inspector`, without faults | **violated**, see findings |
| `engine_stop_stuck` | 2 instances of the engine alone | **violated**, see findings |

Most invariants are conjunctions of named parts and hold their module's type
invariant where none is proved separately (`ChannelConsistent`, `ReportsAreCurrent`,
`OneScriptAtATime`, `RunIsAsAsked`, `ProxiesStayUsable`, `LogConsistent`,
`ListConsistent`, `DiffsAreOfOnePlace`). The type invariants of the dispatcher, the
handle registry, the inspector and the image scope are theorems.

Why the bounds are enough. *Dispatcher*: a queue of two fills, drops twice and
drains in two batches; six tickets let each of those happen before and after
the others, two producers race with one another and with the shutdown, two game
threads race for the latch. *Channel*: a second command meets whatever the first
left behind (a late job, a stale cancellation, a slot); one GUI job in a queue of
one is enough to drop a command's job or to have a push refused; capacity one
makes a second submitter wait. *Panel*: two invokes finish between two frames; with
the job of a search they overflow a queue of two; one call of Quit meets the poll
at every step. *Engine*: instance *n* only meets *n - 1* and a pending *n + 1*; the
second content of the disk moves a package to another index, changes its options
and takes another one away. *Reflection*: a task of the first script meets the
second one, which registers at the index the first had; two objects and two
classes reuse an address for the same and for another class. Generations are 32
bits in the code and wrap after 2^32 registrations, which is outside the model. The widths
keep the order of the real ones: only the widest integers exceed the mantissa, and
both floats exceed the widest integers.
*Call log*: three installs over two slots and two blocks reuse a slot and a
trampoline while the other hook lives and a call is stalled in either; four events
overflow a log of two while a batch is out.
*Inspector*: three operations make a view, move
on and come back while any worker of the first is still joined or in flight (the
history is full after two); one fault is a load that throws or an object that is
gone, at any point. *Image scope*: four operations select, search, select another
image and come back; two images with equally many classes and three addresses,
one more than can be in use, let a new list take the address and the count of the
list an index was built from; a cap of two is reached by one class or by two.
*Value scan*: the graphs have a self-loop and a cycle of two, pointers declared with
a base class, a list whose two elements are the same object, a struct in a list that
points back, null pointers, one pointer more than is followed, and a depth beyond the limit of the walk; three clicks
pass through every pair of kinds of crumbs. Searches come before clicks, a hit
allows one more click, and bookmarks are made in the first session.
*Field tabs*: three changes add two watches and remove one while the sampler has
copied the list; two sessions are one crash. One step of the game falls between any
two of the reads and writes of a click; three clicks open a list, edit and go back.
`WatchList` and `FieldEdits` share no state, so `tab` lets each behaviour show one
of them: their states are added, not multiplied.

Deadlock checking is off because each system may really stop: the bound on jobs,
commands, operations or instances is used up, or the panel is closed.

### Fairness

- `MainThreadDispatcher`: game threads keep calling `runtime_invoke`, and jobs
  return. The header says "every frame from its main thread"; producers owe
  nothing.
- `CommandChannel`: none; `SubmitGoesOn` is an invariant.
- `ControlPanel`: the GUI thread never waits without a limit (250 ms when idle, 50
  once the host quits), the search ends at its ten-second deadline, and a detour
  of `Application.Quit` that was entered returns. Game threads drain only until the
  host quits: `PanelCloses` must hold without them.
- `ScriptEngine`, `ScriptDock`: a frame is guaranteed only while the run state is
  active (`wantsPeriodicTick`); methods that were entered proceed (`StartCancel`,
  `StopLocked`, `ShutdownLocked`, `ShutdownJoin`), and so do the waits and the epilogue of the
  worker. A callback of a *cancelled* script ends: the instruction hook runs with
  the JIT disabled and raises an error at every step from then on; an unload
  callback ends by its own deadline. A script that blocks inside a C function it
  was given, for longer than its timeout, would not satisfy it; an uncancelled
  callback may run for ever.
- `Inspector`: each worker is a thread the system runs, and the GUI thread ends
  what it has begun. Frames come on their own only while `wantsPeriodicTick`
  (`control_panel.cpp:113-119`) holds, and the inspector's loads are not among its
  reasons. The constant `PeriodicTick` says whether something else is (an active
  watch entry, a live transform, a running script or search); `ViewSettles` is
  stated for that case. *Auto*, which reloads the fields for ever, is not it.
- `ImageScope`: the workers only. Neither frames nor users are needed for what
  was started to end.
- `WatchList`: the sampler thread, a save that was begun, the frame that binds
  (watch entries are counted by the wake-up test, `control_panel.cpp:113-114`), and
  static fields that get their storage sooner or later. Assumed only in behaviours that
  show the watch list.
- `ValueScan`, `Bookmarks`, `FieldEdits`, `ScriptReflection`, `CallLog`: safety only.

## 4. Proofs

The proof modules follow one pattern: an inductive invariant `IInv`, lemmas that
`Init` implies it and that each action preserves it, `Spec => []IInv`, and each
theorem from there. The constants are arbitrary under the named assumptions.

*Dispatcher.* That the queue is the newest accepted jobs is not inductive after the
shutdown, and the order of starts cannot be read off it: `IInv` adds that the job
started last is older than everything queued (`NoneOvertaken`), and that `ran + left`
is the whole budget of a draining thread (`BudgetSpent`). Proved: `TypeCorrect`,
`QueueSound`, `DrainConfined`, `Fifo`.

*Handle registry.* That a handle resolves to its target needs that every live entry
agrees with what was issued for its index and generation (`IssuedMatches`) and that an
issued generation is below `nextGeneration`; `InvalidateOwnedBy` bumps a
generation to a value that a *different* index may carry, so the pair, not the
generation, identifies a handle. Proved: `TypeCorrect`, `HandlesSound`,
`NoResurrection`.

*Reflection.* Each step of `ScriptReflection` is one of the registry or leaves it alone
(`UsesRegistry`: a task registers for its own, earlier or current, instance; an index it
uses is in range), so the registry's theorems hold below it (`HandlesSoundBelow`). On top,
`RefInv` keeps for the call and the task what each step has established: a task that acts
on an object names an issued handle of its own instance, whose object had the class when
the handle was validated (`TaskIsSound`), a call that is answered says what the task
reached (`CallIsSound`), and the two agree as long as the caller waits (`Shared`). That
proxies stay usable rests on handles of a running instance never being swept
(`ProxiesResolve`), and needs that live entries were issued (`LiveIsIssued`).
Proved: `ActsOnNamed`, `TrueAnswers`, `UsableProxies`.

*Values.* `ValuesKeepTheirMeaning` quantifies over every number of a width, so it needs the
order of the powers of two: that a narrow integer is below 2^`DoubleBits`, that a category
spans 2^`Width` numbers, that rounding a second time drops as many bits as the first. The
library says of exponents only that n members have 2^n subsets. From that,
`PowerOfZero` and `PowerOfNext` follow by counting (of the subsets of 1..n+1 half have n+1), and
`PowersGrow` and `PowerOfSum` by induction. The induction theorems of the library take an
operator as parameter, which no installed prover can instantiate, but the well-foundedness
of the naturals is first-order: every nonempty set of naturals has a smallest member
(`HasMinimum`), so a set that has 0 and with n also n + 1 has them all (`Counted`). `Rounded` is a
`CHOOSE`; `DroppedIs` and `DroppedIsOnly` show that there is exactly one number of bits to drop, and
`RoundedAgain` that a rounded number stays. Then each kind of category is followed
through `ReadField` (or `ReturnValue`), `ToLua`, `FromLua`, `FieldInput` (or `InvokeInput`) and the
writer. A number that arrives as the lowest int64 is stored by a float, which holds it
(`ArrivesWithin`), and refused by every integer field, since it is out of the range of the
narrow ones and the wide ones take no number. Proved from `ValuesAssumption` alone (a double holds the narrow integers, not the
wide, has more bits than a float, and both reach 2^63): `MeaningIsKept`.

*Command channel.* The invariant is the dispatcher's, carried over by
`DP == INSTANCE MainThreadDispatcherProofs`, and `Own`: each command has one submitter
(`Numbered`) and one ticket of the dispatcher (`Ticketed`); before the push it has no job,
and nobody submits it once it is over (`Queueing`); where the one job at work stands tells
how far its task is (`TaskOfJob`); and a terminal status, or a result a submitter is about
to return, says the truth about the task (`StatusTrue`, `VerdictTrue`). The truth of an
answer is no invariant of the answer alone: a timeout may be written while the task runs,
and then the job must not overwrite it. `ContractStep` shows, action by action, that every step
is one of `CommandContract` or changes nothing of it. Proved: `ChannelSound`, `FirstWins`,
`PromiseKept`, `ChannelUsesDispatcher`, `DispatcherSoundBelow`. Assumed beyond the
dispatcher's assumptions: finitely many submitters, none of them a game thread.

*Call log.* `HooksAgree` speaks of the moments between two clicks. In between, the hook
the GUI thread works on is apart and its step says how far it is (`AtWork`), while all
other hooks are complete (`HooksInv`). A call in the detour is tied to its slot while
that is untouched (`CalmCalls`), and otherwise to the hook it came through, since a block
of MinHook is given to another method by an install only (`OwnHookOnly`). The log has no
gap because a queue that was trimmed is a full one, which pushes out whatever came before
it (`Follows`, in `LogInv`). Proved: `LogIsConsistent`, `UndisturbedLogged`, `OnlyInstalls`.

*Watch list.* A result of the sampler may be given to the entry with its id because ids are
not used twice in a session and an entry that has an address keeps it (`Sound`); before
Rebind nothing has an address, so Rebind invalidates no copied one (`Unbound`). That a
session begins with the list of the one before is read off `FileIsKept`: the file holds what
was written last, and until a change is unwritten that is the list. Proved:
`WatchesConsistent`, and the action property `WatchesSurvive`.

*Field edits.* That a text belongs to the value it is kept for, unless it was carried
there, is inductive together with the same of the text being typed (`Own`, `Active`): a
frame that copies rows marks that text when its row changed, before it is stored.
That an undisturbed list is written within its elements needs one fact per read of the guard
(`Unchanged`): the array, then the size, then the length that was read are still the
list's. That a difference compares a place with itself needs that rows are settled: while
no load runs, the rows are of the object last loaded or of the open list, a load of the fields
never runs under an open list (`Loaded`), and in a calm frame the object loaded is the
active one, because the frame's tick would have started a load otherwise (`InFrame`). So a
scope determines the place (`SettledRows`), and `Study` is kept. Proved: `EditsHit`,
`DiffsOfOnePlace`.

*Image scope.* `IndexMatchesList` compares an address that may be reused, so it is
not inductive. `IndexInv` anchors both the stored index (`IndexAnchored`) and the
snapshot of a running index worker (`SnapshotAnchored`): if the list on display has
its address, it is that list; if not, no class load is running that could put a
new list at this address. It holds because every start of a class load first
cancels the index worker and invalidates the index, so between two invalidations
at most the one load under way replaces the list, and a new vector is allocated
while the one it replaces is alive. Type correctness includes the cap on hits and
needs that a scan goes on only while there is room, that a drill's baseline comes
from an image that is known, and that nothing is searched before an image is
picked. That each pane implements `SearchContract` rests on two invariants
(`ValuesPane`, `MethodsPane`): a pane is busy exactly while its worker exists, which
works for the latest run, so a publication inside the join is still that run's answer;
a value worker publishes only after the end of its scan or at the cap; a drill shows its
baseline until it is over, so taking the baseline back on a cancel changes nothing; and
an index that can be filtered again was published by an earlier run. Proved:
`IndexIsOfList`, `TypeCorrect` and the refinement `PanesKeepTheirPromise`.

*Control panel.* The dispatcher's invariant is carried over as in the channel
(`PanelStepBelow`, hence `PanelUsesDispatcher`, `DispatcherSoundBelowPanel`). `PanelOwn` adds what
the panel's own threads keep. That a frame reports the latest result needs that
neither the version shown nor the one just read is ahead of the result, that an equal
version means the same result, and that a result no frame has audited is still pending
(`Versions`). That no quit is lost needs to know the window for each place of the GUI
thread: until the loop registers, no detection can be under way, and from then on there
is a window to be told through until `WM_QUIT` is on its way (`WindowStands`). That the workers leave
first is kept because the search is joined before the shutdown and no frame follows in which
one could start (`WorkersLeft`). Proved: `ReportsCurrent`, `QuitsArrive`, `WorkersLeaveFirst`.

*Inspector.* Every load but one is started for `selectedClass` by name. Refresh in a
collection or a slot restarts the load for the class in the crumb, so
`WritersServeSelection` needs `SpecialServes`: such a crumb on top names the selected
class. It is kept because a jump back selects the class of the crumb it ends on, and
every other selection empties or replaces the stack.
`LoadsKnown` keeps the four kinds of load apart. Proved: `TypeCorrect` and
`WritersServe`, for finitely many objects.

*Script engine.* That two scripts never run together needs that every instance before
the current one has exited (`Alone`), which holds because a launch finds `worker_`
joined or `workerFinished_` set, and each of these implies that the current instance
has exited (`Owned`). That a stop is never lost needs that `RequestStop` signals before
it writes the state (`Told`), and that a frame painted while a start waits shows
Reloading, which enables neither Start nor Reload, so that no click starts over it
(`Shown`). Proved, for any number of launches: `OneScript`, `DockTrue`.

*Scripting dock.* Each step of the dock is one of the engine (`DockStepIsEngineStep`), so
`DockSpec => Spec` (`EngineUnderDock`), and what is proved of the engine holds under the
dock. `RunAsAsked` adds to the engine's invariant that the options that wait are
non-empty exactly while a start is pending (`Requested`); this rests on the list
(`Listed`), since only a package with a path can be started. `RefreshKeepsSelection` is the action
property that a rescan keeps the selected file selected. Assumed: a scan finds
finitely many files (`DockAssumption`).

Only model-checked, because the prover does not reach it: liveness under fairness
(`QueuedJobsLeave`, `PanelCloses`, `RequestsAreServed`, `ViewSettles`, `SearchesEnd`,
`WatchesAreSampled`, `EarlyStaticsReconnect`), `ENABLED` (`SubmitGoesOn`), and the walks of
`ValueScan` and `Bookmarks` (`SearchIsExact`, `DrillIsExact`, `HitOpensItsRow`,
`CompareFollowsThePath`, `BookmarkLeadsBack`), which follow objects by recursive operators.

## 5. Findings

1. **A stop during a reload can wedge the dock** (`engine_stop_stuck`). Reload a
   running script, then Stop between the moment the old worker published its end
   and the frame whose `Pump` would launch the new one. `RequestStop` writes
   `Stopping` and drops the pending start (`script_engine.cpp:171-181`); the
   worker is past the point where it would write an end state, and `Pump` writes
   none. Start and Reload stay disabled (`scripting_tab.cpp:264-267`).
2. **Methods of another class stay in the inspector** (`inspector_stale_methods`).
   Restore a row without crumbs while a load runs. The restore clears `methods` and
   `methodsCatalogLoaded` (`inspector_history_restore.cpp:242-243`); the load it
   then starts first joins the old worker, which publishes its own class with both
   set again; the static search started next cancels the new load and publishes
   only the class. The reconciler now sees the right class with its catalog loaded,
   and never reloads: the Methods tab shows, and would invoke, the methods of
   another class.

### Observations

Behaviour of the code that the models contain and that a reader may not expect.
No run states that it is wrong.

*Dispatcher, channel, engine.* An invoke from the GUI may drop a script's
command, whose script then waits for its timeout. `Quarantined` is reported with the
stop reason `UserRequest`; a script that catches the quarantine error is reported as
cancelled. `Start` on a path that no longer resolves writes `LoadError` over the
state of a script that still runs (`script_engine.cpp:96-104`), and Stop is disabled.

*Dock.* A package that became invalid has no path, so the Refresh after fixing it
selects the first package (`script_model.cpp:394`, `:423`). Reload starts the
selected package, not the running one. The console is cleared before a Start even if
it is refused. The soft time limit may exceed the hard one.

*Reflection and values.* `FindObjects` registers objects of derived classes under the
class that was asked for, so later operations on them answer `TYPE_MISMATCH`. A
failed search is an empty list with `OK`. After the validation the shared result
already says `OK` (`script_reflection_api.cpp:50-72`), so a later fault is answered
`OK`. The submitter may read an invoke's result while a task it gave up on
still writes it (`script_reflection_api.cpp:623`). Tasks of the ABI read a context on
the stack of a script thread that may have ended (`luajit_runtime.cpp:75`). Object
arguments of an invoke are checked in the registry only. Arguments are cut to their
parameter's width, where field writes refuse (`value_writer.h:28`); whole Lua numbers
from 2^63 on are converted with undefined behaviour (`lua_proxy.cpp:223`), on x64 to the
lowest int64, so a large float does not survive a round trip through Lua; texts of
string fields do not round-trip. Managed exceptions and `TYPE_MISMATCH` count in no
audit counter; a relaunch resets counters a late task still writes. Entries for null
addresses are never reused, and a task that outlives its instance registers a handle
nobody sweeps.

*Call log.* A call that waits in a logging detour while its hook is removed is
swallowed (it returns null), and when another hook is installed meanwhile it may run
that hook's method with its own arguments.

*Panel.* Both detectors may post `WM_CLOSE`, and the detour may post it to a window
that is being destroyed. A window that is not the game's may be latched as the host's.
A Quit the game cancels closes the panel all the same. Two invokes between two frames
get one audit row and one toast; a finished one wakes no frame. A live search that is
refused, dropped or late shows as no instances. Replaying a bookmark runs the live
search on the GUI thread (`walker_controller.cpp:658`), and a class change joins it:
each blocks frames for up to ten seconds. The arguments popup fetches its method again by
index (`invoke_args_modal.cpp:158-175`).

*Inspector and image scope.* A collection crumb may name another owner than the
crumb below it (`walker_controller.cpp:791-797`), when an instance search or a
click during a load moved the active object. A class enumeration or a scan that
throws is published as a complete search without hits. A panel that is left alone
right after a click does not go on from the static search to the class load, since
a worker of the inspector that ends wakes no frame: the view is completed at the
next input. The restore of a row with a class sets `selectedImage` and leaves the
class list of the image selected before (`inspector_history_restore.cpp:225`).

*Search.* What lies behind the seventeenth pointer of an object is not searched, and the
result does not say so. A drill reads the fields of an object once, with the class of its first hit
(`value_search_scanner.cpp:98-130`). The schema knows declared types only, so members
that only a derived class has are not found through a pointer to its base.

*Bookmarks and Compare.* A compare of class fields while the view is drilled in reads
objects of the root class with the selected class's fields (`field_compare_modal.cpp:182`); a
search hit leaves the earlier Compare list; results stay on display after the selection
changed. Of fields with one name the replay takes the first. A failed replay does not bring
back the schemas and the class list it cleared. A relinked bookmark is written at the
next save only. Within a session a bookmark means its objects, after a restart
the path from the first live one. A root class that is not on the sidebar's list leaves
a bookmark without one, which no later session can replay.

*Watch list.* Nobody looks at the result of a save. With a `.bad` file from before, an
unreadable file stays where it is and the next save overwrites it. Two instance watches
of one field cannot be told apart after a restart. A static field that has no storage
when the image list arrives stays stale for the session, where `README.md:102` says that
static watches reconnect; `EarlyStaticsReconnect` leaves it out. The memory of a
collected object may be read as if it were fresh.

*Fields tab.* A text being typed follows the row, not the value: when a search for
instances, a load or a Refresh replaces the rows under the keyboard, it goes into the
buffer of the value that the row shows next (`field_edit_cells.cpp:138-143`), although the
buffers are keyed by address so that one "can never bleed across unrelated rows"
(`edit_buffer_store.h:14-15`). `EditsHitTheirValue` allows exactly this case. Refresh and picking an instance clear the texts before the load lands, so
cells are filled from the old rows again. The guard of a write is three reads: a
game that changes a list's capacity in between lets a slot that never was live pass, and the write
after the check may hit memory that has moved. Rows of a list that are still on display
after going back are written without the guard. An element that is added while the game
adds one may be lost, or leave a size beyond the array's length. The Fields tab colours
rows by a snapshot of another scope until the Analysis tab is opened.

## 6. Not modelled, and the plan

By choice, because it is data rather than control and has no state of its own:
the engine wrappers, the metadata catalogs beyond the rows and types that searches and
scripts see, the SDK export, the transform tab (a fetch and an apply through the
dispatcher), drawing, bootstrap and logging. Text formats (session file, console, labels,
errors) are left out as well.

Left out of modelled components: the audit ring; the bootstrap of the Lua state, the
sandbox policy and `require`; static fields and the remaining chips of the scanner; plots; the
session rebind of loaders' caches; presets; `Install` of the dispatcher and
of the Quit hook.

Still to do, in this order:

1. **Audit ring**: a late task's record against the reset of a relaunch.
2. **Static fields** in `ValueScan`, and the static-instance finder.
