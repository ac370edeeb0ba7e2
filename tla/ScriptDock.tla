----------------------------- MODULE ScriptDock -----------------------------
(***************************************************************************)
(* The Scripting dock around the engine: the packages a scan of            *)
(* stalker_runtime/mods finds and what their manifests make of them        *)
(* (src/gui/state/runtime/script_model.cpp), the selection, the options a  *)
(* Start or Reload hands to ScriptEngine (src/scripting/script_engine.cpp).*)
(*                                                                         *)
(* A display name, lower-cased, is a number; a path is the sequence of its *)
(* parts, empty for a package that cannot be started.  What lies on the    *)
(* disk may be another thing at every scan.  The text of the JSON and of   *)
(* the status lines, the console and the audit line are left out.          *)
(***************************************************************************)
EXTENDS ScriptEngine, Sequences

CONSTANTS
  Mods,         \* what a scan may find: functions from names to items
  UnsafeNames   \* file names IsSafeEntryFileName refuses

ASSUME DockAssumption == \A mods \in Mods : IsFiniteSet(DOMAIN mods)

VARIABLES
  packages,   \* packages_
  selected,   \* selectedPackageIndex_, from 1; 0 when there is none
  waiting,    \* the options pendingStart_ holds
  runs,       \* the options of the current instance
  asked       \* history: the options of the last request that was not withdrawn

dockVars == <<packages, selected, waiting, runs, asked>>
allVars  == <<vars, dockVars>>

-----------------------------------------------------------------------------
(***************************************************************************)
(* Packages.                                                               *)
(***************************************************************************)
NoName == 0
NoPath == <<>>

\* ManifestData.
Defaults == [name |-> NoName, entry |-> "main.lua", profile |-> "Safe",
             tick |-> 16, command |-> 1500, soft |-> 2000, hard |-> 5000]

Clamp(value, low, high) ==
  IF value < low THEN low ELSE IF value > high THEN high ELSE value

\* LoadManifest: the keys that are given replace the defaults, numbers are
\* clamped, and empty texts count as not given.
LoadManifest(given) ==
  LET Value(key) == IF key \in DOMAIN given THEN given[key] ELSE Defaults[key]
      Text(key)  == IF Value(key) = "" THEN Defaults[key] ELSE Value(key)
  IN [name |-> Value("name"), entry |-> Text("entry"), profile |-> Text("profile"),
      tick |-> Clamp(Value("tick"), 10, 1000), command |-> Clamp(Value("command"), 100, 10000),
      soft |-> Clamp(Value("soft"), 100, 10000), hard |-> Clamp(Value("hard"), 500, 30000)]

EffectiveProfile(profile) == IF profile \in {"Curated", "Advanced"} THEN "Curated" ELSE "Safe"

NoOptions == [path |-> NoPath, profile |-> "Safe", tick |-> 16, command |-> 1500,
              soft |-> 2000, hard |-> 5000]

Options(path, m) == [path |-> path, profile |-> EffectiveProfile(m.profile), tick |-> m.tick,
                     command |-> m.command, soft |-> m.soft, hard |-> m.hard]

EntryIsFile(item, entry) ==
  /\ entry \notin UnsafeNames
  /\ entry \in DOMAIN item.files /\ item.files[entry] = "file"

\* BuildDirectoryPackage: an invalid manifest hides all of it; an entry that
\* is no file of the folder itself leaves the package without a path.
BuildDirectoryPackage(folder, item) ==
  LET m     == IF item.manifest = "whole" THEN LoadManifest(item.given) ELSE Defaults
      valid == item.manifest # "invalid" /\ EntryIsFile(item, m.entry)
      path  == IF valid THEN <<folder, m.entry>> ELSE NoPath
  IN [name |-> IF m.name = NoName THEN folder ELSE m.name,
      valid |-> valid, options |-> Options(path, m)]

BuildLooseLuaPackage(file) ==
  [name |-> file, valid |-> TRUE, options |-> Options(<<file>>, Defaults)]

BuildPackage(name, item) ==
  IF item.kind = "folder" THEN BuildDirectoryPackage(name, item) ELSE BuildLooseLuaPackage(name)

\* The scan sorts by display name; packages of one name come in any order.
Scans(mods) ==
  LET Built == [name \in DOMAIN mods |-> BuildPackage(name, mods[name])]
      n == Cardinality(DOMAIN mods)
      Orders == {s \in [1..n -> DOMAIN mods] :
                   \A i, j \in 1..n : i < j => s[i] # s[j] /\ Built[s[i]].name <= Built[s[j]].name}
  IN {[i \in 1..n |-> Built[s[i]]] : s \in Orders}

\* TryGetSelectedPackage
HasSelection == selected \in 1..Len(packages)
Selected == packages[selected]

-----------------------------------------------------------------------------
DockTypeOK ==
  /\ \A i \in 1..Len(packages) : packages[i].valid <=> packages[i].options.path # NoPath
  /\ selected \in 0..Len(packages)
  /\ waiting = NoOptions <=> ~pending

DockInit ==
  /\ Init
  /\ packages = <<>> /\ selected = 0
  /\ waiting = NoOptions /\ runs = NoOptions /\ asked = NoOptions

MutKeepIndex(found) == IF selected \in 1..Len(found) THEN selected ELSE IF found = <<>> THEN 0 ELSE 1

\* The selection is looked up by its path, and falls back to the first.
KeepSelection(found) ==
  LET Same == {i \in 1..Len(found) :
                 HasSelection /\ Selected.valid /\ found[i].options.path = Selected.options.path}
  IN IF found = <<>> THEN 0
     ELSE IF Same = {} THEN 1
     ELSE CHOOSE i \in Same : \A j \in Same : i <= j

RefreshPackages ==
  /\ gui = "input"
  /\ gui' = "idle"
  /\ \E mods \in Mods : packages' \in Scans(mods)
  /\ selected' = KeepSelection(packages')
  /\ UNCHANGED <<shown, engineVars, flagVars, instance, worker, phase, runVars, waiting, runs, asked>>

SelectPackage ==
  /\ gui = "input"
  /\ gui' = "idle"
  /\ selected' \in 1..Len(packages)
  /\ UNCHANGED <<shown, engineVars, flagVars, instance, worker, phase, runVars, packages, waiting, runs, asked>>

MutReloadsWhatRuns(options) == waiting' = runs
PendingStart(options) == waiting' = options

\* StartSelected, which ReloadSelected calls too: not what runs is started
\* again, but what is selected.
StartSelected ==
  /\ HasSelection /\ Selected.valid
  /\ ClickStart
  /\ \/ instance' # instance   \* launched
        /\ runs' = Selected.options /\ waiting' = NoOptions /\ asked' = Selected.options
     \/ gui' = "startCancel"   \* waits for the old worker
        /\ PendingStart(Selected.options) /\ asked' = Selected.options
        /\ UNCHANGED runs
     \/ instance' = instance /\ gui' = "idle"   \* the path does not resolve
        /\ UNCHANGED <<waiting, runs, asked>>
  /\ UNCHANGED <<packages, selected>>

\* Pump launches with the options that waited.
DockPump ==
  /\ Pump
  /\ IF instance' # instance
     THEN runs' = waiting /\ waiting' = NoOptions
     ELSE UNCHANGED <<runs, waiting>>
  /\ UNCHANGED <<packages, selected, asked>>

\* RequestStop forgets what waits.
DockStop ==
  /\ StopLocked \/ ShutdownLocked
  /\ waiting' = NoOptions
  /\ asked' = runs
  /\ UNCHANGED <<packages, selected, runs>>

DockFrame == DockPump \/ ((Paint \/ NoClick) /\ UNCHANGED dockVars)

DockNext ==
  \/ DockFrame \/ RefreshPackages \/ SelectPackage \/ StartSelected \/ DockStop
  \/ /\ ClickStop \/ ClosePanel \/ StartCancel \/ ShutdownJoin
     /\ UNCHANGED dockVars
  \/ \E i \in Instances :
       (Lua(i) \/ Wait(i) \/ Worker(i)) /\ UNCHANGED dockVars

DockSpec == DockInit /\ [][DockNext]_allVars

\* The fairness of ScriptEngine.
DockFairness ==
  /\ WF_allVars(IsActive(runState) /\ DockFrame)
  /\ WF_allVars(StartCancel /\ UNCHANGED dockVars) /\ WF_allVars(DockStop)
  /\ WF_allVars(ShutdownJoin /\ UNCHANGED dockVars)
  /\ \A i \in Instances :
       /\ WF_allVars(cancelled /\ (ChunkEnds(i) \/ TickEnds(i)) /\ UNCHANGED dockVars)
       /\ WF_allVars(UnloadEnds(i) /\ UNCHANGED dockVars)
       /\ WF_allVars(Wait(i) /\ UNCHANGED dockVars) /\ WF_allVars(Worker(i) /\ UNCHANGED dockVars)

DockFairSpec == DockSpec /\ DockFairness

-----------------------------------------------------------------------------
\* What runs, or waits to run, is the package and the options of the last
\* Start or Reload that was not stopped: whatever runs until then, and however
\* the list, the selection and the manifests change while the old script ends.
RunIsAsAsked ==
  /\ DockTypeOK
  /\ asked = IF pending THEN waiting ELSE runs

\* Refresh between editing and Reload (README.md:116) does not change which
\* script is reloaded: the selected file stays selected as long as it is
\* there, wherever a new name or other packages move it in the list.
SelectionSurvivesRefresh ==
  [][packages' # packages /\ HasSelection /\ Selected.valid
       /\ (\E i \in 1..Len(packages') : packages'[i].options.path = Selected.options.path)
     => selected' # 0 /\ packages'[selected'].options.path = Selected.options.path]_allVars
=============================================================================
