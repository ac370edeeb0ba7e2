---------------------------- MODULE MCScriptDock ----------------------------
(***************************************************************************)
(* Model values for ScriptDock: a folder without a manifest and a loose    *)
(* script; then the folder with a manifest that moves it to the end of the *)
(* list and gives a number out of range, and one that names no file.       *)
(***************************************************************************)
EXTENDS ScriptDock, TLC

Script == [kind |-> "lua"]

Folder(manifest, given) ==
  [kind |-> "folder", manifest |-> manifest, given |-> given, files |-> ("main.lua" :> "file")]

MCUnsafeNames == {"sub/main.lua"}

MCMods == {
  (1 :> Folder("none", <<>>)) @@ (2 :> Script),
  (1 :> Folder("whole", [name |-> 4, profile |-> "Advanced", tick |-> 1]))
    @@ (3 :> Folder("whole", [entry |-> "sub/main.lua"])) }
=============================================================================
