--------------------------- MODULE MCScriptEngine ---------------------------
(***************************************************************************)
(* ScriptEngine for model checking: the bound on launched instances comes  *)
(* from the configurations.                                                *)
(***************************************************************************)
EXTENDS ScriptEngine
=============================================================================
