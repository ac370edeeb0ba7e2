--------------------------- MODULE MCControlPanel ---------------------------
(***************************************************************************)
(* Model values for ControlPanel: one game thread, the panel's producers.  *)
(***************************************************************************)
EXTENDS ControlPanel

CONSTANT game

MCGameThreads == {game}
=============================================================================
