-------------------------- MODULE MCCommandChannel --------------------------
(***************************************************************************)
(* Model values for CommandChannel.                                        *)
(***************************************************************************)
EXTENDS CommandChannel

CONSTANTS s1, s2, main

MCTwoSubmitters == {s1, s2}
MCGameThreads   == {main}
=============================================================================
