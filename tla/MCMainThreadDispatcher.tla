----------------------- MODULE MCMainThreadDispatcher -----------------------
(***************************************************************************)
(* Model values for MainThreadDispatcher.                                  *)
(***************************************************************************)
EXTENDS MainThreadDispatcher

CONSTANTS g1, g2, p1, p2

MCGameThreads == {g1, g2}
MCOurThreads  == {p1, p2}
=============================================================================
