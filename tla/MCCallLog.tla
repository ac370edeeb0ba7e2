------------------------------ MODULE MCCallLog -----------------------------
(***************************************************************************)
(* Model values for CallLog.                                               *)
(***************************************************************************)
EXTENDS CallLog, TLC

CONSTANTS m1, m2, f, t1, t2, b1, b2

MCMethods == {m1, m2, f}
MCForeign == {f}
MCThreads == {t1, t2}
MCBlocks  == {b1, b2}
MCSymmetry == Permutations({m1, m2}) \cup Permutations(MCThreads) \cup Permutations(MCBlocks)
=============================================================================
