---------------------------- MODULE MCImageScope ----------------------------
(***************************************************************************)
(* Model values for ImageScope: two images of two classes each.            *)
(***************************************************************************)
EXTENDS ImageScope

CONSTANTS i1, i2, a1, a2, a3

MCImages    == {i1, i2}
MCSize      == [i \in MCImages |-> 2]
MCAddresses == {a1, a2, a3}
=============================================================================
