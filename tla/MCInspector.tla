---------------------------- MODULE MCInspector ----------------------------
(***************************************************************************)
(* Model values for Inspector: two classes; two objects of A, the first    *)
(* points to the object of B and has a list, and B has a static list.      *)
(***************************************************************************)
EXTENDS Inspector

CONSTANTS A, B, a1, a2, b1

MCKlasses    == {A, B}
MCInstances  == {a1, a2, b1}
MCKlassOf    == [i \in MCInstances |-> IF i = b1 THEN B ELSE A]
MCPointsTo   == [i \in MCInstances |-> IF i = a1 THEN b1 ELSE None]
MCHasList    == {a1}
MCStaticList == {B}
=============================================================================
