------------------------- MODULE MCScriptReflection -------------------------
(***************************************************************************)
(* Model values for ScriptReflection: integers of 2, 3, 4 and 6 bits, so   *)
(* that only the widest have more than the mantissa of a number, and       *)
(* floats that reach beyond the widest integers, in halves -64..62.        *)
(***************************************************************************)
EXTENDS ScriptReflection, TLC

CONSTANTS o1, o2, Base, Derived

MCObjects     == {o1, o2}
MCClasses     == {Base, Derived}
MCAddresses   == MCObjects \cup MCClasses
MCKinds       == {"class", "member", "instance"}
MCDescendants == [c \in MCClasses |-> IF c = Base THEN MCClasses ELSE {c}]
MCSymmetry    == Permutations(MCObjects)
MCWidth       == [cat \in IntegerCats |-> CASE cat \in {"I1", "U1"} -> 2
                                            [] cat \in {"I2", "U2"} -> 3
                                            [] cat \in {"I4", "U4"} -> 4
                                            [] cat \in {"I8", "U8"} -> 6]
MCLimit       == [cat \in FloatCats |-> IF cat = "R4" THEN 80 ELSE 112]
=============================================================================
