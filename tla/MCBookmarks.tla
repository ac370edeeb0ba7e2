---------------------------- MODULE MCBookmarks ----------------------------
(* Walks over the players and the weapon of MCValueScan, from the objects   *)
(* themselves and from the hits of two searches: where something is worth   *)
(* 1, however deep, and what is called dmg.                                 *)
EXTENDS MCValueScan, Bookmarks

MCExplored ==
  {[number |-> TRUE, ptr |-> TRUE, deep |-> TRUE, strict |-> TRUE, name |-> name, value |-> value] :
     name \in {<<>>}, value \in {"1"}}
  \cup {[number |-> TRUE, ptr |-> TRUE, deep |-> TRUE, strict |-> TRUE, name |-> <<"bag", "0">>, value |-> ""]}
=============================================================================
