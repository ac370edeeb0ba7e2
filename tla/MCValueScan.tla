---------------------------- MODULE MCValueScan ----------------------------
(* Two players, found under their base class too, that point to each other  *)
(* and to a weapon that points back.  One has three pointers that lead      *)
(* anywhere, one more than a walk follows.                                  *)
EXTENDS ValueScan

MCKlasses   == <<"Base", "Player", "Weapon", "Part">>
MCInstances == {"p", "q", "w", "cell"}
MCStructs   == {"Part"}
MCNull      == "nil"

F(name, kind, of) == [name |-> name, kind |-> kind, of |-> of]

MCFields ==
  [Base   |-> <<F("hp", "number", "")>>,
   Player |-> <<F("pos", "inline", ""), F("gun", "ptr", "Weapon"), F("ally", "ptr", "Base"),
                F("rival", "ptr", "Player"), F("bag", "list", "Weapon")>>,
   Weapon |-> <<F("dmg", "number", ""), F("owner", "ptr", "Player"), F("mods", "list", ""),
                F("parts", "list", "Part")>>,
   Part   |-> <<F("cost", "number", ""), F("from", "ptr", "Player")>>]

MCClassOf    == [p |-> "Player", q |-> "Player", w |-> "Weapon", cell |-> "Part"]
MCCandidates == [Base |-> <<"p", "q">>, Player |-> <<"p", "q">>, Weapon |-> <<"w">>, Part |-> <<>>]
MCUnresolved == {"Base"}

Person(gun, ally, rival, bag, hp) ==
  [hp |-> hp, pos |-> "1", gun |-> gun, ally |-> ally, rival |-> rival, bag |-> bag]

MCHeaps ==
  {[p |-> Person("w", ally, "q", <<"w", "w">>, "0"), q |-> Person("nil", "p", "nil", <<>>, "1"),
    w |-> [dmg |-> "1", owner |-> owner, mods |-> <<"0", "1">>, parts |-> <<"cell">>],
    cell |-> [cost |-> "1", from |-> owner]] :
     <<ally, owner>> \in {<<"p", "q">>, <<"q", "p">>, <<"q", "q">>}}

MCNeedles == {<<>>, <<"dmg">>, <<"gun">>, <<"x">>, <<"bag", "0">>, <<"owner", "mods">>}
MCIndex   == <<"0", "1">>
=============================================================================
