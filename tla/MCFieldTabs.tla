---------------------------- MODULE MCFieldTabs ----------------------------
(* Model values for WatchList and FieldEdits.  The watch list and the values *)
(* that are edited share no state, so a behaviour shows one of them while    *)
(* the other rests: their states are added, not multiplied.                  *)
EXTENDS WatchList, FieldEdits

CONSTANTS s1, s2, m1, o1, o2, a1, a2, a3

VARIABLE tab       \* which of the two goes on

MCStatics == {s1, s2}
MCLateStatics == {s2}
MCMembers == {m1}
MCObjects == {o1}
MCPlottable == {s1}

MCOwners == {o1, o2}
MCHolders == {o1, o2}
MCArrays == {a1, a2, a3}
MCCapacities == {0, 1, 2}
MCNumbers == {0, 1}
MCNumber0 == o1 :> 0 @@ o2 :> 1

TabsInit ==
    /\ Init /\ EditInit
    /\ \/ tab = "watches" /\ active = o1
       \/ tab = "fields" /\ ~bad

TabsNext ==
    /\ UNCHANGED tab
    /\ \/ tab = "watches" /\ Next /\ UNCHANGED editVars
       \/ tab = "fields" /\ EditNext /\ UNCHANGED vars

\* The fairness of WatchList, for the behaviours that are about the watch list.
Watches(A) == tab = "watches" /\ A
WatchFairness ==
    /\ WF_vars(Watches(Sample)) /\ WF_vars(Watches(Save \/ SaveFails))
    /\ WF_vars(Watches(Rebind))
    /\ \A s \in Statics : WF_vars(Watches(ClassInitialised(s)))

TabsSpec == TabsInit /\ [][TabsNext]_<<tab, vars, editVars>> /\ WatchFairness
=============================================================================
