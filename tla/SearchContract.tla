--------------------------- MODULE SearchContract ---------------------------
(***************************************************************************)
(* What a search pane of the sidebar promises its user, whatever worker    *)
(* threads, run numbers and joins implement it.  Requests are numbered;    *)
(* the pane shows all the hits of one request, or none (0).                *)
(***************************************************************************)
EXTENDS Naturals

CONSTANT Recallable   \* may the pane bring an earlier request's hits back?

VARIABLES
  asked,   \* number of the latest request
  phase,   \* "idle", "running" or "answered"
  shown    \* the request whose hits are on display

vars == <<asked, phase, shown>>

Init == asked = 0 /\ phase = "idle" /\ shown = 0

(* A new request keeps the hits on display (a drill) or clears them.       *)
Ask ==
  /\ phase # "running"
  /\ asked' = asked + 1 /\ phase' = "running" /\ shown' \in {0, shown}

(* Only the latest request answers, once, and only while it is running.    *)
Answer ==
  /\ phase = "running"
  /\ phase' = "answered" /\ shown' = asked
  /\ UNCHANGED asked

(* A request is withdrawn without an answer; what it showed may be cleared *)
(* with it, but never replaced.                                            *)
Withdraw ==
  /\ phase = "running"
  /\ phase' = "idle" /\ shown' \in {0, shown}
  /\ UNCHANGED asked

(* The hits of a request that is over are dropped.                         *)
Forget ==
  /\ phase # "running"
  /\ phase' = "idle" /\ shown' = 0
  /\ UNCHANGED asked

Recall ==
  /\ Recallable
  /\ phase # "running"
  /\ shown' \in 1..asked
  /\ UNCHANGED <<asked, phase>>

Next == Ask \/ Answer \/ Withdraw \/ Forget \/ Recall

Spec == Init /\ [][Next]_vars
=============================================================================
