--------------------------- MODULE CommandContract ---------------------------
(***************************************************************************)
(* What a script may rely on when it submits work for the Unity main       *)
(* thread (ScriptCommandChannel::Submit), whatever queue, locks and        *)
(* cancellation implement it: the task runs at most once, and the answer   *)
(* says as much about the task as the three verdicts below allow.          *)
(***************************************************************************)
CONSTANT Commands

VARIABLES
  task,     \* "none", "claimed", "abandoned", "running", "ok" or "failed"
  outcome   \* "new", "open" while Submit runs, then what it returned

vars == <<task, outcome>>

\* Verdicts that promise nothing about the task.
Uncommitted == {"CANCELLED", "TIMEOUT", "STARVATION"}
Outcomes == {"OK", "TASK_ERROR", "QUEUE_FULL"} \cup Uncommitted

Init ==
  /\ task = [c \in Commands |-> "none"]
  /\ outcome = [c \in Commands |-> "new"]

Call(c) ==
  /\ outcome[c] = "new"
  /\ outcome' = [outcome EXCEPT ![c] = "open"]
  /\ UNCHANGED task

\* The main thread commits to the task only while the caller still waits.
Claim(c) ==
  /\ outcome[c] = "open"
  /\ task[c] = "none"
  /\ task' = [task EXCEPT ![c] = "claimed"]
  /\ UNCHANGED outcome

\* From here the caller may be gone: a claimed task may still start.
Proceed(c) ==
  /\ \/ task[c] = "claimed" /\ task' \in {[task EXCEPT ![c] = v] : v \in {"abandoned", "running"}}
     \/ task[c] = "running" /\ task' \in {[task EXCEPT ![c] = v] : v \in {"ok", "failed"}}
  /\ UNCHANGED outcome

Return(c) ==
  /\ outcome[c] = "open"
  /\ \E r \in Outcomes :
       /\ r = "OK" => task[c] = "ok"
       /\ r = "TASK_ERROR" => task[c] = "failed"
       /\ r = "QUEUE_FULL" => task[c] = "none"
       /\ outcome' = [outcome EXCEPT ![c] = r]
  /\ UNCHANGED task

Next == \E c \in Commands : Call(c) \/ Claim(c) \/ Proceed(c) \/ Return(c)

Spec == Init /\ [][Next]_vars
=============================================================================
