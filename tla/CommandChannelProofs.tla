------------------------ MODULE CommandChannelProofs ------------------------
(***************************************************************************)
(* Theorems about CommandChannel, for any number of submitters and game    *)
(* threads, any capacity, queue depth and drain budget, and any number of  *)
(* calls: the channel keeps its promise to the scripts (CommandContract),  *)
(* and inherits what MainThreadDispatcherProofs proves of the dispatcher.  *)
(***************************************************************************)
EXTENDS CommandChannel, SequenceTheorems, FiniteSetTheorems, TLAPS

DP == INSTANCE MainThreadDispatcherProofs

(***************************************************************************)
(* The inductive invariant.  That an answer tells the truth about the task *)
(* needs the whole history of the command: who submits it (Numbered),      *)
(* which ticket of the dispatcher runs it (Ticketed), that it has no job   *)
(* before it is pushed and is over when nobody submits it any more         *)
(* (Queueing), that the job at work is the only one and where it stands    *)
(* (TaskOfJob), and what each terminal status and each local result says   *)
(* about the task (StatusTrue, VerdictTrue).                               *)
(***************************************************************************)
Numbered ==
  /\ \A s \in Submitters : cur[s] \in 0..calls /\ (cur[s] = NoCommand <=> pc[s] = "idle")
  /\ \A s, r \in Submitters : cur[s] = cur[r] /\ cur[s] # NoCommand => s = r
  /\ \A s \in Submitters : cur[s] # NoCommand => outcome[cur[s]] = "open"
  /\ \A c \in Commands : outcome[c] = "new" <=> c > calls
  /\ \A c \in Commands : c > calls => status[c] = "Pending"
  /\ \A n \in 1..Len(jobOf) : jobOf[n] \in 0..calls
  /\ \A i \in 1..Len(snapshot) : snapshot[i] \in 1..calls

\* The tickets of the dispatcher, which stays open, are the indices of jobOf.
Ticketed ==
  /\ shutdown = "open"
  /\ Len(jobOf) = accepted
  /\ \A t \in D!Threads : running[t] <= Len(jobOf)

\* Before its job is pushed.
Early == {"capacity", "register", "markQueued", "enqueue", "push"}

Queueing ==
  /\ \A s \in Submitters : pc[s] \in Early => ~WasQueued(cur[s])
  /\ \A s \in Submitters :
       pc[s] \in {"capacity", "register", "markQueued"} => status[cur[s]] \notin {"Queued", "Running"}
  /\ \A s \in Submitters :
       pc[s] \in {"erase", "endSubmit"} => verdict[s] = "QUEUE_FULL" \/ IsTerminal(cur[s])
  /\ \A c \in Commands : outcome[c] \notin {"new", "open"} => IsTerminal(c) \/ status[c] = "Pending"

\* What a job at a given point of it has made of its task.
TaskAt == [check |-> {"claimed"}, invoke |-> {"claimed"}, task |-> {"running"},
           mark |-> {"ok", "failed"}]

TaskOfJob ==
  /\ \A c \in Commands : task[c] # "none" => WasQueued(c)
  /\ \A c \in Commands : status[c] = "Queued" => task[c] = "none"
  /\ \A t \in D!Threads : JobCommand(t) # NoCommand /\ jobPc \in DOMAIN TaskAt =>
                            task[JobCommand(t)] \in TaskAt[jobPc]
  /\ jobPc # "none" => \E t \in D!Threads : JobCommand(t) # NoCommand
  /\ canceller = "mark" => snapshot # <<>>

StatusTrue ==
  \A c \in Commands :
    /\ status[c] = "Succeeded" => task[c] = "ok"
    /\ status[c] = "Failed" => task[c] = "failed" /\ answer[c] = "TASK_ERROR"
    /\ status[c] = "CancelledQueueFull" => \A s \in Submitters : cur[s] # c
    /\ status[c] \in {"CancelledTimeout", "CancelledShutdown", "TimeoutEngineStarvation"} =>
         answer[c] \in {"TIMEOUT", "CANCELLED", "STARVATION"}

VerdictTrue ==
  \A s \in Submitters :
    pc[s] \in {"erase", "endSubmit"} =>
      /\ verdict[s] # "BAD_ARGUMENT"
      /\ verdict[s] = "OK" => task[cur[s]] = "ok"
      /\ verdict[s] = "TASK_ERROR" => task[cur[s]] = "failed"
      /\ verdict[s] = "QUEUE_FULL" => ~WasQueued(cur[s])

\* What the channel adds to the invariant of the dispatcher.
Own ==
  /\ TypeOK
  /\ SlotsBalance
  /\ Numbered
  /\ Ticketed
  /\ Queueing
  /\ TaskOfJob
  /\ StatusTrue
  /\ VerdictTrue

IInv == DP!IInv /\ Own

-----------------------------------------------------------------------------
(***************************************************************************)
(* The dispatcher under the channel.                                       *)
(***************************************************************************)
\* DispatcherAssumption, of the channel's threads and bounds.
LEMMA DispatcherConstants ==
  /\ GameThreads \cap OurThreads = {}
  /\ NoThread \notin DP!Threads
  /\ MaxQueueDepth \in Nat \ {0}
  /\ MaxJobsPerDrain \in Nat \ {0}
  /\ MaxAccepted \in Nat
BY ChannelAssumption DEF OurThreads, DP!Threads, MaxAccepted

LEMMA DispatcherInit == D!Init => DP!IInv
<1>1. DP!Init => DP!IInv
  BY DispatcherConstants, DP!InitIInv DEF DP!Threads
<1>2. D!Init => DP!Init
  BY DEF D!Init, DP!Init, D!Threads, DP!Threads, D!NoJob, DP!NoJob
<1> QED
  BY <1>1, <1>2

LEMMA DispatcherNext == DP!IInv /\ [DP!Next]_(DP!vars) => DP!IInv'
BY DispatcherConstants, DP!NextIInv DEF DP!Threads

\* What the channel needs to know of the dispatcher.
LEMMA DispatcherFacts ==
  ASSUME DP!IInv
  PROVE  /\ D!TypeOK
         /\ \A t \in D!Threads : draining[t] \/ running[t] # D!NoJob =>
              t = mainThread /\ t \in GameThreads /\ draining[t]
         /\ shutdown = "open" =>
              \A i \in 1..Len(queue) : queue[i] = accepted - Len(queue) + i
BY DEF DP!IInv, DP!TypeOK, D!TypeOK, DP!Threads, D!Threads, DP!CallStates, D!CallStates,
       DP!DrainsOnMainThreadOnly, DP!NoJob, D!NoJob, DP!QueueIsNewestSuffix

LEMMA DispatcherTypes == DP!IInv' => D!TypeOK'
BY DEF DP!IInv, DP!TypeOK, D!TypeOK, DP!Threads, D!Threads, DP!CallStates, D!CallStates

\* An action of the channel is a step of the dispatcher or leaves it alone.
LEMMA DispatcherFrame == UNCHANGED dispatcherVars => UNCHANGED DP!vars
BY DEF dispatcherVars, DP!vars, DP!queueVars, DP!drainVars, DP!historyVars

LEMMA DispatcherStep == Next => [DP!Next]_(DP!vars)
<1> SUFFICES ASSUME Next PROVE DP!Next \/ UNCHANGED DP!vars
  OBVIOUS
<1> USE DEF DP!queueVars, DP!drainVars, DP!historyVars, D!queueVars, D!drainVars, D!historyVars,
            D!NoJob, DP!NoJob
<1>1. CASE \E s \in Submitters : EnqueueTest(s)
  BY <1>1 DEF EnqueueTest, D!EnqueueCall, DP!EnqueueCall, DP!Next, OurThreads
<1>2. CASE \E s \in Submitters : EnqueuePush(s)
  BY <1>2 DEF EnqueuePush, D!TryEnqueueNoDropLocked, DP!TryEnqueueNoDropLocked,
              D!TryEnqueueAccepts, DP!TryEnqueueAccepts, D!Accepting, DP!Accepting,
              D!Full, DP!Full, D!Push, DP!Push, DP!Next, OurThreads
<1>3. CASE \E t \in GameThreads : Enter(t)
  BY <1>3 DEF Enter, D!DetourEnter, DP!DetourEnter, D!MayDrain, DP!MayDrain, DP!Threads, DP!Next
<1>4. CASE \E t \in GameThreads : Pop(t)
  BY <1>4 DEF Pop, D!DrainPop, DP!DrainPop, D!BudgetLeft, DP!BudgetLeft, DP!Threads, DP!Drain, DP!Next
<1>5. CASE \E t \in GameThreads : Leave(t)
  BY <1>5 DEF Leave, D!JobReturn, DP!JobReturn, D!DrainExit, DP!DrainExit,
              D!BudgetLeft, DP!BudgetLeft, DP!Threads, DP!Drain, DP!Next
<1>6. CASE GuiEnqueueTest
  BY <1>6 DEF GuiEnqueueTest, D!EnqueueCall, DP!EnqueueCall, DP!Next, OurThreads
<1>7. CASE GuiEnqueue
  BY <1>7 DEF GuiEnqueue, D!EnqueueLocked, DP!EnqueueLocked, D!Accepting, DP!Accepting,
              D!Full, DP!Full, D!DropOldest, DP!DropOldest, D!Push, DP!Push, DP!Next, OurThreads
<1>8. CASE UNCHANGED dispatcherVars
  BY <1>8, DispatcherFrame
<1> QED
  BY <1>1, <1>2, <1>3, <1>4, <1>5, <1>6, <1>7, <1>8
     DEF Next, SubmitCall, SubmitStep, AcquireSlot, NoSlot, Register, MarkQueued, WaitDone,
         WaitTimeout, TimeoutCancel, TimeoutMark, Erase, EndSubmit, ScriptStop, MainStep,
         JobClaim, JobCheck, TaskBegin, TaskEnd, JobMark, StopScript, TakeSnapshot,
         VisitCommand, MarkCancelled, CancelDone, Relaunch

-----------------------------------------------------------------------------
(***************************************************************************)
(* The operators of the channel.                                           *)
(***************************************************************************)
\* Erasing a registered command leaves the others, each once.
LEMMA WithoutIsErase ==
  ASSUME NEW S, NEW q \in Seq(S), IsInjective(q), NEW i \in 1..Len(q)
  PROVE  /\ Without(q, q[i]) \in Seq(S)
         /\ IsInjective(Without(q, q[i]))
         /\ {Without(q, q[i])[j] : j \in 1..Len(Without(q, q[i]))}
              = {q[j] : j \in 1..Len(q)} \ {q[i]}
<1> DEFINE w == RemoveAt(q, i)
<1>1. Without(q, q[i]) = w
  <2>1. {j \in 1..Len(q) : q[j] = q[i]} = {i}
    BY DEF IsInjective
  <2> QED
    BY <2>1 DEF Without
<1>2. /\ w \in Seq(S)
      /\ Len(w) = Len(q) - 1
      /\ \A j \in 1..(Len(q) - 1) : w[j] = IF j < i THEN q[j] ELSE q[j + 1]
  <2> DEFINE l == SubSeq(q, 1, i - 1)
             r == SubSeq(q, i + 1, Len(q))
  <2>1. l \in Seq(S) /\ Len(l) = i - 1 /\ \A j \in 1..(i - 1) : l[j] = q[j]
    OBVIOUS
  <2>2. r \in Seq(S) /\ Len(r) = Len(q) - i /\ \A j \in 1..(Len(q) - i) : r[j] = q[i + j]
    OBVIOUS
  <2>3. w = l \o r
    BY DEF RemoveAt
  <2> HIDE DEF l, r, w
  <2>4. w \in Seq(S) /\ Len(w) = Len(l) + Len(r)
    BY <2>1, <2>2, <2>3, ConcatProperties
  <2>5. ASSUME NEW j \in 1..(Len(q) - 1)
        PROVE  w[j] = IF j < i THEN l[j] ELSE r[j - (i - 1)]
    <3>1. \A k \in 1..(Len(l) + Len(r)) : w[k] = IF k <= Len(l) THEN l[k] ELSE r[k - Len(l)]
      BY <2>1, <2>2, <2>3, ConcatProperties
    <3>2. Len(l) = i - 1 /\ Len(l) + Len(r) = Len(q) - 1
      BY <2>1, <2>2
    <3> QED
      BY <3>1, <3>2
  <2>6. ASSUME NEW j \in 1..(Len(q) - 1), j >= i
        PROVE  r[j - (i - 1)] = q[j + 1]
    BY <2>2, <2>6
  <2>7. ASSUME NEW j \in 1..(Len(q) - 1)
        PROVE  w[j] = IF j < i THEN q[j] ELSE q[j + 1]
    <3>1. CASE j < i
      <4>1. j \in 1..(i - 1)
        BY <3>1
      <4> QED
        BY <2>1, <2>5, <3>1, <4>1
    <3>2. CASE ~(j < i)
      <4>1. j >= i
        BY <3>2
      <4>2. w[j] = r[j - (i - 1)] /\ r[j - (i - 1)] = q[j + 1]
        BY <2>5, <2>6, <3>2, <4>1
      <4> QED
        BY <3>2, <4>2
    <3> QED
      BY <3>1, <3>2
  <2>8. Len(w) = Len(q) - 1
    BY <2>1, <2>2, <2>4
  <2> QED
    BY <2>4, <2>7, <2>8
<1> HIDE DEF w
<1>3. IsInjective(w)
  <2>1. \A j, k \in 1..Len(q) : q[j] = q[k] => j = k
    BY DEF IsInjective
  <2>2. ASSUME NEW j \in 1..Len(w), NEW k \in 1..Len(w), w[j] = w[k]
        PROVE  j = k
    <3>1. PICK m \in 1..Len(q) : m = (IF j < i THEN j ELSE j + 1) /\ w[j] = q[m]
      BY <1>2
    <3>2. PICK n \in 1..Len(q) : n = (IF k < i THEN k ELSE k + 1) /\ w[k] = q[n]
      BY <1>2
    <3>3. m = n
      BY <2>1, <2>2, <3>1, <3>2
    <3> QED
      BY <3>1, <3>2, <3>3
  <2> QED
    BY <1>2, <2>2 DEF IsInjective
<1>4. {w[j] : j \in 1..Len(w)} = {q[j] : j \in 1..Len(q)} \ {q[i]}
  <2>1. \A j \in 1..Len(w) : w[j] \in {q[k] : k \in 1..Len(q)} /\ w[j] # q[i]
    BY <1>2 DEF IsInjective
  <2>2. ASSUME NEW k \in 1..Len(q), q[k] # q[i]
        PROVE  \E j \in 1..Len(w) : w[j] = q[k]
    <3>1. CASE k < i
      BY <1>2, <3>1
    <3>2. CASE k > i
      <4>1. k - 1 \in 1..Len(w) /\ w[k - 1] = q[k]
        BY <1>2, <3>2
      <4> QED
        BY <4>1
    <3> QED
      BY <2>2, <3>1, <3>2
  <2>3. {w[j] : j \in 1..Len(w)} \subseteq {q[j] : j \in 1..Len(q)} \ {q[i]}
    BY <2>1
  <2>4. {q[j] : j \in 1..Len(q)} \ {q[i]} \subseteq {w[j] : j \in 1..Len(w)}
    BY <2>2
  <2> QED
    BY <2>3, <2>4
<1> QED
  BY <1>1, <1>2, <1>3, <1>4

\* Registering a command that is not registered yet.
LEMMA AppendRegisters ==
  ASSUME NEW S, NEW q \in Seq(S), IsInjective(q), NEW c \in S,
         c \notin {q[j] : j \in 1..Len(q)}
  PROVE  /\ Append(q, c) \in Seq(S)
         /\ IsInjective(Append(q, c))
         /\ {Append(q, c)[j] : j \in 1..Len(Append(q, c))} = {q[j] : j \in 1..Len(q)} \cup {c}
<1> DEFINE a == Append(q, c)
<1>1. /\ a \in Seq(S) /\ Len(a) = Len(q) + 1 /\ a[Len(q) + 1] = c
      /\ \A j \in 1..Len(q) : a[j] = q[j]
  OBVIOUS
<1> HIDE DEF a
<1>2. IsInjective(a)
  BY <1>1 DEF IsInjective
<1>3. {a[j] : j \in 1..Len(a)} = {q[j] : j \in 1..Len(q)} \cup {c}
  BY <1>1
<1> QED
  BY <1>1, <1>2, <1>3 DEF a

\* An accepted job gets the next ticket, and changes nothing about the others.
LEMMA NewTicket ==
  ASSUME TypeOK, Ticketed, NEW n \in Commands \cup {NoCommand}, jobOf' = Append(jobOf, n),
         UNCHANGED running
  PROVE  /\ jobOf' \in Seq(Commands \cup {NoCommand})
         /\ Len(jobOf') = Len(jobOf) + 1
         /\ \A c \in Commands : WasQueued(c)' <=> WasQueued(c) \/ c = n
         /\ \A k \in 1..Len(jobOf') : jobOf'[k] = IF k = Len(jobOf') THEN n ELSE jobOf[k]
         /\ \A t \in D!Threads : JobCommand(t)' = JobCommand(t)
<1>1. /\ jobOf \in Seq(Commands \cup {NoCommand})
      /\ \A t \in D!Threads : running[t] \in Nat /\ running[t] <= Len(jobOf)
  BY DEF TypeOK, D!TypeOK, Ticketed
<1>2. /\ jobOf' \in Seq(Commands \cup {NoCommand}) /\ Len(jobOf') = Len(jobOf) + 1
      /\ jobOf'[Len(jobOf) + 1] = n
      /\ \A k \in 1..Len(jobOf) : jobOf'[k] = jobOf[k]
  BY <1>1
<1>3. \A c \in Commands : WasQueued(c)' <=> WasQueued(c) \/ c = n
  BY <1>1, <1>2 DEF WasQueued
<1>4. \A t \in D!Threads : JobCommand(t)' = JobCommand(t)
  BY <1>1, <1>2 DEF JobCommand, D!NoJob
<1> QED
  BY <1>1, <1>2, <1>3, <1>4

-----------------------------------------------------------------------------

\* What a step leaves alone.
LEMMA TicketsStay ==
  ASSUME Ticketed, UNCHANGED <<shutdown, accepted, running, jobOf>>
  PROVE  Ticketed'
BY DEF Ticketed

LEMMA JobsStay ==
  ASSUME UNCHANGED jobOf
  PROVE  \A c : WasQueued(c)' <=> WasQueued(c)
BY DEF WasQueued

LEMMA TaskOfJobStays ==
  ASSUME TaskOfJob, UNCHANGED <<jobOf, running, jobPc, task, status, canceller, snapshot>>
  PROVE  TaskOfJob'
<1>1. \A t \in D!Threads : JobCommand(t)' = JobCommand(t)
  BY DEF JobCommand
<1> QED
  BY <1>1, JobsStay DEF TaskOfJob

LEMMA SlotsStay ==
  ASSUME SlotsBalance, UNCHANGED <<inFlight, active>>,
         \A s \in Submitters : /\ HoldsSlot(s)' <=> HoldsSlot(s)
                               /\ Registered(s)' <=> Registered(s)
                               /\ Registered(s) => cur'[s] = cur[s]
  PROVE  SlotsBalance'
<1>1. {s \in Submitters : HoldsSlot(s)'} = {s \in Submitters : HoldsSlot(s)}
  OBVIOUS
<1>2. {cur'[s] : s \in {x \in Submitters : Registered(x)'}} = {cur[s] : s \in {x \in Submitters : Registered(x)}}
  OBVIOUS
<1> QED
  BY <1>1, <1>2 DEF SlotsBalance



\* The first terminal status stays, with its answer.
LEMMA MarkOnce ==
  ASSUME TypeOK, NEW c \in Commands, NEW terminalStatus \in Terminal, NEW result \in Answers,
         MarkTerminal(c, terminalStatus, result)
  PROVE  /\ status' \in [Commands -> Statuses] /\ answer' \in [Commands -> Answers]
         /\ status'[c] \in Terminal
         /\ \A d \in Commands : IsTerminal(d) \/ d # c => status'[d] = status[d] /\ answer'[d] = answer[d]
         /\ ~IsTerminal(c) => status'[c] = terminalStatus /\ answer'[c] = result
<1>1. CASE IsTerminal(c)
  BY <1>1 DEF MarkTerminal, TypeOK, IsTerminal
<1>2. CASE ~IsTerminal(c)
  <2>1. status' = [status EXCEPT ![c] = terminalStatus] /\ answer' = [answer EXCEPT ![c] = result]
    BY <1>2 DEF MarkTerminal
  <2>2. status \in [Commands -> Statuses] /\ answer \in [Commands -> Answers] /\ terminalStatus \in Statuses
    BY DEF TypeOK, Statuses
  <2>3. \A d \in Commands : d # c => status'[d] = status[d] /\ answer'[d] = answer[d]
    BY <2>1, <2>2
  <2>4. status'[c] = terminalStatus /\ answer'[c] = result
    BY <2>1, <2>2
  <2>5. status' \in [Commands -> Statuses] /\ answer' \in [Commands -> Answers]
    BY <2>1, <2>2
  <2> QED
    BY <1>2, <2>3, <2>4, <2>5
<1> QED
  BY <1>1, <1>2

LEMMA SubmitKeeps ==
  ASSUME Own, D!TypeOK', NEW s \in Submitters, SubmitCall(s) \/ SubmitStep(s)
  PROVE  Own'
<1> USE DEF Goto, Return, submitVars, commandVars, channelVars, cancelVars, mainVars, dispatcherVars, NoCommand
<1>1. CASE SubmitCall(s)
  <2>1. /\ pc[s] = "idle" /\ calls < MaxCommands
        /\ calls' = calls + 1
        /\ cur' = [cur EXCEPT ![s] = calls + 1]
        /\ outcome' = [outcome EXCEPT ![calls + 1] = "open"]
        /\ pc' = [pc EXCEPT ![s] = "capacity"]
        /\ UNCHANGED <<shutdown, accepted, running, jobOf, verdict, status, cancelReq, answer,
                       inFlight, active, cancelled, canceller, snapshot, jobPc, task>>
    BY <1>1 DEF SubmitCall
  <2>2. MaxCommands \in Nat /\ calls \in Nat /\ calls + 1 \in 1..MaxCommands
    BY <2>1, ChannelAssumption DEF Own, TypeOK
  <2>3. TypeOK'
    BY <2>1, <2>2 DEF Own, TypeOK, Commands, SubmitPcs
  <2>4. SlotsBalance'
    BY <2>1, SlotsStay DEF Own, TypeOK, Registered, HoldsSlot
  <2>5. Numbered'
    BY <2>1, <2>2 DEF Own, TypeOK, Commands, Numbered
  <2>6. Queueing'
    <3>1. ~WasQueued(calls + 1)
      BY <2>2 DEF Own, Numbered, WasQueued
    <3>2. status[calls + 1] = "Pending"
      BY <2>2 DEF Own, Numbered, Commands
    <3> QED
      BY <2>1, <2>2, <3>1, <3>2, JobsStay DEF Own, TypeOK, Commands, Numbered, Queueing, Early, IsTerminal
  <2>7. StatusTrue' /\ VerdictTrue'
    BY <2>1, <2>2, JobsStay DEF Own, TypeOK, Commands, Numbered, StatusTrue, VerdictTrue
  <2> QED
    BY <2>1, <2>3, <2>4, <2>5, <2>6, <2>7, TicketsStay, TaskOfJobStays DEF Own
<1>2. CASE AcquireSlot(s)
  <2>1. /\ pc[s] = "capacity" /\ inFlight < Capacity
        /\ inFlight' = inFlight + 1
        /\ pc' = [pc EXCEPT ![s] = "register"]
        /\ UNCHANGED <<shutdown, accepted, running, jobOf, cur, verdict, calls, outcome,
                       status, cancelReq, answer, active, cancelled, canceller, snapshot, jobPc, task>>
    BY <1>2 DEF AcquireSlot
  <2>2. TypeOK'
    BY <2>1 DEF Own, TypeOK, SubmitPcs
  <2>3. SlotsBalance'
    <3> DEFINE Holders == {r \in Submitters : HoldsSlot(r)}
    <3>1. Holders' = Holders \cup {s} /\ s \notin Holders
      BY <2>1 DEF Own, TypeOK, HoldsSlot
    <3>2. IsFiniteSet(Holders)
      BY ChannelAssumption, FS_Subset
    <3>3. Cardinality(Holders') = Cardinality(Holders) + 1
      BY <3>1, <3>2, FS_AddElement
    <3>4. inFlight' = Cardinality(Holders') /\ inFlight' <= Capacity
      BY <2>1, <3>3, ChannelAssumption DEF Own, TypeOK, SlotsBalance
    <3>5. \A r \in Submitters : Registered(r)' <=> Registered(r)
      BY <2>1 DEF Own, TypeOK, Registered, HoldsSlot
    <3>6. {cur'[r] : r \in {x \in Submitters : Registered(x)'}} = {cur[r] : r \in {x \in Submitters : Registered(x)}}
      BY <2>1, <3>5
    <3> QED
      BY <2>1, <3>4, <3>6 DEF Own, SlotsBalance
  <2>4. Numbered' /\ Queueing' /\ StatusTrue' /\ VerdictTrue'
    BY <2>1, JobsStay DEF Own, TypeOK, Numbered, Queueing, Early, IsTerminal, StatusTrue, VerdictTrue
  <2> QED
    BY <2>1, <2>2, <2>3, <2>4, TicketsStay, TaskOfJobStays DEF Own
<1>3. CASE NoSlot(s)
  <2>1. PICK r \in {"CANCELLED", "QUEUE_FULL"} :
          /\ pc[s] = "capacity"
          /\ pc' = [pc EXCEPT ![s] = "idle"]
          /\ outcome' = [outcome EXCEPT ![cur[s]] = r]
          /\ cur' = [cur EXCEPT ![s] = 0]
          /\ verdict' = [verdict EXCEPT ![s] = "OK"]
          /\ UNCHANGED <<shutdown, accepted, running, jobOf, calls, status, cancelReq, answer,
                         inFlight, active, cancelled, canceller, snapshot, jobPc, task>>
    BY <1>3 DEF NoSlot
  <2>2. cur[s] \in 1..calls /\ cur[s] \in Commands
    BY <2>1 DEF Own, TypeOK, Numbered, Commands
  <2>3. TypeOK'
    BY <2>1, <2>2 DEF Own, TypeOK, SubmitPcs, Answers
  <2>4. SlotsBalance'
    BY <2>1, SlotsStay DEF Own, TypeOK, Registered, HoldsSlot
  <2>5. Numbered'
    BY <2>1, <2>2 DEF Own, TypeOK, Numbered
  <2>6. Queueing'
    <3>1. IsTerminal(cur[s]) \/ status[cur[s]] = "Pending"
      BY <2>1, <2>2 DEF Own, TypeOK, Queueing, Statuses, IsTerminal
    <3> QED
      BY <2>1, <2>2, <3>1, JobsStay DEF Own, TypeOK, Numbered, Queueing, Early, IsTerminal
  <2>7. StatusTrue' /\ VerdictTrue'
    BY <2>1, <2>2, JobsStay DEF Own, TypeOK, Commands, Numbered, StatusTrue, VerdictTrue
  <2> QED
    BY <2>1, <2>3, <2>4, <2>5, <2>6, <2>7, TicketsStay, TaskOfJobStays DEF Own
<1>4. CASE Register(s)
  <2>1. /\ pc[s] = "register"
        /\ active' = Append(active, cur[s])
        /\ pc' = [pc EXCEPT ![s] = "markQueued"]
        /\ UNCHANGED <<shutdown, accepted, running, jobOf, cur, verdict, calls, outcome,
                       status, cancelReq, answer, inFlight, cancelled, canceller, snapshot, jobPc, task>>
    BY <1>4 DEF Register
  <2>2. cur[s] \in Commands /\ active \in Seq(Commands) /\ IsInjective(active)
    BY <2>1 DEF Own, TypeOK, Numbered, SlotsBalance
  <2>3. cur[s] \notin {active[j] : j \in 1..Len(active)}
    <3>1. \A r \in Submitters : Registered(r) => cur[r] # cur[s]
      BY <2>1 DEF Own, Registered, HoldsSlot, Numbered
    <3> QED
      BY <3>1 DEF Own, SlotsBalance
  <2>4. /\ active' \in Seq(Commands) /\ IsInjective(active')
        /\ {active'[j] : j \in 1..Len(active')} = {active[j] : j \in 1..Len(active)} \cup {cur[s]}
    BY <2>1, <2>2, <2>3, AppendRegisters
  <2>5. TypeOK'
    BY <2>1, <2>4 DEF Own, TypeOK, SubmitPcs
  <2>6. SlotsBalance'
    <3>1. \A r \in Submitters : /\ HoldsSlot(r)' <=> HoldsSlot(r)
                                /\ Registered(r)' <=> Registered(r) \/ r = s
      BY <2>1 DEF Own, TypeOK, Registered, HoldsSlot
    <3>2. {r \in Submitters : HoldsSlot(r)'} = {r \in Submitters : HoldsSlot(r)}
      BY <3>1
    <3>3. {cur'[r] : r \in {x \in Submitters : Registered(x)'}}
            = {cur[r] : r \in {x \in Submitters : Registered(x)}} \cup {cur[s]}
      BY <2>1, <3>1
    <3> QED
      BY <2>1, <2>4, <3>2, <3>3 DEF Own, SlotsBalance
  <2>7. Numbered' /\ Queueing' /\ StatusTrue' /\ VerdictTrue'
    BY <2>1, JobsStay DEF Own, TypeOK, Numbered, Queueing, Early, IsTerminal, StatusTrue, VerdictTrue
  <2> QED
    BY <2>1, <2>5, <2>6, <2>7, TicketsStay, TaskOfJobStays DEF Own
<1>5. CASE MarkQueued(s)
  <2>1. /\ pc[s] = "markQueued"
        /\ status' = [status EXCEPT ![cur[s]] = "Queued"]
        /\ pc' = [pc EXCEPT ![s] = "enqueue"]
        /\ UNCHANGED <<shutdown, accepted, running, jobOf, cur, verdict, calls, outcome,
                       cancelReq, answer, inFlight, active, cancelled, canceller, snapshot, jobPc, task>>
    BY <1>5 DEF MarkQueued
  <2>2. /\ cur[s] \in Commands /\ cur[s] # 0 /\ cur[s] <= calls /\ outcome[cur[s]] = "open"
        /\ \A r \in Submitters : r # s => cur[r] # cur[s]
    BY <2>1 DEF Own, TypeOK, Numbered
  <2>3. TypeOK'
    BY <2>1, <2>2 DEF Own, TypeOK, SubmitPcs, Statuses
  <2>4. SlotsBalance'
    BY <2>1, SlotsStay DEF Own, TypeOK, Registered, HoldsSlot
  <2>5. Numbered'
    BY <2>1, <2>2 DEF Own, TypeOK, Commands, Numbered
  <2>6. Queueing'
    BY <2>1, <2>2, JobsStay DEF Own, TypeOK, Queueing, Early, IsTerminal
  <2>7. TaskOfJob'
    <3>1. task[cur[s]] = "none"
      BY <2>1, <2>2 DEF Own, Queueing, Early, TaskOfJob
    <3>2. \A t \in D!Threads : JobCommand(t)' = JobCommand(t)
      BY <2>1 DEF JobCommand
    <3> QED
      BY <2>1, <2>2, <3>1, <3>2, JobsStay DEF Own, TypeOK, TaskOfJob
  <2>8. StatusTrue' /\ VerdictTrue'
    BY <2>1, <2>2, JobsStay DEF Own, TypeOK, StatusTrue, VerdictTrue
  <2> QED
    BY <2>1, <2>3, <2>4, <2>5, <2>6, <2>7, <2>8, TicketsStay DEF Own
<1>6. CASE EnqueueTest(s)
  <2>1. /\ pc[s] = "enqueue"
        /\ pc' = [pc EXCEPT ![s] = "push"]
        /\ UNCHANGED <<shutdown, accepted, running, jobOf, cur, verdict, calls, outcome, status,
                       cancelReq, answer, inFlight, active, cancelled, canceller, snapshot, jobPc, task>>
    BY <1>6 DEF EnqueueTest, D!EnqueueCall, D!queueVars, D!drainVars
  <2>2. TypeOK'
    BY <2>1 DEF Own, TypeOK, SubmitPcs
  <2>3. SlotsBalance'
    BY <2>1, SlotsStay DEF Own, TypeOK, Registered, HoldsSlot
  <2>4. Numbered' /\ Queueing' /\ StatusTrue' /\ VerdictTrue'
    BY <2>1, JobsStay DEF Own, TypeOK, Numbered, Queueing, Early, IsTerminal, StatusTrue, VerdictTrue
  <2> QED
    BY <2>1, <2>2, <2>3, <2>4, TicketsStay, TaskOfJobStays DEF Own
<1>7. CASE EnqueuePush(s) /\ D!TryEnqueueAccepts
  <2>1. /\ pc[s] = "push"
        /\ pc' = [pc EXCEPT ![s] = "wait"]
        /\ jobOf' = Append(jobOf, cur[s])
        /\ accepted' = accepted + 1
        /\ UNCHANGED <<shutdown, running, cur, verdict, calls, outcome, status,
                       cancelReq, answer, inFlight, active, cancelled, canceller, snapshot, jobPc, task>>
    BY <1>7 DEF EnqueuePush, D!TryEnqueueNoDropLocked, D!Push, D!drainVars
  <2>2. /\ cur[s] \in Commands /\ cur[s] # 0 /\ cur[s] <= calls
        /\ \A r \in Submitters : r # s => cur[r] # cur[s]
    BY <2>1 DEF Own, TypeOK, Numbered
  <2>3. /\ jobOf' \in Seq(Commands \cup {0})
        /\ Len(jobOf') = Len(jobOf) + 1
        /\ \A c \in Commands : WasQueued(c)' <=> WasQueued(c) \/ c = cur[s]
        /\ \A k \in 1..Len(jobOf') : jobOf'[k] = IF k = Len(jobOf') THEN cur[s] ELSE jobOf[k]
        /\ \A t \in D!Threads : JobCommand(t)' = JobCommand(t)
    BY <2>1, <2>2, NewTicket DEF Own
  <2>4. TypeOK'
    BY <2>1, <2>3 DEF Own, TypeOK, SubmitPcs
  <2>5. SlotsBalance'
    BY <2>1, SlotsStay DEF Own, TypeOK, Registered, HoldsSlot
  <2>6. Numbered'
    <3>1. Len(jobOf) \in Nat /\ cur[s] \in 0..calls /\ \A k \in 1..Len(jobOf) : jobOf[k] \in 0..calls
      BY DEF Own, TypeOK, Numbered
    <3>2. \A k \in 1..Len(jobOf') : jobOf'[k] \in 0..calls
      BY <2>3, <3>1
    <3> QED
      BY <2>1, <3>2 DEF Own, TypeOK, Numbered
  <2>7. Ticketed'
    <3>1. \A t \in D!Threads : running[t] \in Nat /\ running[t] <= Len(jobOf)
      BY <2>1 DEF D!TypeOK, Own, Ticketed
    <3> QED
      BY <2>1, <2>3, <3>1 DEF Own, TypeOK, Ticketed
  <2>8. Queueing'
    <3>1. \A r \in Submitters : /\ r # s => pc'[r] = pc[r] /\ cur[r] # cur[s]
                                /\ pc'[s] = "wait" /\ cur[r] \in Commands \cup {0}
      BY <2>1, <2>2 DEF Own, TypeOK
    <3>2. ASSUME NEW r \in Submitters, pc'[r] \in Early
          PROVE  ~WasQueued(cur[r])'
      <4>1. r # s /\ pc[r] = pc'[r]
        BY <3>1, <3>2 DEF Early
      <4>2. PICK c \in Commands : c = cur[r] /\ c # cur[s]
        BY <3>1, <3>2, <4>1 DEF Own, Numbered, Early
      <4>3. ~WasQueued(c)
        BY <3>2, <4>1, <4>2 DEF Own, Queueing
      <4>4. ~WasQueued(c)'
        BY <2>3, <4>2, <4>3
      <4> QED
        BY <2>1, <4>2, <4>4 DEF WasQueued
    <3>3. \A c \in Commands : IsTerminal(c)' <=> IsTerminal(c)
      BY <2>1 DEF IsTerminal
    <3>4. \A r \in Submitters : /\ pc'[r] \in {"capacity", "register", "markQueued"} => pc[r] = pc'[r]
                                /\ pc'[r] \in {"erase", "endSubmit"} => pc[r] = pc'[r]
      BY <3>1
    <3> QED
      BY <2>1, <3>2, <3>4 DEF Own, Queueing, IsTerminal
  <2>9. TaskOfJob'
    BY <2>1, <2>3 DEF Own, TaskOfJob
  <2>10. StatusTrue' /\ VerdictTrue'
    BY <2>1, <2>2, <2>3 DEF Own, TypeOK, Numbered, StatusTrue, VerdictTrue
  <2> QED
    BY <2>4, <2>5, <2>6, <2>7, <2>8, <2>9, <2>10 DEF Own
<1>8. CASE EnqueuePush(s) /\ ~D!TryEnqueueAccepts
  <2>1. /\ pc[s] = "push"
        /\ pc' = [pc EXCEPT ![s] = "erase"]
        /\ verdict' = [verdict EXCEPT ![s] = "QUEUE_FULL"]
        /\ UNCHANGED <<shutdown, accepted, running, jobOf, cur, calls, outcome, status,
                       cancelReq, answer, inFlight, active, cancelled, canceller, snapshot, jobPc, task>>
    BY <1>8 DEF EnqueuePush, D!TryEnqueueNoDropLocked, D!drainVars
  <2>2. TypeOK'
    BY <2>1 DEF Own, TypeOK, SubmitPcs, Answers
  <2>3. SlotsBalance'
    BY <2>1, SlotsStay DEF Own, TypeOK, Registered, HoldsSlot
  <2>4. Numbered' /\ Queueing' /\ StatusTrue' /\ VerdictTrue'
    BY <2>1, JobsStay DEF Own, TypeOK, Numbered, Queueing, Early, IsTerminal, StatusTrue, VerdictTrue
  <2> QED
    BY <2>1, <2>2, <2>3, <2>4, TicketsStay, TaskOfJobStays DEF Own
<1>9. CASE WaitDone(s)
  <2>1. /\ pc[s] = "wait" /\ IsTerminal(cur[s])
        /\ pc' = [pc EXCEPT ![s] = "erase"]
        /\ verdict' = [verdict EXCEPT ![s] = SnapshotResult(cur[s])]
        /\ UNCHANGED <<shutdown, accepted, running, jobOf, cur, calls, outcome, status,
                       cancelReq, answer, inFlight, active, cancelled, canceller, snapshot, jobPc, task>>
    BY <1>9 DEF WaitDone
  <2>2. cur[s] \in Commands
    BY <2>1 DEF Own, TypeOK, Numbered
  <2>3. /\ SnapshotResult(cur[s]) \in Answers \ {"BAD_ARGUMENT", "QUEUE_FULL"}
        /\ SnapshotResult(cur[s]) = "OK" => task[cur[s]] = "ok"
        /\ SnapshotResult(cur[s]) = "TASK_ERROR" => task[cur[s]] = "failed"
    BY <2>1, <2>2 DEF Own, TypeOK, StatusTrue, SnapshotResult, IsTerminal, Terminal, Answers
  <2>4. TypeOK'
    BY <2>1, <2>3 DEF Own, TypeOK, SubmitPcs
  <2>5. SlotsBalance'
    BY <2>1, SlotsStay DEF Own, TypeOK, Registered, HoldsSlot
  <2>6. Numbered' /\ Queueing' /\ StatusTrue' /\ VerdictTrue'
    BY <2>1, <2>3, JobsStay DEF Own, TypeOK, Numbered, Queueing, Early, IsTerminal, StatusTrue, VerdictTrue
  <2> QED
    BY <2>1, <2>4, <2>5, <2>6, TicketsStay, TaskOfJobStays DEF Own
<1>10. CASE WaitTimeout(s) \/ TimeoutCancel(s)
  <2>1. /\ pc[s] \in {"wait", "timedOut"}
        /\ \E label \in {"timedOut", "timeoutMark"} : pc' = [pc EXCEPT ![s] = label]
        /\ cancelReq' = cancelReq \/ cancelReq' = [cancelReq EXCEPT ![cur[s]] = TRUE]
        /\ UNCHANGED <<shutdown, accepted, running, jobOf, cur, verdict, calls, outcome, status,
                       answer, inFlight, active, cancelled, canceller, snapshot, jobPc, task>>
    BY <1>10 DEF WaitTimeout, TimeoutCancel
  <2>2. TypeOK'
    BY <2>1 DEF Own, TypeOK, SubmitPcs
  <2>3. SlotsBalance'
    BY <2>1, SlotsStay DEF Own, TypeOK, Registered, HoldsSlot
  <2>4. Numbered' /\ Queueing' /\ StatusTrue' /\ VerdictTrue'
    BY <2>1, JobsStay DEF Own, TypeOK, Numbered, Queueing, Early, IsTerminal, StatusTrue, VerdictTrue
  <2> QED
    BY <2>1, <2>2, <2>3, <2>4, TicketsStay, TaskOfJobStays DEF Own
<1>11. CASE TimeoutMark(s)
  <2>1. PICK terminalStatus \in {"TimeoutEngineStarvation", "CancelledTimeout"}, result \in {"STARVATION", "TIMEOUT"} :
          /\ pc[s] = "timeoutMark"
          /\ pc' = [pc EXCEPT ![s] = "erase"]
          /\ MarkTerminal(cur[s], terminalStatus, result)
          /\ verdict' = [verdict EXCEPT ![s] = result]
          /\ UNCHANGED <<shutdown, accepted, running, jobOf, cur, calls, outcome, cancelReq,
                         inFlight, active, cancelled, canceller, snapshot, jobPc, task>>
    BY <1>11 DEF TimeoutMark
  <2>2. cur[s] \in Commands /\ cur[s] # 0 /\ cur[s] <= calls
    BY <2>1 DEF Own, TypeOK, Numbered
  <2>3. /\ status' \in [Commands -> Statuses] /\ answer' \in [Commands -> Answers]
        /\ status'[cur[s]] \in Terminal
        /\ \A d \in Commands : IsTerminal(d) \/ d # cur[s] => status'[d] = status[d] /\ answer'[d] = answer[d]
        /\ ~IsTerminal(cur[s]) => status'[cur[s]] = terminalStatus /\ answer'[cur[s]] = result
    BY <2>1, <2>2, MarkOnce DEF Own, Terminal, Answers
  <2>4. TypeOK'
    BY <2>1, <2>3 DEF Own, TypeOK, SubmitPcs, Answers
  <2>5. SlotsBalance'
    BY <2>1, SlotsStay DEF Own, TypeOK, Registered, HoldsSlot
  <2>6. Numbered'
    BY <2>1, <2>2, <2>3 DEF Own, TypeOK, Numbered
  <2>7. Queueing'
    <3>1. \A d \in Commands : IsTerminal(d) => IsTerminal(d)'
      BY <2>3 DEF IsTerminal
    <3>2. \A r \in Submitters : cur[r] \in Commands \/ pc[r] = "idle"
      BY DEF Own, TypeOK, Numbered
    <3>3. IsTerminal(cur[s])'
      BY <2>1, <2>3 DEF IsTerminal
    <3>4. status'[cur[s]] \notin {"Queued", "Running", "Pending"}
      BY <2>3 DEF Terminal
    <3> QED
      BY <2>1, <2>2, <2>3, <3>1, <3>2, <3>3, <3>4, JobsStay DEF Own, TypeOK, Queueing, Early
  <2>8. TaskOfJob'
    <3>1. \A t \in D!Threads : JobCommand(t)' = JobCommand(t)
      BY <2>1 DEF JobCommand
    <3> QED
      BY <2>1, <2>3, <3>1, JobsStay DEF Own, TypeOK, TaskOfJob, Terminal
  <2>9. StatusTrue'
    BY <2>1, <2>2, <2>3 DEF Own, StatusTrue
  <2>10. VerdictTrue'
    BY <2>1, JobsStay DEF Own, TypeOK, VerdictTrue
  <2> QED
    BY <2>1, <2>4, <2>5, <2>6, <2>7, <2>8, <2>9, <2>10, TicketsStay DEF Own
<1>12. CASE Erase(s)
  <2>1. /\ pc[s] = "erase"
        /\ active' = Without(active, cur[s])
        /\ pc' = [pc EXCEPT ![s] = "endSubmit"]
        /\ UNCHANGED <<shutdown, accepted, running, jobOf, cur, verdict, calls, outcome, status, cancelReq,
                       answer, inFlight, cancelled, canceller, snapshot, jobPc, task>>
    BY <1>12 DEF Erase
  <2>2. /\ active \in Seq(Commands) /\ IsInjective(active)
        /\ \A r \in Submitters : r # s => cur[r] # cur[s] \/ cur[r] = 0
        /\ cur[s] # 0
    BY <2>1 DEF Own, TypeOK, Numbered, SlotsBalance
  <2>3. PICK i \in 1..Len(active) : active[i] = cur[s]
    <3>1. cur[s] \in {active[i] : i \in 1..Len(active)}
      BY <2>1 DEF Own, SlotsBalance, Registered, HoldsSlot
    <3> QED
      BY <3>1
  <2>4. /\ active' \in Seq(Commands) /\ IsInjective(active')
        /\ {active'[j] : j \in 1..Len(active')} = {active[j] : j \in 1..Len(active)} \ {cur[s]}
    <3>1. active' = Without(active, active[i])
      BY <2>1, <2>3
    <3>2. /\ Without(active, active[i]) \in Seq(Commands)
          /\ IsInjective(Without(active, active[i]))
          /\ {Without(active, active[i])[j] : j \in 1..Len(Without(active, active[i]))}
               = {active[j] : j \in 1..Len(active)} \ {active[i]}
      BY <2>2, WithoutIsErase
    <3> HIDE DEF Without
    <3> QED
      BY <2>3, <3>1, <3>2
  <2>5. TypeOK'
    BY <2>1, <2>4 DEF Own, TypeOK, SubmitPcs
  <2>6. SlotsBalance'
    <3>1. \A r \in Submitters : /\ HoldsSlot(r)' <=> HoldsSlot(r)
                                /\ Registered(r)' <=> Registered(r) /\ r # s
      BY <2>1 DEF Own, TypeOK, Registered, HoldsSlot
    <3>2. {r \in Submitters : HoldsSlot(r)'} = {r \in Submitters : HoldsSlot(r)}
      BY <3>1
    <3>3. \A r \in Submitters : Registered(r) => cur[r] # 0
      BY DEF Own, Numbered, Registered, HoldsSlot
    <3>4. {cur'[r] : r \in {x \in Submitters : Registered(x)'}}
            = {cur[r] : r \in {x \in Submitters : Registered(x)}} \ {cur[s]}
      BY <2>1, <2>2, <3>1, <3>3
    <3> QED
      BY <2>1, <2>4, <3>2, <3>4 DEF Own, SlotsBalance
  <2>7. Numbered' /\ Queueing' /\ StatusTrue' /\ VerdictTrue'
    BY <2>1, JobsStay DEF Own, TypeOK, Numbered, Queueing, Early, IsTerminal, StatusTrue, VerdictTrue
  <2> QED
    BY <2>1, <2>5, <2>6, <2>7, TicketsStay, TaskOfJobStays DEF Own
<1>13. CASE EndSubmit(s)
  <2>1. /\ pc[s] = "endSubmit"
        /\ inFlight' = IF inFlight > 0 THEN inFlight - 1 ELSE 0
        /\ pc' = [pc EXCEPT ![s] = "idle"]
        /\ outcome' = [outcome EXCEPT ![cur[s]] = verdict[s]]
        /\ cur' = [cur EXCEPT ![s] = 0]
        /\ verdict' = [verdict EXCEPT ![s] = "OK"]
        /\ UNCHANGED <<shutdown, accepted, running, jobOf, calls, cancelReq, active, cancelled,
                       canceller, snapshot, jobPc, task>>
    BY <1>13 DEF EndSubmit, GiveBackSlot
  <2>2. /\ cur[s] \in Commands /\ cur[s] # 0 /\ cur[s] <= calls
        /\ \A r \in Submitters : r # s => cur[r] # cur[s]
    BY <2>1 DEF Own, TypeOK, Numbered
  <2>3. /\ status' \in [Commands -> Statuses] /\ answer' \in [Commands -> Answers]
        /\ status'[cur[s]] \in Terminal
        /\ \A d \in Commands : IsTerminal(d) \/ d # cur[s] => status'[d] = status[d] /\ answer'[d] = answer[d]
        /\ ~IsTerminal(cur[s]) => status'[cur[s]] = "CancelledQueueFull"
    <3>1. CASE verdict[s] = "QUEUE_FULL"
      BY <1>13, <2>2, <3>1, MarkOnce DEF EndSubmit, Own, Terminal, Answers
    <3>2. CASE verdict[s] # "QUEUE_FULL"
      <4>1. UNCHANGED <<status, answer>> /\ IsTerminal(cur[s])
        BY <1>13, <2>1, <3>2 DEF EndSubmit, Own, Queueing
      <4> QED
        BY <2>2, <4>1 DEF Own, TypeOK, IsTerminal
    <3> QED
      BY <3>1, <3>2
  <2>4. verdict[s] \in Answers \ {"BAD_ARGUMENT"}
    BY <2>1 DEF Own, TypeOK, VerdictTrue
  <2>5. TypeOK'
    <3>1. inFlight' \in Nat
      BY <2>1 DEF Own, TypeOK
    <3> QED
      BY <2>1, <2>3, <2>4, <3>1 DEF Own, TypeOK, SubmitPcs, Answers
  <2>6. SlotsBalance'
    <3> DEFINE Holders == {r \in Submitters : HoldsSlot(r)}
    <3>1. Holders' = Holders \ {s} /\ s \in Holders
      BY <2>1 DEF Own, TypeOK, HoldsSlot
    <3>2. IsFiniteSet(Holders)
      BY ChannelAssumption, FS_Subset
    <3>3. Cardinality(Holders') = Cardinality(Holders) - 1 /\ Cardinality(Holders) \in Nat \ {0}
      BY <3>1, <3>2, FS_RemoveElement, FS_EmptySet, FS_CardinalityType
    <3>4. inFlight' = Cardinality(Holders') /\ inFlight' <= Capacity
      BY <2>1, <3>3, ChannelAssumption DEF Own, TypeOK, SlotsBalance
    <3>5. \A r \in Submitters : Registered(r)' <=> Registered(r)
      BY <2>1 DEF Own, TypeOK, Registered, HoldsSlot
    <3>6. \A r \in Submitters : Registered(r) => cur'[r] = cur[r]
      BY <2>1 DEF Own, TypeOK, Registered, HoldsSlot
    <3>7. {cur'[r] : r \in {x \in Submitters : Registered(x)'}} = {cur[r] : r \in {x \in Submitters : Registered(x)}}
      BY <3>5, <3>6
    <3> QED
      BY <2>1, <3>4, <3>7 DEF Own, SlotsBalance
  <2>7. Numbered'
    BY <2>1, <2>2, <2>3, <2>4 DEF Own, TypeOK, Numbered, Answers
  <2>8. Queueing'
    <3>1. \A d \in Commands : IsTerminal(d) => IsTerminal(d)'
      BY <2>3 DEF IsTerminal
    <3>2. \A r \in Submitters : cur[r] \in Commands \/ pc[r] = "idle"
      BY DEF Own, TypeOK, Numbered
    <3>4. \A r \in Submitters : /\ pc'[r] = IF r = s THEN "idle" ELSE pc[r]
                                /\ r # s => cur'[r] = cur[r] /\ cur[r] # cur[s] /\ verdict'[r] = verdict[r]
      BY <2>1, <2>2 DEF Own, TypeOK
    <3>5. \A r \in Submitters : pc'[r] # "idle" =>
            /\ pc'[r] = pc[r] /\ cur'[r] = cur[r] /\ verdict'[r] = verdict[r]
            /\ cur[r] \in Commands /\ status'[cur[r]] = status[cur[r]]
      BY <2>3, <3>2, <3>4
    <3>6. ASSUME NEW r \in Submitters, pc'[r] \in Early
          PROVE  ~WasQueued(cur[r])'
      <4>1. pc[r] \in Early /\ cur'[r] = cur[r]
        BY <3>5, <3>6 DEF Early
      <4>2. ~WasQueued(cur[r])
        BY <4>1 DEF Own, Queueing
      <4> QED
        BY <2>1, <4>1, <4>2 DEF WasQueued
    <3>7. \A r \in Submitters :
            pc'[r] \in {"capacity", "register", "markQueued"} => status'[cur'[r]] \notin {"Queued", "Running"}
      BY <3>5 DEF Own, Queueing
    <3>8. \A r \in Submitters :
            pc'[r] \in {"erase", "endSubmit"} => verdict'[r] = "QUEUE_FULL" \/ status'[cur'[r]] \in Terminal
      BY <3>5 DEF Own, Queueing, IsTerminal
    <3>9. ASSUME NEW c \in Commands, outcome'[c] \notin {"new", "open"}
          PROVE  status'[c] \in Terminal \/ status'[c] = "Pending"
      <4>1. CASE c = cur[s]
        BY <2>3, <4>1
      <4>2. CASE c # cur[s]
        <5>1. outcome'[c] = outcome[c] /\ status'[c] = status[c]
          BY <2>1, <2>3, <4>2 DEF Own, TypeOK
        <5> QED
          BY <3>9, <5>1 DEF Own, Queueing, IsTerminal
      <4> QED
        BY <4>1, <4>2
    <3> QED
      BY <3>6, <3>7, <3>8, <3>9 DEF Queueing, IsTerminal
  <2>9. TaskOfJob'
    <3>1. \A t \in D!Threads : JobCommand(t)' = JobCommand(t)
      BY <2>1 DEF JobCommand
    <3> QED
      BY <2>1, <2>3, <3>1, JobsStay DEF Own, TypeOK, TaskOfJob, Terminal
  <2>10. StatusTrue'
    <3>1. 0 \notin Commands
      BY DEF Commands
    <3> QED
      BY <2>1, <2>2, <2>3, <3>1 DEF Own, TypeOK, StatusTrue
  <2>11. VerdictTrue'
    BY <2>1, JobsStay DEF Own, TypeOK, VerdictTrue
  <2> QED
    BY <2>1, <2>5, <2>6, <2>7, <2>8, <2>9, <2>10, <2>11, TicketsStay DEF Own
<1> QED
  BY <1>1, <1>2, <1>3, <1>4, <1>5, <1>6, <1>7, <1>8, <1>9, <1>10, <1>11, <1>12, <1>13 DEF SubmitStep

-----------------------------------------------------------------------------
\* The job at work is the only one, and its command was submitted.
LEMMA OneJob ==
  ASSUME IInv, NEW t \in GameThreads, JobCommand(t) # NoCommand
  PROVE  /\ JobCommand(t) \in Commands /\ JobCommand(t) <= calls
         /\ WasQueued(JobCommand(t))
         /\ \A r \in D!Threads : JobCommand(r) # NoCommand => r = t
<1>1. t \in D!Threads /\ running[t] # D!NoJob /\ running[t] \in 1..Len(jobOf) /\ JobCommand(t) = jobOf[running[t]]
  BY DispatcherFacts DEF IInv, Own, Ticketed, JobCommand, D!Threads, D!TypeOK, D!NoJob
<1>2. JobCommand(t) \in Commands /\ JobCommand(t) <= calls
  BY <1>1 DEF IInv, Own, TypeOK, Numbered, Commands, NoCommand
<1>3. \A r \in D!Threads : JobCommand(r) # NoCommand => r = t
  BY <1>1, DispatcherFacts DEF IInv, JobCommand
<1> QED
  BY <1>1, <1>2, <1>3 DEF WasQueued

\* Marking a command without a step of its submitter: the job, or a stop.
LEMMA MarkKeeps ==
  ASSUME Own, NEW c \in Commands, c <= calls,
         NEW terminalStatus \in Terminal \ {"CancelledQueueFull"}, NEW result \in Answers,
         MarkTerminal(c, terminalStatus, result),
         \A d \in Commands : d # c \/ task[d] \in {"ok", "failed"} => task'[d] = task[d],
         terminalStatus = "Succeeded" => task'[c] = "ok",
         IF terminalStatus = "Failed" THEN result = "TASK_ERROR" /\ task'[c] = "failed"
                                      ELSE terminalStatus = "Succeeded" \/ result = "CANCELLED",
         UNCHANGED <<shutdown, accepted, running, jobOf, pc, cur, verdict, calls, outcome,
                     inFlight, active>>,
         \A i \in 1..Len(snapshot') : snapshot'[i] \in 1..calls
  PROVE  /\ status' \in [Commands -> Statuses] /\ answer' \in [Commands -> Answers]
         /\ \A d \in Commands : status'[d] = "Queued" => status[d] = "Queued" /\ d # c
         /\ SlotsBalance' /\ Numbered' /\ Ticketed' /\ Queueing' /\ StatusTrue' /\ VerdictTrue'
<1>1. /\ status' \in [Commands -> Statuses] /\ answer' \in [Commands -> Answers]
      /\ status'[c] \in Terminal
      /\ \A d \in Commands : IsTerminal(d) \/ d # c => status'[d] = status[d] /\ answer'[d] = answer[d]
      /\ ~IsTerminal(c) => status'[c] = terminalStatus /\ answer'[c] = result
  BY MarkOnce DEF Own
<1>2. \A d \in Commands : status'[d] = "Queued" => status[d] = "Queued" /\ d # c
  BY <1>1 DEF Terminal
<1>3. SlotsBalance'
  BY SlotsStay DEF Own, Registered, HoldsSlot
<1>4. Numbered'
  <2>1. \A d \in Commands : d > calls => status'[d] = "Pending"
    BY <1>1 DEF Own, TypeOK, Numbered, Commands
  <2> QED
    BY <2>1 DEF Own, Numbered
<1>5. Queueing'
  <2>1. \A d \in Commands : IsTerminal(d) \/ d = c => IsTerminal(d)'
    BY <1>1 DEF IsTerminal
  <2>2. \A r \in Submitters : cur[r] \in Commands \/ pc[r] = "idle"
    BY DEF Own, TypeOK, Numbered
  <2>3. status'[c] \notin {"Queued", "Running"}
    BY <1>1 DEF Terminal
  <2> QED
    BY <1>1, <2>1, <2>2, <2>3, JobsStay DEF Own, Queueing, Early
<1>6. StatusTrue'
  <2> SUFFICES ASSUME NEW d \in Commands
               PROVE  /\ status'[d] = "Succeeded" => task'[d] = "ok"
                      /\ status'[d] = "Failed" => task'[d] = "failed" /\ answer'[d] = "TASK_ERROR"
                      /\ status'[d] = "CancelledQueueFull" => \A s \in Submitters : cur'[s] # d
                      /\ status'[d] \in {"CancelledTimeout", "CancelledShutdown", "TimeoutEngineStarvation"} =>
                           answer'[d] \in {"TIMEOUT", "CANCELLED", "STARVATION"}
    BY DEF StatusTrue
  <2>1. CASE IsTerminal(d) \/ d # c
    BY <1>1, <2>1 DEF Own, StatusTrue
  <2>2. CASE ~IsTerminal(d) /\ d = c
    BY <1>1, <2>2
  <2> QED
    BY <2>1, <2>2
<1>7. VerdictTrue'
  <2>1. \A r \in Submitters : cur[r] \in Commands \/ pc[r] = "idle"
    BY DEF Own, TypeOK, Numbered
  <2> QED
    BY <2>1, JobsStay DEF Own, VerdictTrue
<1> QED
  BY <1>1, <1>2, <1>3, <1>4, <1>5, <1>6, <1>7, TicketsStay DEF Own

LEMMA MainKeeps ==
  ASSUME IInv, D!TypeOK', NEW t \in GameThreads, Enter(t) \/ MainStep(t)
  PROVE  Own'
<1> USE DEF submitVars, commandVars, channelVars, cancelVars, mainVars, dispatcherVars
<1>1. CASE Enter(t)
  <2>1. UNCHANGED <<shutdown, accepted, running, jobOf, pc, cur, verdict, calls, outcome, status, cancelReq,
                    answer, inFlight, active, cancelled, canceller, snapshot, jobPc, task>>
    BY <1>1 DEF Enter, D!DetourEnter, D!queueVars
  <2>2. TypeOK'
    BY <2>1 DEF IInv, Own, TypeOK
  <2>3. SlotsBalance'
    BY <2>1, SlotsStay DEF IInv, Own, Registered, HoldsSlot
  <2>4. Numbered' /\ Queueing' /\ StatusTrue' /\ VerdictTrue'
    BY <2>1, JobsStay DEF IInv, Own, Numbered, Queueing, Early, IsTerminal, StatusTrue, VerdictTrue
  <2> QED
    BY <2>1, <2>2, <2>3, <2>4, TicketsStay, TaskOfJobStays DEF IInv, Own
<1>2. CASE Pop(t)
  <2>1. /\ draining[t] /\ running[t] = D!NoJob /\ queue # <<>>
        /\ running' = [running EXCEPT ![t] = Head(queue)]
        /\ UNCHANGED <<shutdown, accepted, jobOf, pc, cur, verdict, calls, outcome, status, cancelReq,
                       answer, inFlight, active, cancelled, canceller, snapshot, jobPc, task>>
    BY <1>2 DEF Pop, D!DrainPop
  <2>2. TypeOK'
    BY <2>1 DEF IInv, Own, TypeOK
  <2>3. SlotsBalance'
    BY <2>1, SlotsStay DEF IInv, Own, Registered, HoldsSlot
  <2>4. Numbered' /\ Queueing' /\ StatusTrue' /\ VerdictTrue'
    BY <2>1, JobsStay DEF IInv, Own, Numbered, Queueing, Early, IsTerminal, StatusTrue, VerdictTrue
  <2>5. Ticketed'
    <3>1. queue \in Seq(Nat) /\ accepted \in Nat /\ running \in [D!Threads -> Nat]
      BY DispatcherFacts DEF IInv, D!TypeOK
    <3>2. Head(queue) = accepted - Len(queue) + 1
      BY <2>1, <3>1, DispatcherFacts DEF IInv, Own, Ticketed
    <3>3. Head(queue) <= accepted
      BY <2>1, <3>1, <3>2
    <3> QED
      BY <2>1, <3>1, <3>3 DEF IInv, Own, Ticketed
  <2>6. TaskOfJob'
    <3>1. jobPc = "none"
      <4>1. \A r \in D!Threads : JobCommand(r) = NoCommand
        BY <2>1, DispatcherFacts DEF IInv, JobCommand, D!Threads
      <4> QED
        BY <4>1 DEF IInv, Own, TaskOfJob
    <3> QED
      BY <2>1, <3>1, JobsStay DEF IInv, Own, TaskOfJob, TaskAt
  <2> QED
    BY <2>2, <2>3, <2>4, <2>5, <2>6 DEF Own
<1>3. CASE Leave(t)
  <2>1. UNCHANGED <<shutdown, accepted, jobOf, pc, cur, verdict, calls, outcome, status, cancelReq,
                    answer, inFlight, active, cancelled, canceller, snapshot, task>>
    BY <1>3 DEF Leave, D!JobReturn, D!DrainExit, D!queueVars
  <2>2. \/ running' = running /\ jobPc' = jobPc
        \/ running' = [running EXCEPT ![t] = D!NoJob] /\ jobPc' = "none"
    BY <1>3 DEF Leave, D!JobReturn, D!DrainExit, D!queueVars
  <2>3. TypeOK'
    BY <2>1, <2>2 DEF IInv, Own, TypeOK
  <2>4. SlotsBalance'
    BY <2>1, SlotsStay DEF IInv, Own, Registered, HoldsSlot
  <2>5. Numbered' /\ Queueing' /\ StatusTrue' /\ VerdictTrue'
    BY <2>1, JobsStay DEF IInv, Own, Numbered, Queueing, Early, IsTerminal, StatusTrue, VerdictTrue
  <2>6. CASE running' = running /\ jobPc' = jobPc
    BY <2>1, <2>3, <2>4, <2>5, <2>6, TicketsStay, TaskOfJobStays DEF IInv, Own
  <2>7. CASE running' = [running EXCEPT ![t] = D!NoJob] /\ jobPc' = "none"
    <3>1. Ticketed'
      BY <2>1, <2>7, DispatcherFacts DEF IInv, Own, Ticketed, D!TypeOK, D!NoJob, TypeOK
    <3>2. TaskOfJob'
      BY <2>1, <2>7, JobsStay DEF IInv, Own, TaskOfJob, TaskAt
    <3> QED
      BY <2>3, <2>4, <2>5, <3>1, <3>2 DEF Own
  <2> QED
    BY <2>2, <2>6, <2>7
<1>4. CASE JobClaim(t) /\ Referenced(JobCommand(t)) /\ MayRun(JobCommand(t))
  <2> DEFINE c == JobCommand(t)
  <2>1. /\ c # NoCommand /\ jobPc = "none" /\ status[c] = "Queued"
        /\ status' = [status EXCEPT ![c] = "Running"]
        /\ task' = [task EXCEPT ![c] = "claimed"]
        /\ jobPc' = "check"
        /\ UNCHANGED <<shutdown, accepted, running, jobOf, pc, cur, verdict, calls, outcome, cancelReq,
                       answer, inFlight, active, cancelled, canceller, snapshot>>
    BY <1>4 DEF JobClaim, MayRun
  <2>2. /\ c \in Commands /\ c <= calls /\ WasQueued(c)
        /\ \A r \in D!Threads : JobCommand(r) # NoCommand => r = t
    BY <2>1, OneJob
  <2>3. t \in D!Threads /\ \A r \in D!Threads : JobCommand(r)' = JobCommand(r)
    BY <2>1 DEF D!Threads, JobCommand
  <2> HIDE DEF c
  <2>4. TypeOK'
    BY <2>1, <2>2 DEF IInv, Own, TypeOK, Statuses
  <2>5. SlotsBalance'
    BY <2>1, SlotsStay DEF IInv, Own, Registered, HoldsSlot
  <2>6. Numbered'
    BY <2>1, <2>2 DEF IInv, Own, TypeOK, Numbered
  <2>7. ~IsTerminal(c) /\ task[c] = "none"
    BY <2>1, <2>2 DEF IInv, Own, TaskOfJob, IsTerminal, Terminal
  <2>8. \A d \in Commands : d # c => IsTerminal(d)' = IsTerminal(d)
    BY <2>1, <2>2 DEF IInv, Own, TypeOK, IsTerminal
  <2>9. Queueing'
    <3>1. \A r \in Submitters : cur[r] \in Commands \/ pc[r] = "idle"
      BY DEF IInv, Own, TypeOK, Numbered
    <3>2. outcome[c] \in {"new", "open"} /\ \A d \in Commands : status'[d] = IF d = c THEN "Running" ELSE status[d]
      BY <2>1, <2>2, <2>7 DEF IInv, Own, TypeOK, Queueing
    <3> QED
      BY <2>1, <2>2, <2>7, <2>8, <3>1, <3>2, JobsStay DEF IInv, Own, Queueing, Early
  <2>10. TaskOfJob'
    BY <2>1, <2>2, <2>3, JobsStay DEF IInv, Own, TypeOK, TaskOfJob, TaskAt, c
  <2>11. StatusTrue' /\ VerdictTrue'
    BY <2>1, <2>2, <2>7, JobsStay DEF IInv, Own, TypeOK, Numbered, StatusTrue, VerdictTrue
  <2> QED
    BY <2>1, <2>4, <2>5, <2>6, <2>9, <2>10, <2>11, TicketsStay DEF IInv, Own
<1>5. CASE \/ JobClaim(t) /\ ~Referenced(JobCommand(t))
           \/ JobCheck(t) /\ ~cancelReq[JobCommand(t)]
  <2>1. /\ JobCommand(t) # NoCommand
        /\ \/ jobPc = "none" /\ jobPc' = "done"
           \/ jobPc = "check" /\ jobPc' = "invoke"
        /\ UNCHANGED <<shutdown, accepted, running, jobOf, pc, cur, verdict, calls, outcome, status, cancelReq,
                       answer, inFlight, active, cancelled, canceller, snapshot, task>>
    BY <1>5 DEF JobClaim, JobCheck
  <2>2. t \in D!Threads /\ \A r \in D!Threads : JobCommand(r)' = JobCommand(r)
    BY <2>1 DEF D!Threads, JobCommand
  <2>3. TypeOK'
    BY <2>1 DEF IInv, Own, TypeOK
  <2>4. SlotsBalance'
    BY <2>1, SlotsStay DEF IInv, Own, Registered, HoldsSlot
  <2>5. Numbered' /\ Queueing' /\ StatusTrue' /\ VerdictTrue'
    BY <2>1, JobsStay DEF IInv, Own, Numbered, Queueing, Early, IsTerminal, StatusTrue, VerdictTrue
  <2>6. TaskOfJob'
    BY <2>1, <2>2, JobsStay DEF IInv, Own, TaskOfJob, TaskAt
  <2> QED
    BY <2>1, <2>3, <2>4, <2>5, <2>6, TicketsStay DEF IInv, Own
<1>6. CASE \/ JobClaim(t) /\ Referenced(JobCommand(t)) /\ ~MayRun(JobCommand(t))
           \/ JobCheck(t) /\ cancelReq[JobCommand(t)]
           \/ JobMark(t)
  <2> DEFINE c == JobCommand(t)
  <2>1. /\ c # NoCommand
        /\ jobPc' = "done"
        /\ UNCHANGED <<shutdown, accepted, running, jobOf, pc, cur, verdict, calls, outcome, cancelReq,
                       inFlight, active, cancelled, canceller, snapshot>>
    BY <1>6 DEF JobClaim, JobCheck, JobMark
  <2>2. /\ c \in Commands /\ c <= calls /\ WasQueued(c)
        /\ \A r \in D!Threads : JobCommand(r) # NoCommand => r = t
    BY <2>1, OneJob
  <2>3. t \in D!Threads /\ \A r \in D!Threads : JobCommand(r)' = JobCommand(r)
    BY <2>1 DEF D!Threads, JobCommand
  <2>4. \/ task' = task
        \/ task[c] = "claimed" /\ task' = [task EXCEPT ![c] = "abandoned"]
    BY <1>6, <2>1, <2>3 DEF JobClaim, JobCheck, JobMark, IInv, Own, TaskOfJob, TaskAt
  <2>5. PICK terminalStatus \in {"CancelledShutdown", "CancelledTimeout", "Succeeded", "Failed"},
             result \in {"CANCELLED", "OK", "TASK_ERROR"} :
          /\ MarkTerminal(c, terminalStatus, result)
          /\ terminalStatus = "Succeeded" => task'[c] = "ok"
          /\ IF terminalStatus = "Failed" THEN result = "TASK_ERROR" /\ task'[c] = "failed"
                                          ELSE terminalStatus = "Succeeded" \/ result = "CANCELLED"
    <3>1. CASE JobMark(t)
      <4>1. task[c] \in {"ok", "failed"} /\ task' = task
        BY <2>1, <2>3, <3>1 DEF JobMark, IInv, Own, TaskOfJob, TaskAt
      <4>2. CASE task[c] = "ok"
        BY <3>1, <4>1, <4>2 DEF JobMark
      <4>3. CASE task[c] = "failed"
        BY <3>1, <4>1, <4>3 DEF JobMark
      <4> QED
        BY <4>1, <4>2, <4>3
    <3>2. CASE JobClaim(t) /\ Referenced(c) /\ ~MayRun(c)
      BY <3>2 DEF JobClaim
    <3>3. CASE JobCheck(t) /\ cancelReq[c]
      BY <3>3 DEF JobCheck
    <3> QED
      BY <1>6, <3>1, <3>2, <3>3
  <2> HIDE DEF c
  <2>6. /\ status' \in [Commands -> Statuses] /\ answer' \in [Commands -> Answers]
        /\ \A d \in Commands : status'[d] = "Queued" => status[d] = "Queued" /\ d # c
        /\ SlotsBalance' /\ Numbered' /\ Ticketed' /\ Queueing' /\ StatusTrue' /\ VerdictTrue'
    <3>1. terminalStatus \in Terminal \ {"CancelledQueueFull"} /\ result \in Answers
      BY DEF Terminal, Answers
    <3>2. \A d \in Commands : d # c \/ task[d] \in {"ok", "failed"} => task'[d] = task[d]
      BY <2>2, <2>4 DEF IInv, Own, TypeOK
    <3>3. \A i \in 1..Len(snapshot') : snapshot'[i] \in 1..calls
      BY <2>1 DEF IInv, Own, Numbered
    <3> QED
      BY <2>1, <2>2, <2>5, <3>1, <3>2, <3>3, MarkKeeps DEF IInv
  <2>7. TypeOK'
    BY <2>1, <2>2, <2>4, <2>6 DEF IInv, Own, TypeOK
  <2>8. TaskOfJob'
    BY <2>1, <2>2, <2>3, <2>4, <2>6, JobsStay DEF IInv, Own, TypeOK, TaskOfJob, TaskAt, c
  <2> QED
    BY <2>6, <2>7, <2>8 DEF Own
<1>7. CASE TaskBegin(t) \/ TaskEnd(t)
  <2> DEFINE c == JobCommand(t)
  <2>1. /\ c # NoCommand
        /\ UNCHANGED <<shutdown, accepted, running, jobOf, pc, cur, verdict, calls, outcome, status, cancelReq,
                       answer, inFlight, active, cancelled, canceller, snapshot>>
    BY <1>7 DEF TaskBegin, TaskEnd
  <2>2. /\ c \in Commands /\ WasQueued(c)
        /\ \A r \in D!Threads : JobCommand(r) # NoCommand => r = t
    BY <2>1, OneJob
  <2>3. t \in D!Threads /\ \A r \in D!Threads : JobCommand(r)' = JobCommand(r)
    BY <2>1 DEF D!Threads, JobCommand
  <2>4. \/ /\ task[c] = "claimed" /\ jobPc' = "task" /\ task' = [task EXCEPT ![c] = "running"]
        \/ /\ task[c] = "running" /\ jobPc' = "mark"
           /\ \E r \in {"ok", "failed"} : task' = [task EXCEPT ![c] = r]
    BY <1>7, <2>1, <2>3 DEF TaskBegin, TaskEnd, IInv, Own, TaskOfJob, TaskAt
  <2> HIDE DEF c
  <2>5. TypeOK'
    BY <2>1, <2>2, <2>4 DEF IInv, Own, TypeOK
  <2>6. SlotsBalance'
    BY <2>1, SlotsStay DEF IInv, Own, Registered, HoldsSlot
  <2>7. Numbered' /\ Queueing'
    BY <2>1, JobsStay DEF IInv, Own, Numbered, Queueing, Early, IsTerminal
  <2>8. TaskOfJob'
    BY <2>1, <2>2, <2>3, <2>4, JobsStay DEF IInv, Own, TypeOK, TaskOfJob, TaskAt, c
  <2>9. StatusTrue' /\ VerdictTrue'
    <3>1. \A d \in Commands : task'[d] = task[d] \/ task[d] \in {"claimed", "running"}
      BY <2>2, <2>4 DEF IInv, Own, TypeOK
    <3>2. \A r \in Submitters : cur[r] \in Commands \/ pc[r] = "idle"
      BY DEF IInv, Own, TypeOK, Numbered
    <3>3. StatusTrue'
      BY <2>1, <3>1 DEF IInv, Own, StatusTrue
    <3>4. VerdictTrue'
      BY <2>1, <3>1, <3>2, JobsStay DEF IInv, Own, VerdictTrue
    <3> QED
      BY <3>3, <3>4
  <2> QED
    BY <2>1, <2>5, <2>6, <2>7, <2>8, <2>9, TicketsStay DEF IInv, Own
<1>8. JobClaim(t) => \/ JobClaim(t) /\ Referenced(JobCommand(t)) /\ MayRun(JobCommand(t))
                     \/ JobClaim(t) /\ Referenced(JobCommand(t)) /\ ~MayRun(JobCommand(t))
                     \/ JobClaim(t) /\ ~Referenced(JobCommand(t))
  OBVIOUS
<1>9. JobCheck(t) => \/ JobCheck(t) /\ cancelReq[JobCommand(t)]
                     \/ JobCheck(t) /\ ~cancelReq[JobCommand(t)]
  OBVIOUS
<1> QED
  BY <1>1, <1>2, <1>3, <1>4, <1>5, <1>6, <1>7, <1>8, <1>9 DEF MainStep

-----------------------------------------------------------------------------
\* A stop, an invoke job or a relaunch.
LEMMA GuiKeeps ==
  ASSUME IInv, D!TypeOK',
         \/ GuiEnqueueTest \/ GuiEnqueue \/ \E s \in Submitters : ScriptStop(s)
         \/ StopScript \/ TakeSnapshot \/ VisitCommand \/ MarkCancelled \/ CancelDone \/ Relaunch
  PROVE  Own'
<1> USE DEF submitVars, commandVars, channelVars, cancelVars, mainVars, dispatcherVars
<1>1. CASE \/ GuiEnqueueTest \/ \E s \in Submitters : ScriptStop(s)
           \/ StopScript \/ TakeSnapshot \/ VisitCommand \/ CancelDone \/ Relaunch
  <2>1. /\ UNCHANGED <<shutdown, accepted, running, jobOf, pc, cur, verdict, calls, outcome, status, answer,
                       inFlight, active, jobPc, task>>
        /\ cancelled' \in {cancelled, TRUE, FALSE}
    BY <1>1 DEF GuiEnqueueTest, D!EnqueueCall, D!queueVars, D!drainVars, ScriptStop, StopScript,
                TakeSnapshot, VisitCommand, CancelDone, Relaunch
  <2>2. /\ snapshot \in Seq(Commands) /\ active \in Seq(Commands)
        /\ \A i \in 1..Len(snapshot) : snapshot[i] \in 1..calls
        /\ \A i \in 1..Len(active) : active[i] \in 1..calls
    <3>1. \A i \in 1..Len(active) : \E s \in Submitters : cur[s] = active[i] /\ Registered(s)
      BY DEF IInv, Own, SlotsBalance
    <3>2. \A s \in Submitters : Registered(s) => cur[s] \in 1..calls
      BY DEF IInv, Own, TypeOK, Numbered, Registered, HoldsSlot, NoCommand
    <3> QED
      BY <3>1, <3>2 DEF IInv, Own, TypeOK, Numbered
  <2>3. /\ snapshot' \in Seq(Commands)
        /\ \A i \in 1..Len(snapshot') : snapshot'[i] \in 1..calls
        /\ canceller' \in {"idle", "snapshot", "visit", "mark"}
        /\ canceller' = "mark" => snapshot' # <<>>
        /\ cancelReq' \in [Commands -> BOOLEAN]
    <3>1. CASE VisitCommand
      <4>1. snapshot # <<>> /\ snapshot' \in {snapshot, Tail(snapshot)}
        BY <3>1 DEF VisitCommand
      <4>2. /\ Tail(snapshot) \in Seq(Commands) /\ Len(Tail(snapshot)) = Len(snapshot) - 1
            /\ \A i \in 1..Len(Tail(snapshot)) : Tail(snapshot)[i] = snapshot[i + 1]
        BY <2>2, <4>1
      <4>3. Len(snapshot) \in Nat /\ \A i \in 1..Len(Tail(snapshot)) : Tail(snapshot)[i] \in 1..calls
        BY <2>2, <4>2
      <4>4. /\ canceller' \in {"idle", "snapshot", "visit", "mark"}
            /\ canceller' = "mark" => snapshot' # <<>>
            /\ cancelReq' \in [Commands -> BOOLEAN]
        BY <3>1 DEF VisitCommand, IInv, Own, TypeOK
      <4>5. \A i \in 1..Len(snapshot') : snapshot'[i] \in 1..calls
        <5>1. CASE snapshot' = snapshot
          BY <2>2, <5>1
        <5>2. CASE snapshot' = Tail(snapshot)
          BY <4>3, <5>2
        <5> QED
          BY <4>1, <5>1, <5>2
      <4>6. snapshot' \in Seq(Commands)
        BY <2>2, <4>1, <4>2
      <4> QED
        BY <4>4, <4>5, <4>6
    <3>2. CASE TakeSnapshot
      BY <2>2, <3>2 DEF TakeSnapshot, IInv, Own, TypeOK
    <3>3. CASE GuiEnqueueTest \/ (\E s \in Submitters : ScriptStop(s)) \/ StopScript \/ CancelDone \/ Relaunch
      <4>1. /\ UNCHANGED <<snapshot, cancelReq>>
            /\ canceller' = canceller \/ canceller' \in {"idle", "snapshot"}
        BY <3>3 DEF GuiEnqueueTest, ScriptStop, StopScript, CancelDone, Relaunch
      <4> QED
        BY <2>2, <4>1 DEF IInv, Own, TypeOK, TaskOfJob
    <3> QED
      BY <1>1, <3>1, <3>2, <3>3
  <2>4. TypeOK'
    BY <2>1, <2>3 DEF IInv, Own, TypeOK
  <2>5. SlotsBalance'
    BY <2>1, SlotsStay DEF IInv, Own, Registered, HoldsSlot
  <2>6. Numbered' /\ Queueing' /\ StatusTrue' /\ VerdictTrue'
    BY <2>1, <2>3, JobsStay DEF IInv, Own, Numbered, Queueing, Early, IsTerminal, StatusTrue, VerdictTrue
  <2>7. TaskOfJob'
    <3>1. \A t \in D!Threads : JobCommand(t)' = JobCommand(t)
      BY <2>1 DEF JobCommand
    <3> QED
      BY <2>1, <2>3, <3>1, JobsStay DEF IInv, Own, TaskOfJob
  <2> QED
    BY <2>1, <2>4, <2>5, <2>6, <2>7, TicketsStay DEF IInv, Own
<1>2. CASE MarkCancelled
  <2> DEFINE c == Head(snapshot)
  <2>1. /\ canceller' = "visit" /\ snapshot' = Tail(snapshot)
        /\ MarkTerminal(c, "CancelledShutdown", "CANCELLED")
        /\ UNCHANGED <<shutdown, accepted, running, jobOf, pc, cur, verdict, calls, outcome, cancelReq,
                       inFlight, active, cancelled, jobPc, task>>
    BY <1>2 DEF MarkCancelled
  <2>2. /\ snapshot \in Seq(Commands) /\ snapshot # <<>>
        /\ \A i \in 1..Len(snapshot) : snapshot[i] \in 1..calls
    BY <1>2 DEF MarkCancelled, IInv, Own, TypeOK, TaskOfJob, Numbered
  <2>3. c \in Commands /\ c <= calls /\ snapshot' \in Seq(Commands)
    BY <2>1, <2>2
  <2>4. \A i \in 1..Len(snapshot') : snapshot'[i] \in 1..calls
    <3>1. /\ Len(Tail(snapshot)) = Len(snapshot) - 1
          /\ \A i \in 1..Len(Tail(snapshot)) : Tail(snapshot)[i] = snapshot[i + 1]
      BY <2>2
    <3> QED
      BY <2>1, <2>2, <3>1
  <2> HIDE DEF c
  <2>5. /\ status' \in [Commands -> Statuses] /\ answer' \in [Commands -> Answers]
        /\ \A d \in Commands : status'[d] = "Queued" => status[d] = "Queued" /\ d # c
        /\ SlotsBalance' /\ Numbered' /\ Ticketed' /\ Queueing' /\ StatusTrue' /\ VerdictTrue'
    <3>1. "CancelledShutdown" \in Terminal \ {"CancelledQueueFull"} /\ "CANCELLED" \in Answers
      BY DEF Terminal, Answers
    <3> QED
      BY <2>1, <2>3, <2>4, <3>1, MarkKeeps DEF IInv
  <2>6. TypeOK'
    BY <2>1, <2>3, <2>5 DEF IInv, Own, TypeOK
  <2>7. TaskOfJob'
    <3>1. \A t \in D!Threads : JobCommand(t)' = JobCommand(t)
      BY <2>1 DEF JobCommand
    <3> QED
      BY <2>1, <2>5, <3>1, JobsStay DEF IInv, Own, TaskOfJob
  <2> QED
    BY <2>5, <2>6, <2>7 DEF Own
<1>3. CASE GuiEnqueue
  <2>1. /\ jobOf' = Append(jobOf, NoCommand)
        /\ accepted' = accepted + 1
        /\ UNCHANGED <<shutdown, running, pc, cur, verdict, calls, outcome, status, cancelReq,
                       answer, inFlight, active, cancelled, canceller, snapshot, jobPc, task>>
    BY <1>3 DEF GuiEnqueue, D!EnqueueLocked, D!Accepting, D!DropOldest, D!Push, D!drainVars,
                IInv, Own, Ticketed
  <2>2. 0 \notin Commands
    BY DEF Commands
  <2>3. /\ jobOf' \in Seq(Commands \cup {0})
        /\ Len(jobOf') = Len(jobOf) + 1
        /\ \A c \in Commands : WasQueued(c)' <=> WasQueued(c)
        /\ \A k \in 1..Len(jobOf') : jobOf'[k] = IF k = Len(jobOf') THEN 0 ELSE jobOf[k]
        /\ \A t \in D!Threads : JobCommand(t)' = JobCommand(t)
    BY <2>1, <2>2, NewTicket DEF IInv, Own, NoCommand
  <2>4. TypeOK'
    BY <2>1, <2>3 DEF IInv, Own, TypeOK, NoCommand
  <2>5. SlotsBalance'
    BY <2>1, SlotsStay DEF IInv, Own, Registered, HoldsSlot
  <2>6. Numbered'
    <3>1. Len(jobOf) \in Nat /\ 0 \in 0..calls /\ \A k \in 1..Len(jobOf) : jobOf[k] \in 0..calls
      BY DEF IInv, Own, TypeOK, Numbered
    <3>2. \A k \in 1..Len(jobOf') : jobOf'[k] \in 0..calls
      BY <2>3, <3>1
    <3> QED
      BY <2>1, <3>2 DEF IInv, Own, Numbered
  <2>7. Ticketed'
    <3>1. \A t \in D!Threads : running[t] \in Nat /\ running[t] <= Len(jobOf)
      BY <2>1 DEF D!TypeOK, IInv, Own, Ticketed
    <3> QED
      BY <2>1, <2>3, <3>1 DEF IInv, Own, TypeOK, Ticketed
  <2>8. Queueing' /\ StatusTrue' /\ VerdictTrue'
    <3>1. \A r \in Submitters : cur[r] \in Commands \/ pc[r] = "idle"
      BY DEF IInv, Own, TypeOK, Numbered
    <3>2. ASSUME NEW r \in Submitters, pc[r] # "idle"
          PROVE  WasQueued(cur[r])' <=> WasQueued(cur[r])
      <4>1. PICK c \in Commands : c = cur[r]
        BY <3>1, <3>2
      <4>2. WasQueued(c)' <=> WasQueued(c)
        BY <2>3
      <4> QED
        BY <2>1, <4>1, <4>2 DEF WasQueued
    <3>3. Queueing'
      <4>1. ASSUME NEW r \in Submitters, pc'[r] \in Early
            PROVE  ~WasQueued(cur[r])'
        <5>1. pc[r] \in Early /\ pc[r] # "idle"
          BY <2>1, <4>1 DEF Early
        <5> QED
          BY <3>2, <5>1 DEF IInv, Own, Queueing
      <4> QED
        BY <2>1, <4>1 DEF IInv, Own, Queueing, IsTerminal
    <3>4. StatusTrue'
      BY <2>1 DEF IInv, Own, StatusTrue
    <3>5. VerdictTrue'
      BY <2>1, <3>2 DEF IInv, Own, VerdictTrue
    <3> QED
      BY <3>3, <3>4, <3>5
  <2>9. TaskOfJob'
    BY <2>1, <2>3 DEF IInv, Own, TaskOfJob
  <2> QED
    BY <2>4, <2>5, <2>6, <2>7, <2>8, <2>9 DEF Own
<1> QED
  BY <1>1, <1>2, <1>3

-----------------------------------------------------------------------------
LEMMA InitIInv == Init => IInv
<1> SUFFICES ASSUME Init PROVE IInv
  OBVIOUS
<1>1. DP!IInv
  BY DispatcherInit DEF Init
<1>2. TypeOK
  <2>1. D!TypeOK /\ MaxCommands \in Nat
    BY <1>1, DispatcherFacts, ChannelAssumption
  <2>2. /\ pc \in [Submitters -> SubmitPcs]
        /\ cur \in [Submitters -> Commands \cup {NoCommand}]
        /\ verdict \in [Submitters -> Answers]
    BY DEF Init, SubmitPcs, Answers
  <2>3. /\ status \in [Commands -> Statuses]
        /\ cancelReq \in [Commands -> BOOLEAN]
        /\ answer \in [Commands -> Answers]
    BY DEF Init, Statuses, Answers
  <2>4. /\ task \in [Commands -> {"none", "claimed", "abandoned", "running", "ok", "failed"}]
        /\ outcome \in [Commands -> {"new", "open"} \cup (Answers \ {"BAD_ARGUMENT"})]
    BY DEF Init
  <2>5. jobOf \in Seq(Commands \cup {NoCommand}) /\ active \in Seq(Commands) /\ snapshot \in Seq(Commands)
    <3>1. \A S : <<>> \in Seq(S)
      OBVIOUS
    <3>2. jobOf = <<>> /\ active = <<>> /\ snapshot = <<>>
      BY DEF Init
    <3> QED
      BY <3>1, <3>2
  <2>6. /\ calls \in 0..MaxCommands /\ inFlight \in Nat /\ cancelled \in BOOLEAN
        /\ canceller \in {"idle", "snapshot", "visit", "mark"}
        /\ jobPc \in {"none", "check", "invoke", "task", "mark", "done"}
    <3>1. calls = 0 /\ inFlight = 0 /\ canceller = "idle" /\ jobPc = "none"
      BY DEF Init
    <3>2. cancelled \in BOOLEAN
      BY Zenon DEF Init
    <3> QED
      BY <2>1, <3>1, <3>2
  <2> QED
    BY <2>1, <2>2, <2>3, <2>4, <2>5, <2>6 DEF TypeOK
<1>3. SlotsBalance
  <2>1. {s \in Submitters : HoldsSlot(s)} = {} /\ {s \in Submitters : Registered(s)} = {}
    BY DEF Init, HoldsSlot, Registered
  <2>2. inFlight = Cardinality({s \in Submitters : HoldsSlot(s)}) /\ inFlight <= Capacity
    <3>1. Cardinality({s \in Submitters : HoldsSlot(s)}) = 0
      BY <2>1, FS_EmptySet, Zenon
    <3>2. inFlight = 0
      BY DEF Init
    <3> QED
      BY <3>1, <3>2, ChannelAssumption
  <2>3. {active[i] : i \in 1..Len(active)} = {cur[s] : s \in {x \in Submitters : Registered(x)}}
    <3>1. {active[i] : i \in 1..Len(active)} = {}
      BY DEF Init
    <3> QED
      BY <2>1, <3>1
  <2>4. IsInjective(active)
    BY DEF Init, IsInjective
  <2> QED
    BY <2>2, <2>3, <2>4 DEF SlotsBalance
<1>4. Numbered /\ Ticketed
  BY DEF Init, Numbered, Ticketed, NoCommand, Commands, D!Init, D!NoJob
<1>5. Queueing /\ StatusTrue /\ VerdictTrue
  <2>1. \A c : ~WasQueued(c)
    BY DEF Init, WasQueued
  <2> QED
    BY <2>1 DEF Init, Queueing, StatusTrue, VerdictTrue, Early, NoCommand, Commands
<1>6. TaskOfJob
  BY DEF Init, TaskOfJob, TaskAt, JobCommand, D!Init, D!NoJob, NoCommand
<1> QED
  BY <1>1, <1>2, <1>3, <1>4, <1>5, <1>6 DEF IInv, Own

LEMMA NextIInv == IInv /\ [Next]_vars => IInv'
<1> SUFFICES ASSUME IInv, [Next]_vars PROVE IInv'
  OBVIOUS
<1>1. DP!IInv' /\ D!TypeOK'
  <2>1. UNCHANGED vars => UNCHANGED DP!vars
    BY DispatcherFrame DEF vars
  <2> QED
    BY <2>1, DispatcherStep, DispatcherNext, DispatcherTypes DEF IInv
<1>2. CASE Next
  BY <1>1, <1>2, SubmitKeeps, MainKeeps, GuiKeeps DEF Next, IInv
<1>3. CASE UNCHANGED vars
  <2>1. UNCHANGED <<shutdown, accepted, running, jobOf, pc, cur, verdict, calls, outcome, status, cancelReq,
                    answer, inFlight, active, cancelled, canceller, snapshot, jobPc, task>>
    BY <1>3 DEF vars, dispatcherVars, submitVars, commandVars, channelVars, cancelVars, mainVars
  <2>2. TypeOK'
    BY <1>1, <2>1 DEF IInv, Own, TypeOK
  <2>3. SlotsBalance'
    BY <2>1, SlotsStay DEF IInv, Own, Registered, HoldsSlot
  <2>4. Numbered' /\ Queueing' /\ StatusTrue' /\ VerdictTrue'
    BY <2>1, JobsStay DEF IInv, Own, Numbered, Queueing, Early, IsTerminal, StatusTrue, VerdictTrue
  <2> QED
    BY <1>1, <2>1, <2>2, <2>3, <2>4, TicketsStay, TaskOfJobStays DEF IInv, Own
<1> QED
  BY <1>2, <1>3

LEMMA Invariance == Spec => []IInv
BY InitIInv, NextIInv, PTL DEF Spec

-----------------------------------------------------------------------------
\* The channel is well formed, and every exit of Submit gives back exactly
\* the slot and the registration it took.
THEOREM ChannelSound == Spec => []ChannelConsistent
<1>1. IInv => ChannelConsistent
  BY DEF IInv, Own, ChannelConsistent
<1> QED
  BY <1>1, Invariance, PTL

\* Job, timeout and stop race for the status of a command; once its job is
\* queued the first of them wins, and its answer stays.
THEOREM FirstWins == Spec => FirstTerminalWins
<1>1. IInv /\ [Next]_vars =>
        [\A c \in Commands :
           IsTerminal(c) /\ WasQueued(c) => status'[c] = status[c] /\ answer'[c] = answer[c]]_vars
  <2> SUFFICES ASSUME IInv, Next, NEW c \in Commands, IsTerminal(c), WasQueued(c)
               PROVE  status'[c] = status[c] /\ answer'[c] = answer[c]
    BY DEF vars
  <2>1. ASSUME NEW d, NEW terminalStatus, NEW result, MarkTerminal(d, terminalStatus, result)
        PROVE  status'[c] = status[c] /\ answer'[c] = answer[c]
    <3>1. CASE IsTerminal(d)
      BY <2>1, <3>1 DEF MarkTerminal
    <3>2. CASE ~IsTerminal(d)
      BY <2>1, <3>2 DEF MarkTerminal, IInv, Own, TypeOK
    <3> QED
      BY <3>1, <3>2
  <2>2. ASSUME NEW s \in Submitters, MarkQueued(s)
        PROVE  status'[c] = status[c] /\ answer'[c] = answer[c]
    <3>1. cur[s] # c
      BY <2>2 DEF MarkQueued, IInv, Own, Queueing, Early
    <3> QED
      BY <2>2, <3>1 DEF MarkQueued, IInv, Own, TypeOK
  <2>3. ASSUME NEW t \in GameThreads, JobClaim(t)
        PROVE  status'[c] = status[c] /\ answer'[c] = answer[c]
    <3>1. CASE MayRun(JobCommand(t)) /\ status' = [status EXCEPT ![JobCommand(t)] = "Running"] /\ answer' = answer
      <4>1. JobCommand(t) # c
        BY <3>1 DEF MayRun, IsTerminal, Terminal
      <4> QED
        BY <3>1, <4>1 DEF IInv, Own, TypeOK
    <3>2. CASE MarkTerminal(JobCommand(t), "CancelledShutdown", "CANCELLED")
      BY <2>1, <3>2
    <3>3. CASE UNCHANGED <<status, answer>>
      BY <3>3
    <3> QED
      BY <2>3, <3>1, <3>2, <3>3 DEF JobClaim
  <2>4. ASSUME NEW t \in GameThreads, JobCheck(t) \/ JobMark(t)
        PROVE  status'[c] = status[c] /\ answer'[c] = answer[c]
    BY <2>1, <2>4 DEF JobCheck, JobMark
  <2>5. ASSUME NEW s \in Submitters, TimeoutMark(s) \/ EndSubmit(s)
        PROVE  status'[c] = status[c] /\ answer'[c] = answer[c]
    BY <2>1, <2>5 DEF TimeoutMark, EndSubmit
  <2>6. CASE MarkCancelled
    BY <2>1, <2>6 DEF MarkCancelled
  <2>7. CASE UNCHANGED <<status, answer>>
    BY <2>7
  <2> QED
    BY <2>2, <2>3, <2>4, <2>5, <2>6, <2>7
       DEF Next, SubmitCall, SubmitStep, AcquireSlot, NoSlot, Register, EnqueueTest, EnqueuePush, WaitDone,
           WaitTimeout, TimeoutCancel, Erase, ScriptStop, Enter, MainStep, Pop, TaskBegin, TaskEnd, Leave,
           GuiEnqueueTest, GuiEnqueue, StopScript, TakeSnapshot, VisitCommand, CancelDone, Relaunch, commandVars
<1> QED
  BY <1>1, Invariance, PTL DEF Spec, FirstTerminalWins

-----------------------------------------------------------------------------
(***************************************************************************)
(* The channel implements the contract: a call, a claim, a step of the     *)
(* task and a return are steps of the contract, everything else stutters.  *)
(***************************************************************************)
LEMMA ContractInit == Init => Contract!Init
BY DEF Init, Contract!Init

LEMMA ContractStep == IInv /\ [Next]_vars => [Contract!Next]_(Contract!vars)
<1> SUFFICES ASSUME IInv, [Next]_vars
             PROVE  Contract!Next \/ UNCHANGED <<task, outcome>>
  BY DEF Contract!vars
<1> USE DEF submitVars, commandVars, mainVars
<1>1. ASSUME NEW s \in Submitters, SubmitCall(s)
      PROVE  Contract!Next
  <2>1. calls + 1 \in Commands /\ outcome[calls + 1] = "new"
    BY <1>1, ChannelAssumption DEF SubmitCall, IInv, Own, TypeOK, Numbered, Commands
  <2>2. outcome' = [outcome EXCEPT ![calls + 1] = "open"] /\ task' = task
    BY <1>1 DEF SubmitCall
  <2>3. Contract!Call(calls + 1)
    BY <2>1, <2>2 DEF Contract!Call
  <2> QED
    BY <2>1, <2>3 DEF Contract!Next
<1>2. ASSUME NEW s \in Submitters, NoSlot(s) \/ EndSubmit(s)
      PROVE  Contract!Next
  <2>1. PICK r \in Contract!Outcomes :
          /\ outcome' = [outcome EXCEPT ![cur[s]] = r] /\ task' = task
          /\ r = "OK" => task[cur[s]] = "ok"
          /\ r = "TASK_ERROR" => task[cur[s]] = "failed"
          /\ r = "QUEUE_FULL" => ~WasQueued(cur[s])
    <3>1. CASE NoSlot(s)
      <4>1. ~WasQueued(cur[s])
        BY <3>1 DEF NoSlot, IInv, Own, Queueing, Early
      <4>2. task' = task /\ \E r \in {"CANCELLED", "QUEUE_FULL"} : outcome' = [outcome EXCEPT ![cur[s]] = r]
        BY <3>1 DEF NoSlot, Return
      <4> QED
        BY <4>1, <4>2 DEF Contract!Outcomes, Contract!Uncommitted, Answers
    <3>2. CASE EndSubmit(s)
      <4>1. outcome' = [outcome EXCEPT ![cur[s]] = verdict[s]] /\ task' = task /\ pc[s] = "endSubmit"
        BY <3>2 DEF EndSubmit, Return
      <4>2. verdict[s] \in Answers /\ verdict[s] \in Contract!Outcomes
        BY <4>1 DEF IInv, Own, TypeOK, VerdictTrue, Answers, Contract!Outcomes, Contract!Uncommitted
      <4> QED
        BY <4>1, <4>2 DEF IInv, Own, VerdictTrue
    <3> QED
      BY <1>2, <3>1, <3>2
  <2>2. cur[s] \in Commands /\ outcome[cur[s]] = "open"
    <3>1. pc[s] # "idle"
      BY <1>2 DEF NoSlot, EndSubmit
    <3> QED
      BY <3>1 DEF IInv, Own, TypeOK, Numbered
  <2>3. r = "QUEUE_FULL" => task[cur[s]] = "none"
    BY <2>1, <2>2 DEF IInv, Own, TaskOfJob
  <2>4. Contract!Return(cur[s])
    BY <2>1, <2>2, <2>3 DEF Contract!Return
  <2> QED
    BY <2>2, <2>4 DEF Contract!Next
<1>3. ASSUME NEW t \in GameThreads, JobClaim(t)
      PROVE  Contract!Next \/ UNCHANGED <<task, outcome>>
  <2> DEFINE c == JobCommand(t)
  <2>1. CASE task' = task
    BY <1>3, <2>1 DEF JobClaim
  <2>2. CASE task' # task
    <3>1. /\ c # NoCommand /\ status[c] = "Queued"
          /\ task' = [task EXCEPT ![c] = "claimed"] /\ outcome' = outcome
      BY <1>3, <2>2 DEF JobClaim, MayRun
    <3>2. c \in Commands /\ c <= calls
      BY <3>1, OneJob
    <3> HIDE DEF c
    <3>3. task[c] = "none"
      BY <3>1, <3>2 DEF IInv, Own, TaskOfJob
    <3>4. outcome[c] = "open"
      <4>1. ~IsTerminal(c)
        BY <3>1 DEF IsTerminal, Terminal
      <4>2. outcome[c] # "new"
        BY <3>2 DEF IInv, Own, Numbered, TypeOK, Commands
      <4> QED
        BY <3>1, <3>2, <4>1, <4>2 DEF IInv, Own, Queueing
    <3>5. Contract!Claim(c)
      BY <3>1, <3>3, <3>4 DEF Contract!Claim
    <3> QED
      BY <3>2, <3>5 DEF Contract!Next
  <2> QED
    BY <2>1, <2>2
<1>4. ASSUME NEW t \in GameThreads, JobCheck(t) \/ TaskBegin(t) \/ TaskEnd(t)
      PROVE  Contract!Next \/ UNCHANGED <<task, outcome>>
  <2> DEFINE c == JobCommand(t)
  <2>1. c \in Commands /\ t \in D!Threads /\ c # NoCommand
    BY <1>4, OneJob DEF JobCheck, TaskBegin, TaskEnd, D!Threads
  <2>2. jobPc \in {"check", "invoke", "task"} => task[c] \in TaskAt[jobPc]
    BY <2>1 DEF IInv, Own, TaskOfJob, TaskAt
  <2>3. CASE JobCheck(t)
    <3>1. task[c] = "claimed"
      BY <2>2, <2>3 DEF JobCheck, TaskAt
    <3>2. outcome' = outcome /\ (task' = task \/ task' = [task EXCEPT ![c] = "abandoned"])
      BY <2>3 DEF JobCheck
    <3> HIDE DEF c
    <3> QED
      BY <2>1, <3>1, <3>2 DEF Contract!Proceed, Contract!Next
  <2>4. CASE TaskBegin(t)
    <3>1. task[c] = "claimed"
      BY <2>2, <2>4 DEF TaskBegin, TaskAt
    <3>2. outcome' = outcome /\ task' = [task EXCEPT ![c] = "running"]
      BY <2>4 DEF TaskBegin
    <3> HIDE DEF c
    <3> QED
      BY <2>1, <3>1, <3>2 DEF Contract!Proceed, Contract!Next
  <2>5. CASE TaskEnd(t)
    <3>1. task[c] = "running"
      BY <2>2, <2>5 DEF TaskEnd, TaskAt
    <3>2. outcome' = outcome /\ \E r \in {"ok", "failed"} : task' = [task EXCEPT ![c] = r]
      BY <2>5 DEF TaskEnd
    <3> HIDE DEF c
    <3> QED
      BY <2>1, <3>1, <3>2 DEF Contract!Proceed, Contract!Next
  <2> QED
    BY <1>4, <2>3, <2>4, <2>5
<1>5. CASE UNCHANGED <<task, outcome>>
  BY <1>5
<1> QED
  BY <1>1, <1>2, <1>3, <1>4, <1>5
     DEF Next, vars, SubmitStep, AcquireSlot, Register, MarkQueued, EnqueueTest, EnqueuePush, WaitDone,
         WaitTimeout, TimeoutCancel, TimeoutMark, Erase, ScriptStop, Enter, MainStep, Pop, JobMark, Leave,
         GuiEnqueueTest, GuiEnqueue, StopScript, TakeSnapshot, VisitCommand, MarkCancelled, CancelDone, Relaunch

\* Submit keeps its promise, whatever queue, drop, timeout and stop do to the
\* command: a task runs at most once and only for a caller that waited, OK
\* and a task error are answered for what really happened, and QUEUE_FULL
\* only for what never will.
THEOREM PromiseKept == Spec => ImplementsContract
<1>1. Spec => Contract!Spec
  BY ContractInit, ContractStep, Invariance, PTL DEF Spec, Contract!Spec
<1> QED
  BY <1>1 DEF ImplementsContract

-----------------------------------------------------------------------------
\* The channel and the panel are users of the dispatcher as any other: what
\* they do to its variables are steps of MainThreadDispatcher.
THEOREM ChannelUsesDispatcher == Spec => DP!Spec
<1>1. Init => DP!Init
  BY DEF Init, D!Init, DP!Init, D!Threads, DP!Threads, D!NoJob, DP!NoJob
<1>2. [Next]_vars => [DP!Next]_(DP!vars)
  <2>1. UNCHANGED vars => UNCHANGED DP!vars
    BY DispatcherFrame DEF vars
  <2> QED
    BY <2>1, DispatcherStep
<1> QED
  BY <1>1, <1>2, PTL DEF Spec, DP!Spec

\* So under the channel too the queue is bounded, in order and accounted for,
\* and jobs run on the latched thread only, a bounded batch at a time.
THEOREM DispatcherSoundBelow == Spec => [](D!QueueIsSound /\ D!DrainIsConfined)
<1>1. IInv => D!QueueIsSound
  BY DEF IInv, DP!IInv, D!QueueIsSound, D!QueueIsNewestSuffix, DP!QueueIsNewestSuffix,
         D!JobsAccountedFor, DP!JobsAccountedFor, D!ShutdownQuiesces, DP!ShutdownQuiesces
<1>2. IInv => D!DrainIsConfined
  <2> SUFFICES ASSUME IInv PROVE D!DrainsOnMainThreadOnly /\ D!DrainIsBounded
    BY DEF D!DrainIsConfined
  <2>1. D!DrainsOnMainThreadOnly
    BY DEF IInv, DP!IInv, D!DrainsOnMainThreadOnly, DP!DrainsOnMainThreadOnly, D!Threads, DP!Threads,
           D!NoJob, DP!NoJob
  <2>2. ASSUME NEW t \in D!Threads PROVE ran[t] <= MaxJobsPerDrain
    <3>1. ran[t] \in Nat /\ left[t] \in Nat /\ MaxJobsPerDrain \in Nat
      BY DispatcherFacts, ChannelAssumption DEF IInv, D!TypeOK
    <3>2. ran[t] + left[t] = MaxJobsPerDrain \/ ran[t] + left[t] = 0
      BY DEF IInv, DP!IInv, DP!BudgetSpent, D!Threads, DP!Threads
    <3> QED
      BY <3>1, <3>2
  <2> QED
    BY <2>1, <2>2 DEF D!DrainIsBounded
<1> QED
  BY <1>1, <1>2, Invariance, PTL
=============================================================================
