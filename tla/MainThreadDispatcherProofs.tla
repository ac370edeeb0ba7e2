--------------------- MODULE MainThreadDispatcherProofs ---------------------
(***************************************************************************)
(* Theorems about MainThreadDispatcher, for any number of threads, any     *)
(* queue depth, any drain budget and any number of jobs.                   *)
(***************************************************************************)
EXTENDS MainThreadDispatcher, TLAPS

(***************************************************************************)
(* The inductive invariant.  QueueIsNewestSuffix alone does not say where  *)
(* the next job to start stands (NoneOvertaken does), DrainIsBounded needs *)
(* the relation between the loop counter and the jobs run so far           *)
(* (BudgetSpent), and DrainsOnMainThreadOnly is needed to know that the    *)
(* thread that starts a job is the latched one.                            *)
(***************************************************************************)
NoneOvertaken == lastStarted + Len(queue) <= accepted

BudgetSpent ==
  \A t \in Threads :
    ran[t] + left[t] = IF draining[t] THEN MaxJobsPerDrain ELSE 0

IInv ==
  /\ TypeOK
  /\ QueueIsNewestSuffix
  /\ JobsAccountedFor
  /\ NoneOvertaken
  /\ DrainsOnMainThreadOnly
  /\ BudgetSpent
  /\ ShutdownQuiesces

-----------------------------------------------------------------------------
LEMMA InitIInv == Init => IInv
<1> SUFFICES ASSUME Init PROVE IInv
  OBVIOUS
<1> USE DEF Init, NoJob, CallStates
<1>1. TypeOK
  <2>1. queue \in Seq(Nat)
    BY DEF NoJob
  <2>2. mainThread \in Threads \cup {NoThread} /\ shutdown \in {"open", "closing", "closed"}
    OBVIOUS
  <2>3. draining \in [Threads -> BOOLEAN] /\ call \in [OurThreads -> CallStates]
    BY Zenon
  <2>4. left \in [Threads -> Nat] /\ running \in [Threads -> Nat] /\ ran \in [Threads -> Nat]
    OBVIOUS
  <2> QED
    BY <2>1, <2>2, <2>3, <2>4 DEF TypeOK
<1>2. QueueIsNewestSuffix /\ JobsAccountedFor /\ NoneOvertaken /\ ShutdownQuiesces
  BY DispatcherAssumption
     DEF QueueIsNewestSuffix, JobsAccountedFor, NoneOvertaken, ShutdownQuiesces
<1>3. DrainsOnMainThreadOnly /\ BudgetSpent
  BY DEF DrainsOnMainThreadOnly, BudgetSpent
<1> QED
  BY <1>1, <1>2, <1>3 DEF IInv

LEMMA ThreadFacts ==
  /\ OurThreads \subseteq Threads
  /\ \A t \in Threads : t \notin OurThreads => t \in GameThreads
BY DEF Threads

\* Pushing onto a queue that is the newest suffix keeps it the newest suffix.
LEMMA PushKeepsSuffix ==
  ASSUME NEW q \in Seq(Nat), NEW n \in Nat,
         \A i \in 1..Len(q) : q[i] = n - Len(q) + i
  PROVE  /\ Append(q, n + 1) \in Seq(Nat)
         /\ Len(Append(q, n + 1)) = Len(q) + 1
         /\ \A i \in 1..Len(Append(q, n + 1)) :
              Append(q, n + 1)[i] = (n + 1) - Len(Append(q, n + 1)) + i
OBVIOUS

\* So does removing the oldest job.
LEMMA TailKeepsSuffix ==
  ASSUME NEW q \in Seq(Nat), NEW n \in Nat, q # <<>>,
         \A i \in 1..Len(q) : q[i] = n - Len(q) + i
  PROVE  /\ Tail(q) \in Seq(Nat)
         /\ Len(Tail(q)) = Len(q) - 1
         /\ Head(q) = n - Len(q) + 1
         /\ \A i \in 1..Len(Tail(q)) : Tail(q)[i] = n - Len(Tail(q)) + i
OBVIOUS

\* What an accepted job does to the queue, pushed to an open queue q with d
\* more drops counted, keeps the invariant.
LEMMA AcceptKeepsIInv ==
  ASSUME IInv, shutdown = "open",
         NEW p \in OurThreads, NEW q \in Seq(Nat), NEW d \in Nat,
         Len(q) + d = Len(queue), Len(q) < MaxQueueDepth,
         \A i \in 1..Len(q) : q[i] = accepted - Len(q) + i,
         queue' = Append(q, accepted + 1),
         accepted' = accepted + 1,
         dropped' = dropped + d,
         call' = [call EXCEPT ![p] = "idle"],
         UNCHANGED <<shutdown, drainVars, historyVars>>
  PROVE  IInv'
<1>1. /\ accepted \in Nat /\ dropped \in Nat /\ started \in Nat /\ lastStarted \in Nat
      /\ MaxQueueDepth \in Nat /\ Len(q) \in Nat
  BY DispatcherAssumption DEF IInv, TypeOK
<1>2. /\ queue' \in Seq(Nat)
      /\ Len(queue') = Len(q) + 1
      /\ \A i \in 1..Len(queue') : queue'[i] = accepted' - Len(queue') + i
  BY <1>1, PushKeepsSuffix
<1>3. TypeOK'
  <2>1. accepted' \in Nat /\ dropped' \in Nat
    BY <1>1
  <2>2. call' \in [OurThreads -> CallStates]
    BY DEF IInv, TypeOK, CallStates
  <2> QED
    BY <1>2, <2>1, <2>2 DEF IInv, TypeOK, drainVars, historyVars
<1>4. QueueIsNewestSuffix'
  <2>1. Len(queue') <= MaxQueueDepth
    BY <1>1, <1>2
  <2> QED
    BY <1>2, <2>1 DEF QueueIsNewestSuffix
<1>5. JobsAccountedFor' /\ NoneOvertaken'
  <2>1. accepted = started + dropped + Len(queue) /\ lastStarted + Len(queue) <= accepted
    BY DEF IInv, JobsAccountedFor, NoneOvertaken
  <2>2. started' = started /\ lastStarted' = lastStarted
    BY DEF historyVars
  <2>3. /\ accepted' = started' + dropped' + Len(queue')
        /\ lastStarted' + Len(queue') <= accepted'
    BY <1>1, <1>2, <2>1, <2>2
  <2> QED
    BY <2>3 DEF JobsAccountedFor, NoneOvertaken
<1>6. DrainsOnMainThreadOnly' /\ BudgetSpent' /\ ShutdownQuiesces'
  BY DEF IInv, DrainsOnMainThreadOnly, BudgetSpent, ShutdownQuiesces, drainVars, historyVars
<1> QED
  BY <1>3, <1>4, <1>5, <1>6 DEF IInv

-----------------------------------------------------------------------------
LEMMA NextIInv == IInv /\ [Next]_vars => IInv'
<1> SUFFICES ASSUME IInv, [Next]_vars PROVE IInv'
  OBVIOUS
<1> USE DispatcherAssumption, ThreadFacts DEF Accepting, Full, DropOldest, MayDrain, BudgetLeft
<1>1. ASSUME NEW p \in OurThreads, NEW kind \in {"dropOldest", "noDrop"}, EnqueueCall(p, kind)
      PROVE  IInv'
  BY <1>1 DEF IInv, TypeOK, QueueIsNewestSuffix, JobsAccountedFor, NoneOvertaken,
              DrainsOnMainThreadOnly, BudgetSpent, ShutdownQuiesces, EnqueueCall,
              CallStates, queueVars, drainVars, historyVars
<1>2. ASSUME NEW p \in OurThreads, EnqueueLocked(p)
      PROVE  IInv'
  <2>1. CASE shutdown # "open"
    BY <1>2, <2>1 DEF IInv, TypeOK, QueueIsNewestSuffix, JobsAccountedFor, NoneOvertaken,
              DrainsOnMainThreadOnly, BudgetSpent, ShutdownQuiesces, EnqueueLocked,
              CallStates, queueVars, drainVars, historyVars
  <2>2. CASE shutdown = "open" /\ Len(queue) >= MaxQueueDepth
    <3>1. queue # <<>> /\ queue \in Seq(Nat) /\ accepted \in Nat
      BY <2>2 DEF IInv, TypeOK
    <3>2. /\ Len(queue) <= MaxQueueDepth
          /\ \A i \in 1..Len(queue) : queue[i] = accepted - Len(queue) + i
      BY <2>2 DEF IInv, QueueIsNewestSuffix
    <3>3. /\ Tail(queue) \in Seq(Nat)
          /\ Len(Tail(queue)) = Len(queue) - 1
          /\ \A i \in 1..Len(Tail(queue)) : Tail(queue)[i] = accepted - Len(Tail(queue)) + i
      BY <3>1, <3>2, TailKeepsSuffix
    <3>4. /\ accepted' = accepted + 1
          /\ queue' = Append(Tail(queue), accepted + 1)
          /\ dropped' = dropped + 1
          /\ call' = [call EXCEPT ![p] = "idle"]
          /\ UNCHANGED <<shutdown, drainVars, historyVars>>
      BY <1>2, <2>2 DEF EnqueueLocked, Push, IInv, TypeOK
    <3>5. Len(Tail(queue)) + 1 = Len(queue) /\ Len(Tail(queue)) < MaxQueueDepth
      BY <3>1, <3>2, <3>3
    <3> QED
      BY <2>2, <3>3, <3>4, <3>5, AcceptKeepsIInv
  <2>3. CASE shutdown = "open" /\ Len(queue) < MaxQueueDepth
    <3>1. /\ queue \in Seq(Nat) /\ Len(queue) + 0 = Len(queue) /\ dropped + 0 = dropped
          /\ \A i \in 1..Len(queue) : queue[i] = accepted - Len(queue) + i
      BY <2>3 DEF IInv, TypeOK, QueueIsNewestSuffix
    <3>2. /\ accepted' = accepted + 1
          /\ queue' = Append(queue, accepted + 1)
          /\ dropped' = dropped
          /\ call' = [call EXCEPT ![p] = "idle"]
          /\ UNCHANGED <<shutdown, drainVars, historyVars>>
      BY <1>2, <2>3 DEF EnqueueLocked, Push, IInv, TypeOK
    <3> QED
      BY <2>3, <3>1, <3>2, AcceptKeepsIInv
  <2>4. Len(queue) \in Nat /\ MaxQueueDepth \in Nat
    BY DEF IInv, TypeOK
  <2> QED
    BY <2>1, <2>2, <2>3, <2>4
<1>3. ASSUME NEW p \in OurThreads, TryEnqueueNoDropLocked(p)
      PROVE  IInv'
  <2>1. CASE ~TryEnqueueAccepts
    <3>1. UNCHANGED <<queueVars, shutdown, drainVars, historyVars>> /\ call' = [call EXCEPT ![p] = "idle"]
      BY <1>3, <2>1 DEF TryEnqueueNoDropLocked, queueVars
    <3> QED
      BY <3>1 DEF IInv, TypeOK, QueueIsNewestSuffix, JobsAccountedFor, NoneOvertaken,
                  DrainsOnMainThreadOnly, BudgetSpent, ShutdownQuiesces,
                  CallStates, queueVars, drainVars, historyVars
  <2>2. CASE TryEnqueueAccepts
    <3>1. /\ queue \in Seq(Nat) /\ Len(queue) + 0 = Len(queue) /\ dropped + 0 = dropped
          /\ shutdown = "open" /\ Len(queue) < MaxQueueDepth
          /\ \A i \in 1..Len(queue) : queue[i] = accepted - Len(queue) + i
      BY <2>2 DEF IInv, TypeOK, QueueIsNewestSuffix, TryEnqueueAccepts
    <3>2. /\ accepted' = accepted + 1
          /\ queue' = Append(queue, accepted + 1)
          /\ dropped' = dropped
          /\ call' = [call EXCEPT ![p] = "idle"]
          /\ UNCHANGED <<shutdown, drainVars, historyVars>>
      BY <1>3, <2>2 DEF TryEnqueueNoDropLocked, Push
    <3> QED
      BY <3>1, <3>2, AcceptKeepsIInv
  <2> QED
    BY <2>1, <2>2
<1>4. ASSUME NEW t \in Threads, DetourEnter(t)
      PROVE  IInv'
  <2> USE <1>4 DEF DetourEnter, queueVars, historyVars
  <2>1. TypeOK'
    BY DEF IInv, TypeOK
  <2>2. QueueIsNewestSuffix' /\ JobsAccountedFor' /\ NoneOvertaken' /\ ShutdownQuiesces'
    BY DEF IInv, QueueIsNewestSuffix, JobsAccountedFor, NoneOvertaken, ShutdownQuiesces
  <2>3. DrainsOnMainThreadOnly'
    BY DEF IInv, TypeOK, DrainsOnMainThreadOnly
  <2>4. BudgetSpent'
    BY DEF IInv, TypeOK, BudgetSpent
  <2> QED
    BY <2>1, <2>2, <2>3, <2>4 DEF IInv
<1>5. ASSUME NEW t \in Threads, DrainPop(t)
      PROVE  IInv'
  <2>1. queue \in Seq(Nat) /\ accepted \in Nat /\ queue # <<>>
    BY <1>5 DEF IInv, TypeOK, DrainPop
  <2>2. shutdown # "closed"
    BY <2>1 DEF IInv, ShutdownQuiesces
  <2>3. \A i \in 1..Len(queue) : queue[i] = accepted - Len(queue) + i
    BY <2>2 DEF IInv, QueueIsNewestSuffix
  <2>4. /\ Tail(queue) \in Seq(Nat)
        /\ Len(Tail(queue)) = Len(queue) - 1
        /\ Head(queue) = accepted - Len(queue) + 1
        /\ \A i \in 1..Len(Tail(queue)) : Tail(queue)[i] = accepted - Len(Tail(queue)) + i
    BY <2>1, <2>3, TailKeepsSuffix
  <2>5. Head(queue) \in Nat \ {0}
    <3>1. Len(queue) <= accepted /\ Len(queue) \in Nat
      BY <2>1, <2>2 DEF IInv, TypeOK, NoneOvertaken
    <3> QED
      BY <2>1, <2>4, <3>1
  <2> USE <1>5 DEF DrainPop
  <2>6. TypeOK'
    <3>1. running' \in [Threads -> Nat]
      BY <2>5 DEF IInv, TypeOK
    <3>2. left' \in [Threads -> Nat]
      <4>1. left[t] - 1 \in Nat
        BY DEF IInv, TypeOK, BudgetLeft
      <4> QED
        BY <4>1 DEF IInv, TypeOK
    <3>3. ran' \in [Threads -> Nat]
      BY DEF IInv, TypeOK
    <3>4. queue' \in Seq(Nat) /\ started' \in Nat /\ lastStarted' \in Nat
      BY <2>4, <2>5 DEF IInv, TypeOK
    <3>5. UNCHANGED <<accepted, dropped, shutdown, mainThread, draining, drainedOnce, call>>
      OBVIOUS
    <3> HIDE DEF DrainPop
    <3> QED
      BY <3>1, <3>2, <3>3, <3>4, <3>5 DEF IInv, TypeOK
  <2>7. QueueIsNewestSuffix' /\ JobsAccountedFor' /\ NoneOvertaken' /\ ShutdownQuiesces'
    <3>1. /\ queue' = Tail(queue) /\ started' = started + 1 /\ lastStarted' = Head(queue)
          /\ UNCHANGED <<accepted, dropped, shutdown>>
      OBVIOUS
    <3> HIDE DEF DrainPop
    <3>2. /\ Len(queue) <= MaxQueueDepth /\ Len(queue) \in Nat /\ MaxQueueDepth \in Nat
          /\ accepted = started + dropped + Len(queue) /\ started \in Nat /\ dropped \in Nat
      BY <2>1, <2>2 DEF IInv, TypeOK, QueueIsNewestSuffix, JobsAccountedFor
    <3>3. Len(queue') <= MaxQueueDepth /\ accepted' = started' + dropped' + Len(queue')
      BY <2>1, <2>4, <3>1, <3>2
    <3>4. lastStarted' + Len(queue') <= accepted'
      BY <2>1, <2>4, <3>1, <3>2
    <3> QED
      BY <2>2, <2>4, <3>1, <3>3, <3>4
         DEF QueueIsNewestSuffix, JobsAccountedFor, NoneOvertaken, ShutdownQuiesces
  <2>8. DrainsOnMainThreadOnly'
    BY <2>5 DEF IInv, TypeOK, DrainsOnMainThreadOnly
  <2>9. BudgetSpent'
    BY DEF IInv, TypeOK, BudgetSpent
  <2> QED
    BY <2>6, <2>7, <2>8, <2>9 DEF IInv
<1>6. ASSUME NEW t \in Threads, JobReturn(t)
      PROVE  IInv'
  <2> USE <1>6 DEF JobReturn, NoJob, queueVars, historyVars
  <2>1. TypeOK'
    BY DEF IInv, TypeOK
  <2>2. QueueIsNewestSuffix' /\ JobsAccountedFor' /\ NoneOvertaken' /\ ShutdownQuiesces'
    BY DEF IInv, QueueIsNewestSuffix, JobsAccountedFor, NoneOvertaken, ShutdownQuiesces
  <2>3. DrainsOnMainThreadOnly' /\ BudgetSpent'
    BY DEF IInv, TypeOK, DrainsOnMainThreadOnly, BudgetSpent
  <2> QED
    BY <2>1, <2>2, <2>3 DEF IInv
<1>7. ASSUME NEW t \in Threads, DrainExit(t)
      PROVE  IInv'
  <2> USE <1>7 DEF DrainExit, queueVars
  <2>1. TypeOK'
    BY DEF IInv, TypeOK
  <2>2. QueueIsNewestSuffix' /\ JobsAccountedFor' /\ NoneOvertaken' /\ ShutdownQuiesces'
    BY DEF IInv, QueueIsNewestSuffix, JobsAccountedFor, NoneOvertaken, ShutdownQuiesces
  <2>3. DrainsOnMainThreadOnly' /\ BudgetSpent'
    BY DEF IInv, TypeOK, DrainsOnMainThreadOnly, BudgetSpent
  <2> QED
    BY <2>1, <2>2, <2>3 DEF IInv
<1>8. ASSUME BeginShutdownFlag \/ BeginShutdownClear
      PROVE  IInv'
  <2>1. UNCHANGED <<accepted, dropped, drainVars, call, historyVars>>
    BY <1>8 DEF BeginShutdownFlag, BeginShutdownClear, queueVars
  <2>2. CASE BeginShutdownFlag
    BY <2>1, <2>2 DEF IInv, TypeOK, QueueIsNewestSuffix, JobsAccountedFor, NoneOvertaken,
         DrainsOnMainThreadOnly, BudgetSpent, ShutdownQuiesces, BeginShutdownFlag,
         queueVars, drainVars, historyVars
  <2>3. CASE BeginShutdownClear
    <3>1. queue' = <<>> /\ queue' \in Seq(Nat) /\ Len(queue') = 0 /\ shutdown' = "closed"
      BY <2>3 DEF BeginShutdownClear
    <3>2. TypeOK'
      BY <2>1, <3>1 DEF IInv, TypeOK, drainVars, historyVars
    <3>3. QueueIsNewestSuffix' /\ JobsAccountedFor' /\ NoneOvertaken' /\ ShutdownQuiesces'
      BY <2>1, <3>1 DEF IInv, TypeOK, QueueIsNewestSuffix, JobsAccountedFor, NoneOvertaken,
           ShutdownQuiesces, historyVars
    <3>4. DrainsOnMainThreadOnly' /\ BudgetSpent'
      BY <2>1 DEF IInv, DrainsOnMainThreadOnly, BudgetSpent, drainVars, historyVars
    <3> QED
      BY <3>2, <3>3, <3>4 DEF IInv
  <2> QED
    BY <1>8, <2>2, <2>3
<1>9. CASE UNCHANGED vars
  BY <1>9 DEF IInv, TypeOK, QueueIsNewestSuffix, JobsAccountedFor, NoneOvertaken,
              DrainsOnMainThreadOnly, BudgetSpent, ShutdownQuiesces,
              vars, queueVars, drainVars, historyVars
<1> QED
  BY <1>1, <1>2, <1>3, <1>4, <1>5, <1>6, <1>7, <1>8, <1>9 DEF Next, Drain

LEMMA Invariance == Spec => []IInv
BY InitIInv, NextIInv, PTL DEF Spec

-----------------------------------------------------------------------------
\* Every variable keeps its type (whole of main_thread_dispatcher.cpp).
THEOREM TypeCorrect == Spec => []TypeOK
BY Invariance, PTL DEF IInv

\* Enqueue, TryEnqueueNoDrop, DrainOnce and BeginShutdown keep the queue
\* bounded and equal to the newest tickets in order, in any interleaving.
THEOREM QueueCorrect == Spec => []QueueIsNewestSuffix
BY Invariance, PTL DEF IInv

\* GetDroppedJobCount tells the truth: a job that was accepted and did not
\* start either waits or is counted.
THEOREM NothingVanishes == Spec => []JobsAccountedFor
BY Invariance, PTL DEF IInv

\* MaybeDrain runs jobs on the latched game thread and nowhere else.
THEOREM MainThreadOnly == Spec => []DrainsOnMainThreadOnly
BY Invariance, PTL DEF IInv

\* One outermost detour call runs at most MaxJobsPerDrain jobs.
THEOREM BoundedDrain == Spec => []DrainIsBounded
<1>1. IInv => DrainIsBounded
  <2> SUFFICES ASSUME IInv, NEW t \in Threads PROVE ran[t] <= MaxJobsPerDrain
    BY DEF DrainIsBounded
  <2>1. ran[t] \in Nat /\ left[t] \in Nat /\ MaxJobsPerDrain \in Nat
    BY DispatcherAssumption DEF IInv, TypeOK
  <2>2. ran[t] + left[t] = MaxJobsPerDrain \/ ran[t] + left[t] = 0
    BY DEF IInv, BudgetSpent
  <2> QED
    BY <2>1, <2>2
<1> QED
  BY <1>1, Invariance, PTL

\* Nothing is queued after BeginShutdown, late callers included.
THEOREM Quiescence == Spec => []ShutdownQuiesces
BY Invariance, PTL DEF IInv

\* Enqueue, TryEnqueueNoDrop, DrainOnce and BeginShutdown together: bounded,
\* in order, accounted for, and quiet after the shutdown.
THEOREM QueueSound == Spec => []QueueIsSound
BY QueueCorrect, NothingVanishes, Quiescence, PTL DEF QueueIsSound

\* MaybeDrain and DrainOnce: where jobs run, and how many at a time.
THEOREM DrainConfined == Spec => []DrainIsConfined
BY MainThreadOnly, BoundedDrain, PTL DEF DrainIsConfined

\* Jobs start in the order of their tickets.
THEOREM Fifo == Spec => StartsInOrder
<1>1. IInv /\ [Next]_vars => [lastStarted' # lastStarted => lastStarted' > lastStarted]_vars
  <2> SUFFICES ASSUME IInv, Next, lastStarted' # lastStarted
               PROVE  lastStarted' > lastStarted
    BY DEF vars
  <2>1. PICK t \in Threads : DrainPop(t)
    BY DEF Next, Drain, EnqueueCall, EnqueueLocked, TryEnqueueNoDropLocked, DetourEnter,
           JobReturn, DrainExit, BeginShutdownFlag, BeginShutdownClear, historyVars
  <2>2. queue \in Seq(Nat) /\ accepted \in Nat /\ lastStarted \in Nat /\ queue # <<>>
    BY <2>1 DEF IInv, TypeOK, DrainPop
  <2>3. \A i \in 1..Len(queue) : queue[i] = accepted - Len(queue) + i
    BY <2>2 DEF IInv, ShutdownQuiesces, QueueIsNewestSuffix
  <2>4. Head(queue) = accepted - Len(queue) + 1
    BY <2>2, <2>3, TailKeepsSuffix
  <2> QED
    BY <2>1, <2>2, <2>4 DEF IInv, NoneOvertaken, DrainPop
<1> QED
  BY <1>1, Invariance, PTL DEF Spec, StartsInOrder
=============================================================================
