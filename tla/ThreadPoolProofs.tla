-------------------------- MODULE ThreadPoolProofs --------------------------
(***************************************************************************)
(* Machine-checked proofs about ThreadPool, for any finite sets of workers *)
(* and clients and any limit: the limit holds, and one notification for    *)
(* each task and each free place is enough, until stop is over.            *)
(***************************************************************************)
EXTENDS ThreadPool, TLAPS, FiniteSetTheorems, SequenceTheorems

(* Counting the threads that have been woken.                              *)

\* The threads of S that are at v.
At(S, f, v) == {x \in S : f[x] = v}

\* The woken threads of a finite set can be counted.
LEMMA WokenCount ==
  ASSUME NEW S, IsFiniteSet(S), NEW f
  PROVE  IsFiniteSet(At(S, f, "woken")) /\ Cardinality(At(S, f, "woken")) \in Nat
<1>1. At(S, f, "woken") \in SUBSET S
  BY DEF At
<1>2. IsFiniteSet(At(S, f, "woken"))
  BY <1>1, FS_Subset
<1> QED
  BY <1>2, FS_CardinalityType

\* notify_one adds one to the woken threads, and no thread to the waiting ones.
LEMMA Wake ==
  ASSUME NEW S, IsFiniteSet(S), NEW T, NEW f \in [S -> T], NEW x \in S,
         f[x] = "waiting", NEW g, g = [f EXCEPT ![x] = "woken"]
  PROVE  /\ Cardinality(At(S, g, "woken")) = Cardinality(At(S, f, "woken")) + 1
         /\ At(S, g, "waiting") \subseteq At(S, f, "waiting")
<1>1. At(S, g, "woken") = At(S, f, "woken") \cup {x} /\ x \notin At(S, f, "woken")
  BY DEF At
<1>2. IsFiniteSet(At(S, f, "woken"))
  BY WokenCount
<1>3. At(S, g, "waiting") \subseteq At(S, f, "waiting")
  BY DEF At
<1> QED
  BY <1>1, <1>2, <1>3, FS_AddElement

\* A thread that does not go to wait is not a new waiting one.
LEMMA NotWaiting ==
  ASSUME NEW S, NEW T, NEW f \in [S -> T], NEW x \in S,
         NEW v, v # "waiting", NEW g, g = [f EXCEPT ![x] = v]
  PROVE  At(S, g, "waiting") \subseteq At(S, f, "waiting")
BY DEF At

-----------------------------------------------------------------------------
(* The inductive invariant                                                 *)

\* In a pool without workers run does not wait.
InlineNeverWaits == threads = {} => WaitingClients = {}

\* stop clears the queue without telling the clients that wait for room.
UntilStopped == spc # "stopped" => NoStrandedClient

IInv == TypeOK /\ QueueBounded /\ NoIdleWorker /\ UntilStopped /\ InlineNeverWaits

\* When start returns nobody waits and the queue is empty.
LEMMA InitIInv == Init => IInv
<1> SUFFICES ASSUME Init PROVE IInv
  OBVIOUS
<1>1. TypeOK
  BY PoolAssumption DEF Init, TypeOK
<1>2. Len(queue) = 0 /\ WaitingWorkers = {} /\ WaitingClients = {}
  BY DEF Init, WaitingWorkers, WaitingClients
<1> QED
  BY <1>1, <1>2, PoolAssumption DEF IInv, QueueBounded, NoIdleWorker, UntilStopped, NoStrandedClient,
    InlineNeverWaits

\* The sets of the specification, in the terms of the lemmas above.
LEMMA Sets ==
  /\ WaitingWorkers = At(Workers, worker, "waiting")
  /\ WokenWorkers = At(Workers, worker, "woken")
  /\ WaitingClients = At(Clients, client, "waiting")
  /\ WokenClients = At(Clients, client, "woken")
BY DEF At, WaitingWorkers, WokenWorkers, WaitingClients, WokenClients

\* The same in the next state.
LEMMA SetsNext ==
  /\ WaitingWorkers' = At(Workers, worker', "waiting")
  /\ WokenWorkers' = At(Workers, worker', "woken")
  /\ WaitingClients' = At(Clients, client', "waiting")
  /\ WokenClients' = At(Clients, client', "woken")
BY DEF At, WaitingWorkers, WokenWorkers, WaitingClients, WokenClients

\* run wakes a worker for the task it pushes, if one waits.
LEMMA PushKeepsNoIdleWorker ==
  ASSUME TypeOK, NoIdleWorker, NotifyWorker, queue' = Append(queue, given + 1)
  PROVE  NoIdleWorker'
<1>1. Len(queue') = Len(queue) + 1 /\ Len(queue) \in Nat
  BY DEF TypeOK
<1>2. CASE WaitingWorkers = {}
  BY <1>2 DEF NotifyWorker, NoIdleWorker, WaitingWorkers
<1>3. CASE WaitingWorkers # {}
  <2>1. PICK w \in WaitingWorkers : worker' = [worker EXCEPT ![w] = "woken"]
    BY <1>3 DEF NotifyWorker
  <2>2. w \in Workers /\ worker[w] = "waiting"
    BY <2>1 DEF WaitingWorkers
  <2>3. Cardinality(WokenWorkers') = Cardinality(WokenWorkers) + 1
    BY <2>1, <2>2, PoolAssumption, Wake, Sets, SetsNext DEF TypeOK
  <2>4. Cardinality(WokenWorkers) \in Nat
    BY PoolAssumption, WokenCount, Sets
  <2> QED
    BY <1>1, <1>3, <2>3, <2>4 DEF NoIdleWorker
<1> QED
  BY <1>2, <1>3

\* take wakes a client for the place it frees, if one waits.
LEMMA PopStrandsNoClient ==
  ASSUME TypeOK, UntilStopped, queue # <<>>, queue' = Tail(queue), spc' = spc,
         IF MaxTaskNum > 0 THEN NotifyClient ELSE UNCHANGED client
  PROVE  UntilStopped'
<1>1. Len(queue') = Len(queue) - 1 /\ Len(queue) \in Nat /\ Len(queue') \in Nat
  BY HeadTailProperties, LenProperties DEF TypeOK
<1>0. Cardinality(WokenClients) \in Nat
  BY PoolAssumption, WokenCount, Sets
<1>2. CASE MaxTaskNum > 0 /\ WaitingClients # {}
  <2>1. PICK c \in WaitingClients : client' = [client EXCEPT ![c] = "woken"]
    BY <1>2 DEF NotifyClient
  <2>2. c \in Clients /\ client[c] = "waiting"
    BY <2>1 DEF WaitingClients
  <2>3. Cardinality(WokenClients') = Cardinality(WokenClients) + 1
    BY <2>1, <2>2, PoolAssumption, Wake, Sets, SetsNext DEF TypeOK
  <2> QED
    BY <1>0, <1>1, <1>2, <2>3, PoolAssumption DEF UntilStopped, NoStrandedClient
<1>3. CASE MaxTaskNum > 0 /\ WaitingClients = {}
  BY <1>3 DEF NotifyClient, UntilStopped, NoStrandedClient, WaitingClients
<1>4. CASE ~(MaxTaskNum > 0)
  <2>1. Cardinality(WokenClients') \in Nat
    BY PoolAssumption, WokenCount, SetsNext
  <2> QED
    BY <1>1, <1>4, <2>1, PoolAssumption DEF UntilStopped, NoStrandedClient
<1> QED
  BY <1>2, <1>3, <1>4

\* run keeps the invariant, called by an idle client or after a wakeup.
LEMMA RunTaskKeeps ==
  ASSUME IInv, NEW c \in Clients, client[c] \in {"idle", "woken"}, NEW wait \in BOOLEAN,
         RunTask(c, wait), spc' = spc, threads' = threads
  PROVE  QueueBounded' /\ NoIdleWorker' /\ UntilStopped' /\ InlineNeverWaits'
<1> USE PoolAssumption
<1>0. /\ Len(queue) \in Nat /\ client \in [Clients -> {"idle", "waiting", "woken", "latched"}]
      /\ TypeOK
  BY LenProperties DEF IInv, TypeOK
<1>1. CASE IsFull /\ threads # {}
  <2>1. /\ queue' = queue /\ worker' = worker /\ MaxTaskNum <= Len(queue)
        /\ client' = [client EXCEPT ![c] = "waiting"]
    BY <1>1 DEF RunTask, IsFull
  <2>2. Cardinality(WokenClients') \in Nat
    BY WokenCount, SetsNext
  <2>3. NoIdleWorker'
    BY <2>1 DEF IInv, NoIdleWorker, WaitingWorkers, WokenWorkers
  <2> QED
    BY <1>0, <1>1, <2>1, <2>2, <2>3 DEF IInv, QueueBounded, UntilStopped, NoStrandedClient, InlineNeverWaits
<1>2. CASE ~(IsFull /\ threads # {})
  <2>1. PICK v \in {"latched", "idle"} : client' = [client EXCEPT ![c] = v]
    BY <1>2 DEF RunTask, Given
  <2>0. v # "woken" /\ v # "waiting"
    BY <2>1
  <2>2. WaitingClients' \subseteq WaitingClients
    BY <1>0, <2>1, NotWaiting, Sets, SetsNext
  <2>3. /\ Cardinality(WokenClients) \in Nat /\ Cardinality(WokenClients') \in Nat
        /\ Cardinality(WokenClients) <= Cardinality(WokenClients') + 1
    <3>1. Cardinality(WokenClients) \in Nat /\ Cardinality(WokenClients') \in Nat
      BY WokenCount, Sets, SetsNext
    <3>2. CASE client[c] = "woken"
      <4>1. Cardinality(At(Clients, client', "woken")) =
              Cardinality(At(Clients, client, "woken")) - 1
        <5>1. /\ At(Clients, client', "woken") = At(Clients, client, "woken") \ {c}
              /\ c \in At(Clients, client, "woken")
          BY <1>0, <2>0, <2>1, <3>2 DEF At
        <5>2. IsFiniteSet(At(Clients, client, "woken"))
          BY WokenCount
        <5> QED
          BY <5>1, <5>2, FS_RemoveElement
      <4> QED
        BY <3>1, <4>1, Sets, SetsNext
    <3>3. CASE client[c] # "woken"
      <4>1. At(Clients, client', "woken") = At(Clients, client, "woken")
        BY <1>0, <2>0, <2>1, <3>3 DEF At
      <4> QED
        BY <3>1, <4>1, Sets, SetsNext
    <3> QED
      BY <3>2, <3>3
  <2>4. CASE threads = {}
    <3>1. queue' = queue /\ worker' = worker
      BY <1>2, <2>4 DEF RunTask
    <3>2. WaitingClients' = {}
      BY <2>2, <2>4 DEF IInv, InlineNeverWaits
    <3>3. NoIdleWorker'
      BY <3>1 DEF IInv, NoIdleWorker, WaitingWorkers, WokenWorkers
    <3> QED
      BY <3>1, <3>2, <3>3 DEF IInv, QueueBounded, UntilStopped, NoStrandedClient, InlineNeverWaits
  <2>5. CASE threads # {}
    <3>1. queue' = Append(queue, given + 1) /\ NotifyWorker /\ ~IsFull
      BY <1>2, <2>5 DEF RunTask
    <3>2. Len(queue') = Len(queue) + 1
      BY <1>0, <3>1 DEF TypeOK
    <3>3. NoIdleWorker'
      BY <1>0, <3>1, PushKeepsNoIdleWorker DEF IInv
    <3>4. QueueBounded'
      BY <1>0, <3>1, <3>2 DEF QueueBounded, IsFull
    <3>5. UntilStopped'
      BY <1>0, <2>2, <2>3, <3>2 DEF IInv, UntilStopped, NoStrandedClient
    <3> QED
      BY <2>5, <3>3, <3>4, <3>5 DEF InlineNeverWaits
  <2> QED
    BY <2>4, <2>5
<1> QED
  BY <1>1, <1>2

\* Every step keeps the types.
LEMMA NextType == TypeOK /\ [Next]_vars => TypeOK'
<1> SUFFICES ASSUME TypeOK, [Next]_vars PROVE TypeOK'
  OBVIOUS
<1> USE PoolAssumption
<1>1. ASSUME NEW w \in Workers, TestRunning(w) PROVE TypeOK'
  BY <1>1 DEF TypeOK, TestRunning
<1>2. ASSUME NEW w \in Workers, TakeNothing(w) PROVE TypeOK'
  BY <1>2 DEF TypeOK, TakeNothing
<1>3. ASSUME NEW w \in Workers, Take(w) PROVE TypeOK'
  <2>1. Head(queue) \in Nat /\ Tail(queue) \in Seq(Nat)
    BY <1>3, HeadTailProperties DEF Take, TypeOK
  <2>2. client' \in [Clients -> {"idle", "waiting", "woken", "latched"}]
    BY <1>3 DEF Take, NotifyClient, TypeOK
  <2> QED
    BY <1>3, <2>1, <2>2 DEF TypeOK, Take
<1>4. ASSUME NEW w \in Workers, TaskReturns(w) PROVE TypeOK'
  BY <1>4 DEF TypeOK, TaskReturns
<1>5. ASSUME NEW c \in Clients, NEW wait \in BOOLEAN, RunTask(c, wait),
             threads' = threads, running' = running, task' = task,
             spc' = spc, waits' \in [Clients -> BOOLEAN]
      PROVE  TypeOK'
  <2>1. worker' \in [Workers -> {"idle", "taking", "waiting", "woken", "busy", "exited"}]
    BY <1>5 DEF RunTask, NotifyWorker, TypeOK
  <2>2. /\ client' \in [Clients -> {"idle", "waiting", "woken", "latched"}]
        /\ latch' \in [Clients -> Nat] /\ given' \in Nat
        /\ queue' \in Seq(Nat) /\ done' \subseteq Nat
    <3>1. CASE IsFull /\ threads # {}
      BY <1>5, <3>1 DEF RunTask, TypeOK
    <3>2. CASE ~(IsFull /\ threads # {})
      <4>1. Given(c, wait)
        BY <1>5, <3>2 DEF RunTask
      <4>2. client' \in [Clients -> {"idle", "waiting", "woken", "latched"}]
        BY <4>1 DEF Given, TypeOK
      <4>3. latch' \in [Clients -> Nat] /\ given' \in Nat
        BY <4>1 DEF Given, TypeOK
      <4>4. queue' \in Seq(Nat) /\ done' \subseteq Nat
        <5>1. given + 1 \in Nat /\ Append(queue, given + 1) \in Seq(Nat)
          BY DEF TypeOK
        <5> QED
          BY <1>5, <3>2, <5>1 DEF RunTask, TypeOK
      <4> QED
        BY <4>2, <4>3, <4>4
    <3> QED
      BY <3>1, <3>2
  <2> QED
    BY <1>5, <2>1, <2>2 DEF TypeOK
<1>6. ASSUME NEW c \in Clients, Run(c) \/ WaitForAllDone(c) \/ RunAgain(c) PROVE TypeOK'
  <2>1. waits' \in [Clients -> BOOLEAN] /\ waits[c] \in BOOLEAN
    BY <1>6 DEF TypeOK, Run, WaitForAllDone, RunAgain
  <2> QED
    BY <1>5, <1>6, <2>1 DEF Run, WaitForAllDone, RunAgain
<1>7. ASSUME NEW c \in Clients, LatchOpens(c) PROVE TypeOK'
  BY <1>7 DEF TypeOK, LatchOpens
<1>8. ASSUME SpuriousWakeup PROVE TypeOK'
  BY <1>8 DEF TypeOK, SpuriousWakeup
<1>9. ASSUME Stop PROVE TypeOK'
  BY <1>9 DEF TypeOK, Stop
<1>10. ASSUME StopClears PROVE TypeOK'
  BY <1>10 DEF TypeOK, StopClears
<1>11. CASE UNCHANGED vars
  BY <1>11 DEF TypeOK, vars
<1> QED
  BY <1>1, <1>2, <1>3, <1>4, <1>6, <1>7, <1>8, <1>9, <1>10, <1>11
  DEF Next, Worker, Client

\* m_threadVec is set by start alone.
LEMMA ThreadsFixed == [Next]_vars => threads' = threads
BY DEF Next, Worker, Client, TestRunning, TakeNothing, Take, TaskReturns, Run,
   WaitForAllDone, RunAgain, LatchOpens, SpuriousWakeup, Stop, StopClears, vars

\* Every step keeps the invariant.
LEMMA NextIInv == IInv /\ [Next]_vars => IInv'
<1> SUFFICES ASSUME IInv, [Next]_vars PROVE IInv'
  OBVIOUS
<1> USE PoolAssumption
<1> DEFINE Rest == QueueBounded' /\ NoIdleWorker' /\ UntilStopped' /\ InlineNeverWaits'
<1>0. /\ TypeOK /\ TypeOK' /\ Len(queue) \in Nat /\ threads' = threads
      /\ worker \in [Workers -> {"idle", "taking", "waiting", "woken", "busy", "exited"}]
      /\ client \in [Clients -> {"idle", "waiting", "woken", "latched"}]
      /\ Cardinality(WokenWorkers) \in Nat /\ Cardinality(WokenClients) \in Nat
      /\ Cardinality(WokenWorkers') \in Nat /\ Cardinality(WokenClients') \in Nat
  BY NextType, ThreadsFixed, LenProperties, WokenCount, Sets, SetsNext DEF IInv, TypeOK
<1>1. ASSUME queue' = queue, spc' = spc, client' = client PROVE
        QueueBounded' /\ UntilStopped' /\ InlineNeverWaits'
  BY <1>0, <1>1
  DEF IInv, QueueBounded, UntilStopped, NoStrandedClient, InlineNeverWaits, WaitingClients, WokenClients
<1>2. ASSUME NEW w \in Workers, TestRunning(w) \/ TaskReturns(w) PROVE Rest
  <2>1. /\ queue' = queue /\ spc' = spc /\ client' = client
        /\ WaitingWorkers' \subseteq WaitingWorkers /\ WokenWorkers' = WokenWorkers
    BY <1>0, <1>2 DEF TestRunning, TaskReturns, WaitingWorkers, WokenWorkers
  <2> QED
    BY <1>1, <2>1 DEF IInv, NoIdleWorker
<1>3. ASSUME NEW w \in Workers, TakeNothing(w) PROVE Rest
  <2>1. queue' = <<>> /\ queue' = queue /\ spc' = spc /\ client' = client
    BY <1>3 DEF TakeNothing
  <2>2. NoIdleWorker'
    BY <1>0, <2>1 DEF NoIdleWorker
  <2> QED
    BY <1>1, <2>1, <2>2
<1>4. ASSUME NEW w \in Workers, Take(w) PROVE Rest
  <2>1. /\ queue # <<>> /\ queue' = Tail(queue) /\ spc' = spc
        /\ worker' = [worker EXCEPT ![w] = "busy"]
        /\ IF MaxTaskNum > 0 THEN NotifyClient ELSE UNCHANGED client
    BY <1>4 DEF Take
  <2>2. Len(queue') = Len(queue) - 1
    BY <1>0, <2>1, HeadTailProperties DEF TypeOK
  <2>3. UntilStopped'
    BY <1>0, <2>1, PopStrandsNoClient DEF IInv
  <2>4. QueueBounded'
    BY <1>0, <2>2 DEF IInv, QueueBounded
  <2>5. InlineNeverWaits'
    BY <1>0, <2>1 DEF IInv, InlineNeverWaits, NotifyClient, WaitingClients
  <2>6. NoIdleWorker'
    <3>1. WaitingWorkers' \subseteq WaitingWorkers
      BY <1>0, <2>1 DEF WaitingWorkers
    <3>2. Cardinality(WokenWorkers) <= Cardinality(WokenWorkers') + 1
      <4>1. WokenWorkers' = WokenWorkers \ {w}
        BY <1>0, <2>1 DEF WokenWorkers
      <4>2. IsFiniteSet(WokenWorkers)
        BY WokenCount, Sets
      <4>3. Cardinality(WokenWorkers') = IF w \in WokenWorkers
              THEN Cardinality(WokenWorkers) - 1 ELSE Cardinality(WokenWorkers)
        BY <4>1, <4>2, FS_RemoveElement
      <4> QED
        BY <1>0, <4>3
    <3> QED
      BY <1>0, <2>2, <3>1, <3>2 DEF IInv, NoIdleWorker
  <2> QED
    BY <2>3, <2>4, <2>5, <2>6
<1>5. ASSUME NEW c \in Clients, Run(c) \/ WaitForAllDone(c) \/ RunAgain(c) PROVE Rest
  <2>1. PICK wait \in BOOLEAN : RunTask(c, wait)
    BY <1>0, <1>5 DEF Run, WaitForAllDone, RunAgain, TypeOK
  <2>2. client[c] \in {"idle", "woken"} /\ spc' = spc
    BY <1>5 DEF Run, WaitForAllDone, RunAgain
  <2> QED
    BY <1>0, <2>1, <2>2, RunTaskKeeps
<1>6. ASSUME NEW c \in Clients, LatchOpens(c) PROVE Rest
  <2>1. /\ queue' = queue /\ spc' = spc /\ worker' = worker
        /\ WaitingClients' \subseteq WaitingClients /\ WokenClients' = WokenClients
    BY <1>0, <1>6 DEF LatchOpens, WaitingClients, WokenClients
  <2>2. WaitingWorkers' = WaitingWorkers /\ WokenWorkers' = WokenWorkers
    BY <2>1 DEF WaitingWorkers, WokenWorkers
  <2> QED
    BY <1>0, <2>1, <2>2
    DEF IInv, QueueBounded, NoIdleWorker, UntilStopped, NoStrandedClient, InlineNeverWaits
<1>7. ASSUME SpuriousWakeup PROVE Rest
  <2>0. queue' = queue /\ spc' = spc
    BY <1>7 DEF SpuriousWakeup
  <2>1. ASSUME NEW w \in WaitingWorkers, worker' = [worker EXCEPT ![w] = "woken"],
               client' = client
        PROVE  Rest
    <3>1. w \in Workers /\ worker[w] = "waiting"
      BY <2>1 DEF WaitingWorkers
    <3>2. /\ Cardinality(WokenWorkers') = Cardinality(WokenWorkers) + 1
          /\ WaitingWorkers' \subseteq WaitingWorkers
      BY <1>0, <2>1, <3>1, Wake, Sets, SetsNext
    <3>3. NoIdleWorker'
      BY <1>0, <2>0, <3>2 DEF IInv, NoIdleWorker
    <3> QED
      BY <1>1, <2>0, <2>1, <3>3
  <2>2. ASSUME NEW c \in WaitingClients, client' = [client EXCEPT ![c] = "woken"],
               worker' = worker
        PROVE  Rest
    <3>1. c \in Clients /\ client[c] = "waiting"
      BY <2>2 DEF WaitingClients
    <3>2. /\ Cardinality(WokenClients') = Cardinality(WokenClients) + 1
          /\ WaitingClients' \subseteq WaitingClients
      BY <1>0, <2>2, <3>1, Wake, Sets, SetsNext
    <3>3. WaitingWorkers' = WaitingWorkers /\ WokenWorkers' = WokenWorkers
      BY <2>2 DEF WaitingWorkers, WokenWorkers
    <3>4. UntilStopped'
      BY <1>0, <2>0, <3>2 DEF IInv, UntilStopped, NoStrandedClient
    <3> QED
      BY <1>0, <2>0, <3>2, <3>3, <3>4 DEF IInv, QueueBounded, NoIdleWorker, InlineNeverWaits
  <2> QED
    BY <1>7, <2>1, <2>2 DEF SpuriousWakeup
<1>8. ASSUME Stop PROVE Rest
  <2>1. WaitingWorkers' = {} /\ WaitingClients' = {} /\ queue' = queue
    BY <1>8 DEF Stop, WaitingWorkers, WaitingClients
  <2> QED
    BY <1>0, <2>1 DEF IInv, QueueBounded, NoIdleWorker, UntilStopped, NoStrandedClient, InlineNeverWaits
<1>9. ASSUME StopClears PROVE Rest
  <2>1. queue' = <<>> /\ spc' = "stopped" /\ worker' = worker /\ client' = client
    BY <1>9 DEF StopClears
  <2>2. Len(queue') = 0
    BY <2>1
  <2>3. WaitingClients' = WaitingClients
    BY <2>1 DEF WaitingClients
  <2> QED
    BY <1>0, <2>1, <2>2, <2>3
    DEF IInv, QueueBounded, NoIdleWorker, UntilStopped, NoStrandedClient, InlineNeverWaits
<1>10. ASSUME UNCHANGED vars PROVE Rest
  BY <1>10 DEF vars, IInv, QueueBounded, NoIdleWorker, UntilStopped, NoStrandedClient, InlineNeverWaits,
     WaitingWorkers, WokenWorkers, WaitingClients, WokenClients
<1>11. Rest
  BY <1>2, <1>3, <1>4, <1>5, <1>6, <1>7, <1>8, <1>9, <1>10 DEF Next, Worker, Client
<1> QED
  BY <1>0, <1>11 DEF IInv

-----------------------------------------------------------------------------
(* Theorems                                                                *)

\* run, take, stop and spurious wakeups keep the inductive invariant.
THEOREM PoolInvariant == Spec => []IInv
BY InitIInv, NextIInv, PTL DEF Spec

\* The variables of the pool keep their types.
THEOREM PoolTypeCorrect == Spec => []TypeOK
<1>1. IInv => TypeOK
  BY DEF IInv
<1> QED
  BY <1>1, PoolInvariant, PTL

(***************************************************************************)
(* The queue never exceeds setTaskNum's limit, for any number of clients   *)
(* woken in run at the same time.                                          *)
(***************************************************************************)
THEOREM LimitHolds == Spec => []QueueBounded
<1>1. IInv => QueueBounded
  BY DEF IInv
<1> QED
  BY <1>1, PoolInvariant, PTL

(***************************************************************************)
(* m_notEmpty.notify_one, once for each push in run, never leaves a worker *)
(* asleep in take beside a task that nobody was woken for.                 *)
(***************************************************************************)
THEOREM NotifyOneWakesEnoughWorkers == Spec => []NoIdleWorker
<1>1. IInv => NoIdleWorker
  BY DEF IInv
<1> QED
  BY <1>1, PoolInvariant, PTL

(***************************************************************************)
(* m_notFull.notify_one, once for each pop in take, never leaves a client  *)
(* asleep in run beside a free place that nobody was woken for, while the  *)
(* pool is in use and while stop joins its workers; not once stop has      *)
(* cleared the queue, which makes room and tells nobody.                   *)
(***************************************************************************)
THEOREM NotifyOneWakesEnoughClients == Spec => [](spc # "stopped" => NoStrandedClient)
<1>1. IInv => (spc # "stopped" => NoStrandedClient)
  BY DEF IInv, UntilStopped
<1> QED
  BY <1>1, PoolInvariant, PTL

(***************************************************************************)
(* Both condition variables of the pool: one notification per push and per *)
(* pop strands no worker, and no client before stop has cleared the queue. *)
(***************************************************************************)
THEOREM NotifyOneIsEnough == Spec => []NotifyOneSuffices
<1>1. NoIdleWorker /\ (spc # "stopped" => NoStrandedClient) => NotifyOneSuffices
  BY DEF NotifyOneSuffices
<1> QED
  BY <1>1, NotifyOneWakesEnoughWorkers, NotifyOneWakesEnoughClients, PTL
=============================================================================
