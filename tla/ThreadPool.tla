----------------------------- MODULE ThreadPool -----------------------------
(***************************************************************************)
(* youth/utils/ThreadPool, and the CountDownLatch by which waitForAllDone  *)
(* waits for its own task: a bounded queue of tasks with two condition     *)
(* variables, the workers that take from it, clients that put into it, and *)
(* stop.                                                                   *)
(*                                                                         *)
(* A step is what happens from taking the mutex to releasing it, in wait   *)
(* or at the end.  A thread that waits on a condition variable is moved to *)
(* "woken" by a notification or spuriously, and takes the mutex again in a *)
(* later step.                                                             *)
(***************************************************************************)
EXTENDS Naturals, Sequences, FiniteSets

CONSTANTS
  Workers,     \* threads that start may create
  Clients,     \* threads that call run and waitForAllDone
  MaxTaskNum,  \* m_maxTaskNum; 0 means no limit
  MaxTasks     \* bound: tasks given to run

ASSUME PoolAssumption ==
  /\ IsFiniteSet(Workers) /\ IsFiniteSet(Clients)
  /\ MaxTaskNum \in Nat /\ MaxTasks \in Nat

VARIABLES
  threads,  \* m_threadVec: those that start has created
  queue,    \* m_queue, of the numbers of tasks
  running,  \* m_running
  worker,   \* where each worker is
  task,     \* the task each worker runs
  client,   \* where each client is
  waits,    \* whether its call is waitForAllDone
  latch,    \* the task of waitForAllDone that it waits for
  given,    \* history: tasks put into the queue, numbered from 1
  done,     \* history: tasks that have run
  spc       \* stop: "idle", "join", "stopped"

vars == <<threads, queue, running, worker, task, client, waits, latch, given,
          done, spc>>

\* The type of every variable.
TypeOK ==
  /\ threads \subseteq Workers
  /\ queue \in Seq(Nat)
  /\ running \in BOOLEAN
  /\ worker \in [Workers -> {"idle", "taking", "waiting", "woken", "busy", "exited"}]
  /\ task \in [Workers -> Nat]
  /\ client \in [Clients -> {"idle", "waiting", "woken", "latched"}]
  /\ waits \in [Clients -> BOOLEAN]
  /\ latch \in [Clients -> Nat]
  /\ given \in Nat
  /\ done \subseteq Nat
  /\ spc \in {"idle", "join", "stopped"}

\* start(numThreads) has run.
Init ==
  /\ threads \in SUBSET Workers
  /\ queue = <<>> /\ running = TRUE
  /\ worker = [w \in Workers |-> IF w \in threads THEN "idle" ELSE "exited"]
  /\ task = [w \in Workers |-> 0]
  /\ client = [c \in Clients |-> "idle"] /\ latch = [c \in Clients |-> 0]
  /\ waits = [c \in Clients |-> FALSE]
  /\ given = 0 /\ done = {} /\ spc = "idle"

-----------------------------------------------------------------------------
(* Condition variables                                                     *)

WaitingWorkers == {w \in Workers : worker[w] = "waiting"}
WaitingClients == {c \in Clients : client[c] = "waiting"}
WokenWorkers == {w \in Workers : worker[w] = "woken"}
WokenClients == {c \in Clients : client[c] = "woken"}

\* m_notEmpty.notify_one
NotifyWorker ==
  IF WaitingWorkers = {} THEN UNCHANGED worker
  ELSE \E w \in WaitingWorkers : worker' = [worker EXCEPT ![w] = "woken"]

\* m_notFull.notify_one, by a worker
NotifyClient ==
  IF WaitingClients = {} THEN UNCHANGED client
  ELSE \E c \in WaitingClients : client' = [client EXCEPT ![c] = "woken"]

SpuriousWakeup ==
  /\ \/ /\ \E w \in WaitingWorkers : worker' = [worker EXCEPT ![w] = "woken"]
        /\ UNCHANGED client
     \/ /\ \E c \in WaitingClients : client' = [client EXCEPT ![c] = "woken"]
        /\ UNCHANGED worker
  /\ UNCHANGED <<threads, queue, running, task, waits, latch, given,
                 done, spc>>

-----------------------------------------------------------------------------
(* threadFunc and take                                                     *)

\* The test of m_running, without the mutex
TestRunning(w) ==
  /\ worker[w] = "idle"
  /\ worker' = [worker EXCEPT ![w] = IF running THEN "taking" ELSE "exited"]
  /\ UNCHANGED <<threads, queue, running, task, client, waits, latch, given, done, spc>>

\* take, when the queue is empty: wait, or return no task
TakeNothing(w) ==
  /\ worker[w] \in {"taking", "woken"}
  /\ queue = <<>>
  /\ worker' = [worker EXCEPT ![w] = IF running THEN "waiting" ELSE "idle"]
  /\ UNCHANGED <<threads, queue, running, task, client, waits, latch, given, done, spc>>

\* Mutant: nobody who waits for room is told.
Take_Silent(w) ==
  /\ worker[w] \in {"taking", "woken"}
  /\ queue # <<>>
  /\ task' = [task EXCEPT ![w] = Head(queue)]
  /\ queue' = Tail(queue)
  /\ worker' = [worker EXCEPT ![w] = "busy"]
  /\ UNCHANGED <<threads, client, running, waits, latch, given, done, spc>>

\* Mutant: the newest task is taken.
Take_Newest(w) ==
  /\ worker[w] \in {"taking", "woken"}
  /\ queue # <<>>
  /\ task' = [task EXCEPT ![w] = queue[Len(queue)]]
  /\ queue' = SubSeq(queue, 1, Len(queue) - 1)
  /\ worker' = [worker EXCEPT ![w] = "busy"]
  /\ IF MaxTaskNum > 0 THEN NotifyClient ELSE UNCHANGED client
  /\ UNCHANGED <<threads, running, waits, latch, given, done, spc>>

\* take, when there is a task
Take(w) ==
  /\ worker[w] \in {"taking", "woken"}
  /\ queue # <<>>
  /\ task' = [task EXCEPT ![w] = Head(queue)]
  /\ queue' = Tail(queue)
  /\ worker' = [worker EXCEPT ![w] = "busy"]
  /\ IF MaxTaskNum > 0 THEN NotifyClient ELSE UNCHANGED client
  /\ UNCHANGED <<threads, running, waits, latch, given, done, spc>>

\* The task returns; that of waitForAllDone has counted its latch down.
TaskReturns(w) ==
  /\ worker[w] = "busy"
  /\ done' = done \cup {task[w]}
  /\ worker' = [worker EXCEPT ![w] = "idle"]
  /\ UNCHANGED <<threads, queue, running, task, client, waits, latch, given, spc>>

-----------------------------------------------------------------------------
(* run and waitForAllDone                                                  *)

IsFull == MaxTaskNum > 0 /\ Len(queue) >= MaxTaskNum

\* A client's task gets the next number; waitForAllDone waits at its latch.
Given(c, wait) ==
  /\ given' = given + 1
  /\ latch' = [latch EXCEPT ![c] = given + 1]
  /\ client' = [client EXCEPT ![c] = IF wait THEN "latched" ELSE "idle"]

\* Mutant: no worker is told.
RunTask_Silent(c, wait) ==
  IF IsFull /\ threads # {}
  THEN /\ client' = [client EXCEPT ![c] = "waiting"]
       /\ UNCHANGED <<queue, worker, latch, given, done>>
  ELSE /\ Given(c, wait)
       /\ IF threads = {}
          THEN done' = done \cup {given + 1} /\ UNCHANGED <<queue, worker>>
          ELSE queue' = Append(queue, given + 1) /\ UNCHANGED <<done, worker>>

\* run, from taking the mutex on; without workers the caller runs the task.
RunTask(c, wait) ==
  IF IsFull /\ threads # {}
  THEN /\ client' = [client EXCEPT ![c] = "waiting"]
       /\ UNCHANGED <<queue, worker, latch, given, done>>
  ELSE /\ Given(c, wait)
       /\ IF threads = {}
          THEN done' = done \cup {given + 1} /\ UNCHANGED <<queue, worker>>
          ELSE queue' = Append(queue, given + 1) /\ NotifyWorker /\ UNCHANGED done

Run(c) ==
  /\ client[c] = "idle"
  /\ given < MaxTasks
  /\ waits' = [waits EXCEPT ![c] = FALSE]
  /\ RunTask(c, FALSE)
  /\ UNCHANGED <<threads, running, task, spc>>

\* waitForAllDone, up to latch.wait
WaitForAllDone(c) ==
  /\ client[c] = "idle"
  /\ given < MaxTasks
  /\ waits' = [waits EXCEPT ![c] = TRUE]
  /\ RunTask(c, TRUE)
  /\ UNCHANGED <<threads, running, task, spc>>

\* run after m_notFull.wait
RunAgain(c) ==
  /\ client[c] = "woken"
  /\ RunTask(c, waits[c])
  /\ UNCHANGED <<threads, running, task, waits, spc>>

\* latch.wait returns, and waitForAllDone with it.
LatchOpens(c) ==
  /\ client[c] = "latched"
  /\ latch[c] \in done
  /\ client' = [client EXCEPT ![c] = "idle"]
  /\ UNCHANGED <<threads, queue, running, worker, task, waits, latch, given, done, spc>>

-----------------------------------------------------------------------------
(* stop                                                                    *)

\* Mutant: nobody who waits is told.
Stop_Silent ==
  /\ spc = "idle"
  /\ spc' = "join"
  /\ running' = FALSE
  /\ UNCHANGED <<threads, queue, worker, task, client, waits, latch, given, done>>

Stop ==
  /\ spc = "idle"
  /\ spc' = "join"
  /\ running' = FALSE
  /\ worker' = [w \in Workers |-> IF worker[w] = "waiting" THEN "woken" ELSE worker[w]]
  /\ client' = [c \in Clients |-> IF client[c] = "waiting" THEN "woken" ELSE client[c]]
  /\ UNCHANGED <<threads, queue, task, waits, latch, given, done>>

\* The workers are joined and the queue is cleared, without the mutex.
StopClears ==
  /\ spc = "join"
  /\ \A w \in Workers : worker[w] = "exited"
  /\ spc' = "stopped"
  /\ queue' = <<>>
  /\ UNCHANGED <<threads, running, worker, task, client, waits, latch, given, done>>

-----------------------------------------------------------------------------

Worker(w) == TestRunning(w) \/ TakeNothing(w) \/ Take(w) \/ TaskReturns(w)
Client(c) == Run(c) \/ WaitForAllDone(c) \/ RunAgain(c) \/ LatchOpens(c)

Next ==
  \/ \E w \in Workers : Worker(w)
  \/ \E c \in Clients : Client(c)
  \/ SpuriousWakeup \/ Stop \/ StopClears

Spec == Init /\ [][Next]_vars

\* Threads that can go on do; nobody has to call run, and nobody to stop.
FairSpec ==
  /\ Spec
  /\ \A w \in Workers : WF_vars(Worker(w))
  /\ \A c \in Clients : WF_vars(RunAgain(c) \/ LatchOpens(c))
  /\ WF_vars(StopClears)

-----------------------------------------------------------------------------
(* Properties                                                              *)

\* setTaskNum's limit holds, however run and take interleave.
QueueBounded == MaxTaskNum > 0 => Len(queue) <= MaxTaskNum

(***************************************************************************)
(* notify_one in run is enough: while a worker sleeps in take, every task  *)
(* in the queue has a worker that was woken for it.                        *)
(***************************************************************************)
NoIdleWorker == WaitingWorkers # {} => Len(queue) <= Cardinality(WokenWorkers)

(***************************************************************************)
(* notify_one in take is enough: while a client sleeps in run, every free  *)
(* place in the queue has a client that was woken for it.                  *)
(***************************************************************************)
NoStrandedClient ==
  WaitingClients # {} => MaxTaskNum <= Len(queue) + Cardinality(WokenClients)

(***************************************************************************)
(* One notify_one for each push in run and one for each pop in take: the   *)
(* two condition variables leave nobody asleep beside work or room for it: *)
(* no worker, and no client until stop is over.  Excepted are clients      *)
(* afterwards: run does not look at m_running, so that a client that stop  *)
(* woke, or that comes later, waits for room in the full queue, which      *)
(* stop then clears without telling anybody (ThreadPool.cpp:55); it sleeps *)
(* for ever beside free places.                                            *)
(***************************************************************************)
NotifyOneSuffices == NoIdleWorker /\ (spc # "stopped" => NoStrandedClient)

(***************************************************************************)
(* waitForAllDone, which ThreadPoolTest calls before it reads its count:   *)
(* when it returns, a task given to run before it is done or, if there is  *)
(* more than one worker, still being run by another one.                   *)
(***************************************************************************)
AllDone ==
  [][\A c \in Clients : client[c] = "latched" /\ client'[c] = "idle" =>
       \A i \in 1..latch[c] \ done :
         \E w \in threads : worker[w] = "busy" /\ task[w] = i]_vars

\* stop joins every worker and returns, whatever they were waiting for.
StopReturns == (spc = "join") ~> (spc = "stopped")
=============================================================================
