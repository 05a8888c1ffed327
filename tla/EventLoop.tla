----------------------------- MODULE EventLoop ------------------------------
(***************************************************************************)
(* youth/net/EventLoop: one thread that polls, dispatches the active       *)
(* channels and then runs the functors that were queued for it.  Any       *)
(* thread may queue a functor; a thread other than the loop's then writes  *)
(* the wakeup eventfd, in a step of its own after the mutex is released.   *)
(*                                                                         *)
(* The loop thread's own call of queueInLoop is one step: no other thread  *)
(* reads m_pendingFunctors, m_callingPendingFunctors or the eventfd, so    *)
(* nothing can be observed between its push and its wakeup.  The same goes *)
(* for setting m_callingPendingFunctors and the swap that follows it.      *)
(***************************************************************************)
EXTENDS Naturals, Sequences, FiniteSets

CONSTANTS
  Callers,   \* the other threads that use the loop
  Functors   \* the functors; each one is handed to the loop at most once

VARIABLES
  lpc,        \* where the loop thread is
  quit,       \* m_quit
  calling,    \* m_callingPendingFunctors
  evfd,       \* the counter behind m_wakeupFd
  active,     \* m_activeChannels: of the wakeup channel and one I/O channel
  pending,    \* m_pendingFunctors
  functors,   \* the local vector of doPendingFunctors, not yet run
  cpc,        \* where each caller is inside queueInLoop
  ran,        \* history: the queued functors run so far, in order
  submitted,  \* history: the functors pushed so far, in order
  early,      \* history: pushed by the loop's thread outside loop()
  direct      \* history: run inside runInLoop, without being queued

vars == <<lpc, quit, calling, evfd, active, pending, functors, cpc,
          ran, submitted, early, direct>>

history == <<ran, submitted, early, direct>>

LoopChannels == {"wakeup", "io"}

(***************************************************************************)
(* "idle": the loop's thread is outside loop(); "check": at while(!quit);  *)
(* "poll": in epoll_wait; "dispatch": in the for over m_activeChannels;    *)
(* "io": in the handler of the I/O channel; "run": in the for over the     *)
(* functors; "functor": inside one of them.                                *)
(***************************************************************************)
LoopPCs == {"idle", "check", "poll", "dispatch", "io", "run", "functor"}

\* The type of every variable.
TypeOK ==
  /\ lpc \in LoopPCs
  /\ quit \in BOOLEAN
  /\ calling \in BOOLEAN
  /\ evfd \in Nat
  /\ active \in SUBSET LoopChannels
  /\ pending \in Seq(Functors)
  /\ functors \in Seq(Functors)
  /\ cpc \in [Callers -> {"idle", "pushed"}]
  /\ ran \in Seq(Functors)
  /\ submitted \in Seq(Functors)
  /\ early \in SUBSET Functors
  /\ direct \in SUBSET Functors

Elements(s) == {s[i] : i \in DOMAIN s}

Fresh(f) == f \notin Elements(submitted) \cup direct

Init ==
  /\ lpc = "idle"
  /\ quit = FALSE
  /\ calling = FALSE
  /\ evfd = 0
  /\ active = {}
  /\ pending = <<>>
  /\ functors = <<>>
  /\ cpc = [c \in Callers |-> "idle"]
  /\ ran = <<>>
  /\ submitted = <<>>
  /\ early = {}
  /\ direct = {}

-----------------------------------------------------------------------------
(* Calls from other threads.                                               *)

Push(f) ==
  /\ pending' = Append(pending, f)
  /\ submitted' = Append(submitted, f)

Wakeup == evfd' = evfd + 1

\* runInLoop and queueInLoop are the same from another thread: push ...
CallerQueueInLoop(c, f) ==
  /\ cpc[c] = "idle"
  /\ Fresh(f)
  /\ Push(f)
  /\ cpc' = [cpc EXCEPT ![c] = "pushed"]
  /\ UNCHANGED <<lpc, quit, calling, evfd, active, functors, ran, early, direct>>

\* Mutant: the loop is not woken while it is busy with functors.
CallerWakeup_SkippedWhenCalling(c) ==
  /\ cpc[c] = "pushed"
  /\ IF calling THEN UNCHANGED evfd ELSE Wakeup
  /\ cpc' = [cpc EXCEPT ![c] = "idle"]
  /\ UNCHANGED <<lpc, quit, calling, active, pending, functors, history>>

\* ... and, the mutex released, wake the loop.
CallerWakeup(c) ==
  /\ cpc[c] = "pushed"
  /\ Wakeup
  /\ cpc' = [cpc EXCEPT ![c] = "idle"]
  /\ UNCHANGED <<lpc, quit, calling, active, pending, functors, history>>

CallerQuit(c) ==
  /\ cpc[c] = "idle"
  /\ quit' = TRUE
  /\ UNCHANGED <<lpc, calling, evfd, active, pending, functors, cpc, history>>

-----------------------------------------------------------------------------
(* Calls from code that runs in the loop's thread: before and after loop(),*)
(* in a channel's handler, and in a functor.                               *)

InUserCode == lpc \in {"idle", "io", "functor"}

\* Mutant: wakeup only from other threads (no m_callingPendingFunctors test).
UserQueueInLoop_NoWakeup(f) ==
  /\ InUserCode
  /\ Fresh(f)
  /\ Push(f)
  /\ early' = IF lpc = "idle" THEN early \cup {f} ELSE early
  /\ UNCHANGED <<lpc, quit, calling, evfd, active, functors, cpc, ran, direct>>

UserQueueInLoop(f) ==
  /\ InUserCode
  /\ Fresh(f)
  /\ Push(f)
  /\ IF calling THEN Wakeup ELSE UNCHANGED evfd
  /\ early' = IF lpc = "idle" THEN early \cup {f} ELSE early
  /\ UNCHANGED <<lpc, quit, calling, active, functors, cpc, ran, direct>>

UserRunInLoop(f) ==
  /\ InUserCode
  /\ Fresh(f)
  /\ direct' = direct \cup {f}
  /\ UNCHANGED <<lpc, quit, calling, evfd, active, pending, functors, cpc,
                 ran, submitted, early>>

UserQuit ==
  /\ InUserCode
  /\ quit' = TRUE
  /\ UNCHANGED <<lpc, calling, evfd, active, pending, functors, cpc, history>>

-----------------------------------------------------------------------------
(* loop()                                                                  *)

StartLoop ==
  /\ lpc = "idle"
  /\ quit' = FALSE
  /\ lpc' = "check"
  /\ UNCHANGED <<calling, evfd, active, pending, functors, cpc, history>>

CheckQuit ==
  /\ lpc = "check"
  /\ lpc' = IF quit THEN "idle" ELSE "poll"
  /\ UNCHANGED <<quit, calling, evfd, active, pending, functors, cpc, history>>

\* epoll_wait is level-triggered: the eventfd is ready while it is not 0.
PollReady ==
  /\ lpc = "poll"
  /\ active' \in SUBSET LoopChannels \ {{}}
  /\ "wakeup" \in active' <=> evfd > 0
  /\ lpc' = "dispatch"
  /\ UNCHANGED <<quit, calling, evfd, pending, functors, cpc, history>>

\* kPollTimeMs has passed, or a signal interrupted the wait.
PollTimeout ==
  /\ lpc = "poll"
  /\ evfd = 0
  /\ active' = {}
  /\ lpc' = "dispatch"
  /\ UNCHANGED <<quit, calling, evfd, pending, functors, cpc, history>>

\* EventLoop::handleRead, the wakeup channel's read callback
HandleRead ==
  /\ lpc = "dispatch"
  /\ "wakeup" \in active
  /\ active' = active \ {"wakeup"}
  /\ evfd' = 0
  /\ UNCHANGED <<lpc, quit, calling, pending, functors, cpc, history>>

HandleIo ==
  /\ lpc = "dispatch"
  /\ "io" \in active
  /\ active' = active \ {"io"}
  /\ lpc' = "io"
  /\ UNCHANGED <<quit, calling, evfd, pending, functors, cpc, history>>

IoHandled ==
  /\ lpc = "io"
  /\ lpc' = "dispatch"
  /\ UNCHANGED <<quit, calling, evfd, active, pending, functors, cpc, history>>

SwapPendingFunctors ==
  /\ lpc = "dispatch"
  /\ active = {}
  /\ calling' = TRUE
  /\ functors' = pending
  /\ pending' = <<>>
  /\ lpc' = "run"
  /\ UNCHANGED <<quit, evfd, active, cpc, history>>

\* Mutant: the vector is used as a stack.
RunFunctor_Last ==
  /\ lpc = "run"
  /\ functors # <<>>
  /\ ran' = Append(ran, functors[Len(functors)])
  /\ functors' = SubSeq(functors, 1, Len(functors) - 1)
  /\ lpc' = "functor"
  /\ UNCHANGED <<quit, calling, evfd, active, pending, cpc,
                 submitted, early, direct>>

RunFunctor ==
  /\ lpc = "run"
  /\ functors # <<>>
  /\ ran' = Append(ran, Head(functors))
  /\ functors' = Tail(functors)
  /\ lpc' = "functor"
  /\ UNCHANGED <<quit, calling, evfd, active, pending, cpc,
                 submitted, early, direct>>

FunctorReturns ==
  /\ lpc = "functor"
  /\ lpc' = "run"
  /\ UNCHANGED <<quit, calling, evfd, active, pending, functors, cpc, history>>

PendingFunctorsDone ==
  /\ lpc = "run"
  /\ functors = <<>>
  /\ calling' = FALSE
  /\ lpc' = "check"
  /\ UNCHANGED <<quit, evfd, active, pending, functors, cpc, history>>

-----------------------------------------------------------------------------

Iterate ==
  \/ CheckQuit \/ HandleRead \/ HandleIo \/ IoHandled
  \/ SwapPendingFunctors \/ RunFunctor \/ FunctorReturns
  \/ PendingFunctorsDone

Loop == StartLoop \/ PollReady \/ PollTimeout \/ Iterate

User == UserQuit \/ \E f \in Functors : UserQueueInLoop(f) \/ UserRunInLoop(f)

Caller(c) ==
  \/ \E f \in Functors : CallerQueueInLoop(c, f)
  \/ CallerWakeup(c)
  \/ CallerQuit(c)

Next == Loop \/ User \/ \E c \in Callers : Caller(c)

Spec == Init /\ [][Next]_vars

(***************************************************************************)
(* A thread that may run does run: the loop thread keeps iterating (the    *)
(* handlers and functors return), epoll_wait returns when the eventfd is   *)
(* ready, and a caller that has pushed goes on to its wakeup.  Nothing     *)
(* makes anyone call the loop, start it or quit it, no I/O is assumed, and *)
(* epoll_wait is not assumed to time out.                                  *)
(***************************************************************************)
PollWoken == evfd > 0 /\ PollReady

Fairness ==
  /\ WF_vars(Iterate)
  /\ WF_vars(PollWoken)
  /\ \A c \in Callers : WF_vars(CallerWakeup(c))

FairSpec == Spec /\ Fairness

\* epoll_wait does return after kPollTimeMs at the latest.
PollTimesOut == WF_vars(PollTimeout)

-----------------------------------------------------------------------------
(* Safety                                                                  *)

WakeupOnItsWay == evfd > 0 \/ \E c \in Callers : cpc[c] = "pushed"

LatePending == \E i \in DOMAIN pending : pending[i] \notin early

(***************************************************************************)
(* The loop never sleeps on work it was told about: when it is in          *)
(* epoll_wait with a functor pending, the eventfd is readable or a caller  *)
(* is about to write it (queueInLoop, EventLoop.cpp:104-113).  The one     *)
(* exception is a functor the loop's own thread queued before loop(): no   *)
(* wakeup is sent for it, and it waits for the poll timeout.               *)
(***************************************************************************)
NoLostWakeup == lpc = "poll" /\ LatePending => WakeupOnItsWay

(***************************************************************************)
(* No functor is lost, duplicated or reordered by the push, the swap and   *)
(* the run of the batch (doPendingFunctors, EventLoop.cpp:195-207): what   *)
(* was run, what is left of the batch and what is pending make up, in that *)
(* order, exactly what was pushed.                                         *)
(***************************************************************************)
FifoExactlyOnce == submitted = ran \o (functors \o pending)

(***************************************************************************)
(* doPendingFunctors runs the functors that were pending when it began,    *)
(* and none that these queue in turn: a functor that queues itself again   *)
(* cannot keep the loop from polling.                                      *)
(***************************************************************************)
BatchIsFixed ==
  [][(lpc \in {"run", "functor"}) => (Len(functors') <= Len(functors))]_vars

\* The inductive invariant behind NoLostWakeup and FifoExactlyOnce.
IInv ==
  /\ TypeOK
  /\ calling <=> lpc \in {"run", "functor"}
  /\ lpc \notin {"run", "functor"} => functors = <<>>
  /\ lpc \notin {"dispatch", "io"} /\ LatePending => WakeupOnItsWay
  /\ FifoExactlyOnce

-----------------------------------------------------------------------------
(* The promise, and liveness                                               *)

Exec == INSTANCE Executor WITH queue <- functors \o pending

(***************************************************************************)
(* The loop implements the first-in first-out executor of Executor.tla,    *)
(* with the batch being run and the pending functors as its queue.         *)
(***************************************************************************)
IsExecutor == Exec!Spec

(***************************************************************************)
(* A functor queued for a looping loop is run, unless the loop is quit:    *)
(* the wakeup alone (no I/O, no timeout) brings the loop to it.            *)
(***************************************************************************)
WakeupRunsFunctor ==
  \A f \in Functors :
    (f \in Elements(submitted) \ early) ~> (f \in Elements(ran) \/ lpc = "idle")

=============================================================================
