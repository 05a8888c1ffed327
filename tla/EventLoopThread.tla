-------------------------- MODULE EventLoopThread ---------------------------
(***************************************************************************)
(* youth/net/EventLoopThread over youth/core/Thread: a thread that owns an *)
(* EventLoop on its stack, publishes its address in m_loop, and runs it;   *)
(* and the owner, which waits in startLoop() for that address and whose    *)
(* destructor quits the loop and joins the thread.  The loop itself is the *)
(* one of EventLoop.tla.                                                   *)
(*                                                                         *)
(* The destructor reads m_loop without the mutex, twice (the test and the  *)
(* call); whatever the second read can give is a choice of the model.      *)
(***************************************************************************)
EXTENDS EventLoop

CONSTANT Owner   \* the thread that owns the EventLoopThread

ASSUME OwnerAssumption == Owner \in Callers

VARIABLES
  opc,       \* where the owner is
  tpc,       \* where the thread is
  mloop,     \* m_loop # nullptr
  otherQuit  \* history: quit() was called by someone other than the destructor

tvars == <<opc, tpc, mloop, otherQuit>>

allVars == <<vars, tvars>>

(***************************************************************************)
(* "new": constructed; "check", "sleep": at the test of m_loop in          *)
(* startLoop and in m_cond.wait; "started": startLoop has returned;        *)
(* "quit", "join", "members": in the destructor.  The destructor ends in   *)
(* "done", or in "detached" (~Thread detached a thread that still uses the *)
(* object), "terminated" (~std::thread of a joinable thread) or            *)
(* "undefined" (quit() called through a pointer to no loop).               *)
(***************************************************************************)
OwnerPCs == {"new", "check", "sleep", "started", "quit", "join", "members",
             "done", "detached", "terminated", "undefined"}

ThreadPCs == {"none", "created", "callback", "published", "looping",
              "returned", "nulled", "destroyed", "finished"}

\* The type of every variable.
ThreadTypeOK ==
  /\ TypeOK
  /\ opc \in OwnerPCs
  /\ tpc \in ThreadPCs
  /\ mloop \in BOOLEAN
  /\ otherQuit \in BOOLEAN

ThreadInit ==
  /\ Init
  /\ opc = "new"
  /\ tpc = "none"
  /\ mloop = FALSE
  /\ otherQuit = FALSE

LoopExists == tpc \in {"callback", "published", "looping", "returned", "nulled"}

-----------------------------------------------------------------------------
(* The owner                                                               *)

\* startLoop: m_thread.start() ...
OwnerStart ==
  /\ opc = "new"
  /\ opc' = "check"
  /\ tpc' = "created"
  /\ UNCHANGED <<vars, mloop, otherQuit>>

\* Mutant: the wait is not in a loop that tests m_loop again.
OwnerCheck_If ==
  /\ opc = "check"
  /\ opc' = IF tpc = "created" /\ ~mloop THEN "sleep" ELSE "started"
  /\ UNCHANGED <<vars, tpc, mloop, otherQuit>>

\* ... and, under the mutex, while (m_loop == NULL) m_cond.wait(lock)
OwnerCheck ==
  /\ opc = "check"
  /\ opc' = IF mloop THEN "started" ELSE "sleep"
  /\ UNCHANGED <<vars, tpc, mloop, otherQuit>>

SpuriousWakeup ==
  /\ opc = "sleep"
  /\ opc' = "check"
  /\ UNCHANGED <<vars, tpc, mloop, otherQuit>>

\* ~EventLoopThread: if (m_loop != nullptr)
OwnerDestroy ==
  /\ opc \in {"new", "started"}
  /\ cpc[Owner] = "idle"
  /\ opc' = IF mloop THEN "quit" ELSE "members"
  /\ UNCHANGED <<vars, tpc, mloop, otherQuit>>

\* Mutant: the destructor joins without asking the loop to quit.
OwnerQuit_Forgotten ==
  /\ opc = "quit"
  /\ opc' = "join"
  /\ UNCHANGED <<vars, tpc, mloop, otherQuit>>

\* m_loop->quit().  Between the two reads the loop may have gone.
OwnerQuit ==
  /\ opc = "quit"
  /\ \/ /\ LoopExists
        /\ quit' = TRUE
        /\ opc' = "join"
     \/ /\ ~mloop
        /\ UNCHANGED quit
        /\ opc' = "undefined"
  /\ UNCHANGED <<lpc, calling, evfd, active, pending, functors, cpc, history,
                 tpc, mloop, otherQuit>>

OwnerJoin ==
  /\ opc = "join"
  /\ tpc = "finished"
  /\ opc' = "done"
  /\ UNCHANGED <<vars, tpc, mloop, otherQuit>>

\* ~Thread, reached without join()
OwnerMembers ==
  /\ opc = "members"
  /\ opc' = CASE tpc = "none"     -> "done"
              [] tpc = "finished" -> "terminated"
              [] OTHER            -> "detached"
  /\ UNCHANGED <<vars, tpc, mloop, otherQuit>>

-----------------------------------------------------------------------------
(* The thread                                                              *)

\* EventLoop loop;
ThreadConstruct ==
  /\ tpc = "created"
  /\ tpc' = "callback"
  /\ UNCHANGED <<vars, opc, mloop, otherQuit>>

\* Mutant: notify_one is forgotten.
ThreadPublish_NoNotify ==
  /\ tpc = "callback"
  /\ tpc' = "published"
  /\ mloop' = TRUE
  /\ UNCHANGED <<vars, opc, otherQuit>>

\* The callback has returned: m_loop = &loop; m_cond.notify_one()
ThreadPublish ==
  /\ tpc = "callback"
  /\ tpc' = "published"
  /\ mloop' = TRUE
  /\ opc' = IF opc = "sleep" THEN "check" ELSE opc
  /\ UNCHANGED <<vars, otherQuit>>

ThreadLoop ==
  /\ tpc = "published"
  /\ StartLoop
  /\ tpc' = "looping"
  /\ UNCHANGED <<opc, mloop, otherQuit>>

\* A step of loop(); the one that leaves it returns to threadFunc.
InLoop(A) ==
  /\ tpc = "looping"
  /\ A
  /\ tpc' = IF lpc' = "idle" THEN "returned" ELSE "looping"
  /\ UNCHANGED <<opc, mloop, otherQuit>>

ThreadNull ==
  /\ tpc = "returned"
  /\ tpc' = "nulled"
  /\ mloop' = FALSE
  /\ UNCHANGED <<vars, opc, otherQuit>>

\* The mutex is released, the EventLoop on the stack is destroyed.
ThreadDestroyLoop ==
  /\ tpc = "nulled"
  /\ tpc' = "destroyed"
  /\ UNCHANGED <<vars, opc, mloop, otherQuit>>

\* Back in Thread::threadFunc: m_running = false
ThreadFinish ==
  /\ tpc = "destroyed"
  /\ tpc' = "finished"
  /\ UNCHANGED <<vars, opc, mloop, otherQuit>>

Thread ==
  \/ ThreadConstruct \/ ThreadPublish \/ ThreadLoop \/ InLoop(Iterate)
  \/ ThreadNull \/ ThreadDestroyLoop \/ ThreadFinish

-----------------------------------------------------------------------------
(* The users of the loop: the init callback, handlers and functors in the  *)
(* loop's thread, the owner between startLoop and the destructor, and      *)
(* threads that got the loop from one of them.                             *)

UserInThread ==
  /\ tpc \in {"callback", "looping"}
  /\ User
  /\ otherQuit' = (otherQuit \/ UserQuit)
  /\ UNCHANGED <<opc, tpc, mloop>>

\* The owner uses the loop until it destroys the object.
MayUse(c) == LoopExists /\ (c = Owner => opc = "started")

CallerStep(c) ==
  /\ MayUse(c)
  /\ Caller(c)
  /\ otherQuit' = (otherQuit \/ CallerQuit(c))
  /\ UNCHANGED <<opc, tpc, mloop>>

-----------------------------------------------------------------------------

OwnerGoesOn == OwnerCheck \/ OwnerQuit \/ OwnerJoin \/ OwnerMembers

ThreadNext ==
  \/ OwnerStart \/ OwnerDestroy \/ SpuriousWakeup \/ OwnerGoesOn
  \/ Thread \/ InLoop(PollReady) \/ InLoop(PollTimeout)
  \/ UserInThread
  \/ \E c \in Callers : CallerStep(c)

ThreadSpec == ThreadInit /\ [][ThreadNext]_allVars

(***************************************************************************)
(* The threads run when they can, as in EventLoop.tla: epoll_wait returns  *)
(* when the eventfd is ready and a caller that has pushed goes on to its   *)
(* wakeup.  Nobody has to start the thread, destroy the object or wake up  *)
(* spuriously, and epoll_wait is not assumed to time out.                  *)
(***************************************************************************)
ThreadFairSpec ==
  /\ ThreadSpec
  /\ WF_allVars(OwnerGoesOn)
  /\ WF_allVars(Thread)
  /\ WF_allVars(InLoop(PollWoken))
  /\ \A c \in Callers :
       WF_allVars(MayUse(c) /\ CallerWakeup(c) /\ UNCHANGED tvars)

-----------------------------------------------------------------------------

(***************************************************************************)
(* As long as only the destructor quits the loop, the destructor never     *)
(* calls quit() through a stale m_loop, never detaches a thread that still *)
(* uses the object, and never destroys a joinable std::thread              *)
(* (EventLoopThread.cpp:20-27, Thread.cc:24-30).  A functor that quits the *)
(* loop opens all three.                                                   *)
(***************************************************************************)
CleanShutdown == opc \in {"undefined", "detached", "terminated"} => otherQuit

(***************************************************************************)
(* startLoop returns, unless someone quits the loop before the owner has   *)
(* seen m_loop: threadFunc sets it back to nullptr without a word.         *)
(***************************************************************************)
StartReturns == (opc = "check") ~> (opc = "started" \/ otherQuit)

(***************************************************************************)
(* A destructor that finds the loop looping joins the thread: the wait for *)
(* the poll timeout (quit() does not wake the loop) is all it costs.  One  *)
(* that comes after m_loop is published and before loop() clears m_quit    *)
(* ("FIXME: what if someone calls quit() before loop() ?",                 *)
(* EventLoop.cpp:70) waits for ever, so a loop still idle is left out.     *)
(***************************************************************************)
DestructorJoins ==
  PollTimesOut =>
    ((opc = "quit" /\ lpc # "idle") ~> (opc = "done" \/ otherQuit))

(***************************************************************************)
(* The owner of an EventLoopThread gets out of startLoop and out of the    *)
(* destructor, as far as the two above say.                                *)
(***************************************************************************)
OwnerReturns == StartReturns /\ DestructorJoins
=============================================================================
