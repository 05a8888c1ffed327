----------------------------- MODULE TimerQueue -----------------------------
(***************************************************************************)
(* youth/net/TimerQueue with Timer and the timer calls of EventLoop: the   *)
(* two sorted sets of timers, the timerfd that is armed for the earliest   *)
(* one, and addTimer/cancel called by callbacks in the loop's thread and   *)
(* by other threads.  Timers are raw pointers: an address freed by cancel  *)
(* or reset may be given to the next timer, and only the sequence number   *)
(* tells the two apart.                                                    *)
(*                                                                         *)
(* The loop's pending functors are a queue that is run in order, which is  *)
(* what EventLoop.tla shows of them.  Time is counted in half seconds: the *)
(* least that tells a delay from the whole seconds addSeconds keeps of it. *)
(* clock is the wall clock, which someone may set back; the timerfd runs   *)
(* on CLOCK_MONOTONIC.                                                     *)
(***************************************************************************)
EXTENDS Integers, Sequences, FiniteSets

CONSTANTS
  Callers,   \* the other threads
  Addrs,     \* the addresses operator new may return
  Delays,    \* the delays and intervals asked for, in half seconds
  Whens,     \* the times asked for in runAt; 0 is an invalid DateTime
  MaxSeq,    \* bound: timers created
  MaxQueue,  \* bound: functors pending when another cancel is queued
  MaxTime,   \* bound: the clock
  MaxBack    \* bound: times the clock is set back

ASSUME TimerAssumption ==
  /\ Addrs \subseteq Nat
  /\ Delays \subseteq Nat
  /\ Whens \subseteq Nat
  /\ MaxSeq \in Nat /\ MaxQueue \in Nat /\ MaxTime \in Nat /\ MaxBack \in Nat

Free == [seq |-> -1, exp |-> -1, ivl |-> -1]

Disarmed == -1

Garbage == -2

VARIABLES
  clock,      \* DateTime::currentDateTime()
  back,       \* how often the clock was set back
  left,       \* the timerfd: Disarmed, 0 (expired, not read) or time left
  lpc,        \* where the loop is in its iteration
  now,        \* m_pollReturnTime
  ready,      \* the timerfd's channel is active and not yet handled
  heap,       \* the timers: address -> timer
  nextSeq,    \* Timer::m_numCreated
  timers,     \* m_timers: pairs <<expiration, address>>
  activeTimers, cancelingTimers,  \* pairs <<address, sequence>>
  batch,      \* expired, the local of handleRead
  todo,       \* the part of it whose callbacks have not started
  queue,      \* the functors addTimerInLoop(timer), cancelInLoop(id) pending
  cpc,        \* callers between the push and the return of addTimer
  ids,        \* the TimerIds handed out
  fired, cancelled,  \* histories: sequences of timers that ran, that cancel was called for
  early       \* history: those cancelled while addTimerInLoop was still queued

vars == <<clock, back, left, lpc, now, ready, heap, nextSeq, timers,
          activeTimers, cancelingTimers, batch, todo, queue, cpc, ids,
          fired, cancelled, early>>

clockVars == <<clock, back>>
loopVars  == <<lpc, now, ready, batch, todo>>
setVars   == <<timers, activeTimers, cancelingTimers>>
history   == <<fired, cancelled, early>>

Timer == [seq : Nat, exp : Nat, ivl : Nat]

NoCall == [addr |-> -1, seq |-> -1]

Functor == [op : {"add", "cancel"}, addr : Addrs, seq : Int]

\* The type of every variable.
TypeOK ==
  /\ clock \in Nat /\ back \in Nat /\ now \in Nat /\ nextSeq \in Nat
  /\ left \in Nat \cup {Disarmed}
  /\ lpc \in {"poll", "dispatch", "batch", "functors"}
  /\ ready \in BOOLEAN
  /\ heap \in [Addrs -> Timer \cup {Free}]
  /\ timers \in SUBSET (Nat \X Addrs)
  /\ activeTimers \in SUBSET (Addrs \X Int)
  /\ cancelingTimers \in SUBSET (Addrs \X Int)
  /\ batch \in SUBSET (Nat \X Addrs) /\ todo \in SUBSET batch
  /\ queue \in Seq(Functor)
  /\ cpc \in [Callers -> [addr : Addrs, seq : Nat] \cup {NoCall}]
  /\ ids \in SUBSET (Addrs \X Int)
  /\ fired \in SUBSET Int /\ cancelled \in SUBSET Int /\ early \in SUBSET Int

Init ==
  /\ clock = 1 /\ back = 0 /\ left = Disarmed
  /\ lpc = "poll" /\ now = 0 /\ ready = FALSE
  /\ heap = [a \in Addrs |-> Free] /\ nextSeq = 0
  /\ timers = {} /\ activeTimers = {} /\ cancelingTimers = {}
  /\ batch = {} /\ todo = {} /\ queue = <<>>
  /\ cpc = [c \in Callers |-> NoCall] /\ ids = {}
  /\ fired = {} /\ cancelled = {} /\ early = {}

-----------------------------------------------------------------------------
(* Time                                                                    *)

\* addSeconds(int64_t) given a double: the fraction of a second is dropped.
AddSeconds(time, d) == time + 2 * (d \div 2)

\* howMuchTimeFromNow; its least value, 100 microseconds, is no time here.
HowMuchTimeFromNow(when) == IF when <= clock THEN 0 ELSE when - clock

ResetTimerfd(when) == left' = HowMuchTimeFromNow(when)

\* A timerfd that was set again since it expired is not readable.
ReadTimerfd == left' = IF left = 0 THEN Disarmed ELSE left

Tick ==
  /\ clock < MaxTime
  /\ clock' = clock + 1
  /\ left' = IF left > 0 THEN left - 1 ELSE left
  /\ UNCHANGED <<back, loopVars, heap, nextSeq, setVars, queue, cpc, ids, history>>

SetClockBack ==
  /\ back < MaxBack
  /\ clock > 1
  /\ clock' = clock - 1
  /\ back' = back + 1
  /\ UNCHANGED <<left, loopVars, heap, nextSeq, setVars, queue, cpc, ids, history>>

-----------------------------------------------------------------------------
(* Timers                                                                  *)

\* The timers runAt, runAfter and runEvery create, but for their sequence.
RunAt(t)    == [exp |-> t, ivl |-> 0]
RunAfter(d) == [exp |-> AddSeconds(clock, d), ivl |-> 0]
RunEvery(d) == [exp |-> AddSeconds(clock, d), ivl |-> d]

Requests == {RunAt(t) : t \in Whens} \cup {RunAfter(d) : d \in Delays}
            \cup {RunEvery(d) : d \in Delays}

NewTimer(r) == [seq |-> nextSeq, exp |-> r.exp, ivl |-> r.ivl]

Repeat(t) == t.ivl > 0

\* Timer::restart
Restart(t) == [t EXCEPT !.exp = AddSeconds(now, t.ivl)]

Allocate(a, r) ==
  /\ nextSeq < MaxSeq
  /\ heap[a] = Free
  /\ heap' = [heap EXCEPT ![a] = NewTimer(r)]
  /\ nextSeq' = nextSeq + 1

\* Mutant: the timerfd is armed only for the first timer.
EarliestChanged_FirstOnly(t) == timers = {}

\* insert's result: no entry, or the first one is later.
EarliestChanged(t) == \A e \in timers : t.exp < e[1]

AddTimerInLoop(a, t) ==
  /\ timers' = timers \cup {<<t.exp, a>>}
  /\ activeTimers' = activeTimers \cup {<<a, t.seq>>}
  /\ IF EarliestChanged(t) THEN ResetTimerfd(t.exp) ELSE UNCHANGED left
  /\ UNCHANGED cancelingTimers

ActiveTimer(a) == <<a, heap[a].seq>>

QueuedAdds == {queue[i].addr : i \in {j \in DOMAIN queue : queue[j].op = "add"}}

\* History: a timer that exists is cancelled.
RecordCancel(id) ==
  IF heap[id[1]] # Free /\ heap[id[1]].seq = id[2]
  THEN /\ cancelled' = cancelled \cup {id[2]}
       /\ early' = IF id[1] \in QueuedAdds THEN early \cup {id[2]} ELSE early \ {id[2]}
  ELSE UNCHANGED <<cancelled, early>>

\* Mutant: a timer whose callback is running is not remembered.
CancelInLoop_ForgetsRunning(id) ==
  /\ IF id \in activeTimers
     THEN /\ timers' = timers \ {<<heap[id[1]].exp, id[1]>>}
          /\ activeTimers' = activeTimers \ {id}
          /\ heap' = [heap EXCEPT ![id[1]] = Free]
     ELSE UNCHANGED <<timers, activeTimers, heap>>
  /\ UNCHANGED cancelingTimers
  /\ RecordCancel(id)

\* Mutant: the timer is taken out of the sets but not deleted.
CancelInLoop_Leaks(id) ==
  /\ IF id \in activeTimers
     THEN /\ timers' = timers \ {<<heap[id[1]].exp, id[1]>>}
          /\ activeTimers' = activeTimers \ {id}
          /\ UNCHANGED cancelingTimers
     ELSE /\ cancelingTimers' = IF lpc = "batch" THEN cancelingTimers \cup {id}
                                ELSE cancelingTimers
          /\ UNCHANGED <<timers, activeTimers>>
  /\ UNCHANGED heap
  /\ RecordCancel(id)

\* m_callingExpiredTimers is true exactly while lpc is "batch".  Nothing is done
\* about a timer that another thread's addTimerInLoop is still to insert.
CancelInLoop(id) ==
  /\ IF id \in activeTimers
     THEN /\ timers' = timers \ {<<heap[id[1]].exp, id[1]>>}
          /\ activeTimers' = activeTimers \ {id}
          /\ heap' = [heap EXCEPT ![id[1]] = Free]
          /\ UNCHANGED cancelingTimers
     ELSE /\ cancelingTimers' = IF lpc = "batch" THEN cancelingTimers \cup {id}
                                ELSE cancelingTimers
          /\ UNCHANGED <<timers, activeTimers, heap>>
  /\ RecordCancel(id)

-----------------------------------------------------------------------------
(* Calls from other threads                                                *)

\* addTimer: new Timer, and the push of runInLoop ...
CallerAddTimer(c) ==
  /\ cpc[c] = NoCall
  /\ \E a \in Addrs, r \in Requests :
       /\ Allocate(a, r)
       /\ queue' = Append(queue, [op |-> "add", addr |-> a, seq |-> nextSeq])
       /\ cpc' = [cpc EXCEPT ![c] = [addr |-> a, seq |-> nextSeq]]
  /\ UNCHANGED <<clockVars, left, loopVars, setVars, ids, fired, cancelled,
                 early>>

\* ... then return TimerId(timer, timer->sequence()): the timer may be gone.
CallerAddTimerReturns(c) ==
  /\ cpc[c] # NoCall
  /\ LET a == cpc[c].addr
     IN  \E s \in IF heap[a] = Free THEN {cpc[c].seq, Garbage} ELSE {heap[a].seq} :
           ids' = ids \cup {<<a, s>>}
  /\ cpc' = [cpc EXCEPT ![c] = NoCall]
  /\ UNCHANGED <<clockVars, left, loopVars, heap, nextSeq, setVars, queue, history>>

CallerCancel(c) ==
  /\ cpc[c] = NoCall
  /\ \E id \in ids :
       queue' = Append(queue, [op |-> "cancel", addr |-> id[1], seq |-> id[2]])
  /\ Len(queue) < MaxQueue
  /\ UNCHANGED <<clockVars, left, loopVars, heap, nextSeq, setVars, cpc, ids, history>>

-----------------------------------------------------------------------------
(* Calls from the loop's thread: other channels' handlers, functors and,   *)
(* once the first has started, the callbacks of the batch.                 *)

InUserCode == lpc \in {"dispatch", "functors"} \/ (lpc = "batch" /\ todo # batch)

UserAddTimer ==
  /\ InUserCode
  /\ \E a \in Addrs, r \in Requests :
       /\ Allocate(a, r)
       /\ AddTimerInLoop(a, NewTimer(r))
       /\ ids' = ids \cup {<<a, nextSeq>>}
  /\ UNCHANGED <<clockVars, loopVars, queue, cpc, fired, cancelled, early>>

UserCancel ==
  /\ InUserCode
  /\ \E id \in ids : CancelInLoop(id)
  /\ UNCHANGED <<clockVars, left, loopVars, nextSeq, queue, cpc, ids,
                 fired>>

-----------------------------------------------------------------------------
(* The loop                                                                *)

\* poll returns: for the timerfd, for another channel, or for no reason.
Poll ==
  /\ lpc = "poll"
  /\ lpc' = "dispatch"
  /\ now' = clock
  /\ ready' = (left = 0)
  /\ UNCHANGED <<clockVars, left, batch, todo, heap, nextSeq, setVars, queue,
                 cpc, ids, history>>

\* Mutant: a timer that expires exactly now is left for the next alarm.
GetExpired_Strict(t) == {e \in timers : e[1] < t}

\* getExpired: lower_bound of (now, UINTPTR_MAX)
GetExpired(t) == {e \in timers : e[1] <= t}

\* handleRead up to its first callback
HandleRead ==
  /\ lpc = "dispatch"
  /\ ready
  /\ ready' = FALSE
  /\ lpc' = "batch"
  /\ ReadTimerfd
  /\ batch' = GetExpired(now)
  /\ todo' = batch'
  /\ timers' = timers \ batch'
  /\ activeTimers' = activeTimers \ {ActiveTimer(e[2]) : e \in batch'}
  /\ cancelingTimers' = {}
  /\ UNCHANGED <<clockVars, now, heap, nextSeq, queue, cpc, ids, history>>

\* The order of the set of entries: by expiration, then by address.
Before(d, e) == d[1] < e[1] \/ (d[1] = e[1] /\ d[2] < e[2])

RunCallback(e) ==
  /\ lpc = "batch"
  /\ e \in todo
  /\ \A d \in todo \ {e} : Before(e, d)
  /\ todo' = todo \ {e}
  /\ fired' = fired \cup {heap[e[2]].seq}
  /\ UNCHANGED <<clockVars, left, lpc, now, ready, batch, heap, nextSeq, setVars,
                 queue, cpc, ids, cancelled, early>>

\* A repeating timer that no callback of the batch cancelled is put back.
Kept(a) == Repeat(heap[a]) /\ ActiveTimer(a) \notin cancelingTimers

\* reset, and the end of handleRead
Reset ==
  LET expired  == {e[2] : e \in batch}
      again    == {a \in expired : Kept(a)}
      inserted == timers \cup {<<Restart(heap[a]).exp, a>> : a \in again}
  IN
  /\ lpc = "batch"
  /\ todo = {}
  /\ heap' = [a \in Addrs |-> IF a \in again THEN Restart(heap[a])
                              ELSE IF a \in expired THEN Free ELSE heap[a]]
  /\ timers' = inserted
  /\ activeTimers' = activeTimers \cup {ActiveTimer(a) : a \in again}
  /\ \/ /\ inserted = {} \/ \E e \in inserted : e[1] = 0
        /\ UNCHANGED left
     \/ /\ \A e \in inserted : e[1] # 0
        /\ \E e \in inserted :
             /\ \A d \in inserted : e[1] <= d[1]
             /\ ResetTimerfd(e[1])
  /\ batch' = {}
  /\ lpc' = "dispatch"
  /\ UNCHANGED <<clockVars, now, ready, nextSeq, cancelingTimers, todo, queue,
                 cpc, ids, history>>

DispatchDone ==
  /\ lpc = "dispatch"
  /\ ~ready
  /\ lpc' = "functors"
  /\ UNCHANGED <<clockVars, left, now, ready, batch, todo, heap, nextSeq, setVars,
                 queue, cpc, ids, history>>

RunFunctor ==
  /\ lpc = "functors"
  /\ queue # <<>>
  /\ queue' = Tail(queue)
  /\ LET f == Head(queue)
     IN  \/ /\ f.op = "add"
            /\ AddTimerInLoop(f.addr, heap[f.addr])
            /\ UNCHANGED <<heap, cancelled, early>>
         \/ /\ f.op = "cancel"
            /\ CancelInLoop(<<f.addr, f.seq>>)
            /\ UNCHANGED left
  /\ UNCHANGED <<clockVars, loopVars, nextSeq, cpc, ids, fired>>

FunctorsDone ==
  /\ lpc = "functors"
  /\ lpc' = "poll"
  /\ UNCHANGED <<clockVars, left, now, ready, batch, todo, heap, nextSeq, setVars,
                 queue, cpc, ids, history>>

Iterate ==
  \/ HandleRead \/ Reset \/ DispatchDone \/ FunctorsDone
  \/ \E e \in todo : RunCallback(e)

Next ==
  \/ Tick \/ SetClockBack
  \/ Poll \/ Iterate \/ RunFunctor
  \/ UserAddTimer \/ UserCancel
  \/ \E c \in Callers :
       CallerAddTimer(c) \/ CallerAddTimerReturns(c) \/ CallerCancel(c)

Spec == Init /\ [][Next]_vars

(***************************************************************************)
(* Time passes, the loop goes round, poll returns for an expired timerfd,  *)
(* and pending functors are run, as EventLoop's WakeupRunsFunctor says.    *)
(***************************************************************************)
FairSpec ==
  /\ Spec
  /\ WF_vars(Tick)
  /\ WF_vars(Iterate)
  /\ WF_vars((left = 0 \/ queue # <<>>) /\ Poll)
  /\ SF_vars(RunFunctor)

-----------------------------------------------------------------------------
(* Properties                                                              *)

Listed == {e[2] : e \in timers}

Expired == {e[2] : e \in batch}

(***************************************************************************)
(* Every timer has one owner: the functor that will insert it, the sets,   *)
(* or the batch being run; what is owned is allocated, and nothing else    *)
(* is.  No timer is leaked, deleted twice or used by the loop after delete *)
(* (cancelInLoop and reset delete, addresses are reused).                  *)
(***************************************************************************)
OneOwner ==
  /\ QueuedAdds \cap Listed = {} /\ QueuedAdds \cap Expired = {}
  /\ Listed \cap Expired = {}
  /\ {a \in Addrs : heap[a] # Free} = QueuedAdds \cup Listed \cup Expired

(***************************************************************************)
(* Outside handleRead the timerfd is armed whenever there is a timer, and  *)
(* goes off no later than the earliest of them is due, also when the wall  *)
(* clock has been set back since: it then goes off early and is set again. *)
(***************************************************************************)
NoMissedTimer ==
  lpc # "batch" =>
    \A e \in timers : left # Disarmed /\ (left = 0 \/ left <= e[1] - clock)

(***************************************************************************)
(* A timer that was cancelled is never among those that will still run: a  *)
(* repeating timer that a callback of its own batch cancels, itself maybe, *)
(* is not put back by reset.  It may have one run left in that batch, for  *)
(* cancelInLoop only marks it ("Cancels the timer.", EventLoop.h:70).      *)
(* Excepted are the early ones: a cancel in the loop's thread of a timer   *)
(* whose addTimerInLoop another thread has only queued does nothing, and   *)
(* the timer runs unless it is cancelled again.                            *)
(***************************************************************************)
CancelledStaysSilent == \A a \in Listed : heap[a].seq \in cancelled => heap[a].seq \in early

(***************************************************************************)
(* Every timer due within the time modelled runs or is cancelled, whatever *)
(* stale TimerIds are cancelled; by its own TimerId, or by one that        *)
(* addTimer took from it, having read the sequence of a timer that was run *)
(* and deleted and whose address the new one has (TimerQueue.cpp:100).     *)
(***************************************************************************)
TimerFires ==
  \A s \in 0..MaxSeq - 1 :
    (\E a \in Addrs : heap[a].seq = s /\ heap[a].exp <= MaxTime)
      ~> (s \in fired \/ s \in cancelled)

-----------------------------------------------------------------------------
(* The inductive invariant of the proofs                                   *)

\* The two sets hold the same timers, each under its own expiration.
SetsAgree ==
  /\ \A e \in timers : heap[e[2]].exp = e[1] /\ ActiveTimer(e[2]) \in activeTimers
  /\ \A p \in activeTimers :
       heap[p[1]].seq = p[2] /\ <<heap[p[1]].exp, p[1]>> \in timers

\* No two pending functors insert the same timer.
AddedOnce ==
  \A i, j \in DOMAIN queue :
    queue[i].op = "add" /\ queue[j].op = "add" /\ i # j
      => queue[i].addr # queue[j].addr

\* Living timers have different sequences, and new ones a new sequence.
NumberedOnce ==
  /\ \A a \in Addrs : heap[a].seq < nextSeq
  /\ \A a, b \in Addrs : heap[a].seq = heap[b].seq /\ heap[a] # Free => a = b

\* The cancels that are to have an effect.
Dead == cancelled \ early

\* A cancelled timer that still lives is in the batch, marked.
DeadAreMarked ==
  /\ \A s \in Dead : s \in Nat /\ s < nextSeq
  /\ \A a \in Addrs :
       heap[a].seq \in Dead => a \in Expired /\ ActiveTimer(a) \in cancelingTimers

(***************************************************************************)
(* The clock is past zero when the batch is taken, so a timer for an       *)
(* invalid time is in the sets during the batch only if a callback has     *)
(* just added it, and then the timerfd goes off at once.                   *)
(***************************************************************************)
BatchInTime ==
  /\ clock >= 1
  /\ lpc # "poll" => now >= 1
  /\ lpc # "batch" => batch = {}
  /\ lpc = "batch" => \A e \in timers : e[1] = 0 => left = 0

IInv ==
  /\ TypeOK /\ SetsAgree /\ AddedOnce /\ OneOwner /\ NumberedOnce /\ DeadAreMarked
  /\ BatchInTime /\ NoMissedTimer
=============================================================================
