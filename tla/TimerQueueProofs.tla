-------------------------- MODULE TimerQueueProofs --------------------------
(***************************************************************************)
(* Machine-checked proofs about TimerQueue, for any callers, addresses,    *)
(* delays and bounds: every timer has one owner, a cancelled timer stays   *)
(* out of the sets, and the timerfd goes off in time for the earliest.     *)
(***************************************************************************)
EXTENDS TimerQueue, TLAPS, SequenceTheorems

(* The timers and their types                                              *)

\* addSeconds of a time is a time, no earlier.
LEMMA AddSecondsType ==
  ASSUME NEW t \in Nat, NEW d \in Nat
  PROVE  AddSeconds(t, d) \in Nat /\ AddSeconds(t, d) >= t
BY DEF AddSeconds

\* What runAt, runAfter and runEvery ask for has a time and an interval.
LEMMA RequestType ==
  ASSUME clock \in Nat, NEW r \in Requests
  PROVE  r.exp \in Nat /\ r.ivl \in Nat
<1>1. \A d \in Delays : d \in Nat /\ AddSeconds(clock, d) \in Nat
  BY Zenon, TimerAssumption, AddSecondsType
<1>2. CASE \E t \in Whens : r = RunAt(t)
  BY <1>2, TimerAssumption DEF RunAt
<1>3. CASE \E d \in Delays : r = RunAfter(d) \/ r = RunEvery(d)
  BY <1>1, <1>3 DEF RunAfter, RunEvery
<1> QED
  BY <1>2, <1>3 DEF Requests

\* A cell of the heap is free or holds a timer, and its sequence tells which.
LEMMA Cells ==
  ASSUME TypeOK, NEW a \in Addrs
  PROVE  /\ heap[a] # Free => heap[a] \in Timer
         /\ heap[a] # Free <=> heap[a].seq \in Nat
         /\ heap[a].seq \in Int /\ heap[a].exp \in Int /\ heap[a].ivl \in Int
BY DEF TypeOK, Timer, Free

\* The types of the parts.
LEMMA TypeParts ==
  ASSUME TypeOK
  PROVE  /\ clock \in Nat /\ now \in Nat /\ nextSeq \in Nat
         /\ left \in Int /\ left >= Disarmed
         /\ \A e \in timers : e[1] \in Nat /\ e[2] \in Addrs
         /\ \A e \in batch : e[2] \in Addrs
         /\ Listed \subseteq Addrs /\ Expired \subseteq Addrs
         /\ \A id \in ids \cup activeTimers : id \in Addrs \X Int /\ id[1] \in Addrs
         /\ queue \in Seq(Functor)
<1>1. clock \in Nat /\ now \in Nat /\ nextSeq \in Nat /\ queue \in Seq(Functor)
  BY DEF TypeOK
<1>2. left \in Nat \cup {Disarmed}
  BY DEF TypeOK
<1>3. left \in Int /\ left >= Disarmed
  BY ONLY <1>2 DEF Disarmed
<1>4. timers \in SUBSET (Nat \X Addrs) /\ batch \in SUBSET (Nat \X Addrs)
  BY DEF TypeOK
<1>5. /\ \A e \in timers : e[1] \in Nat /\ e[2] \in Addrs
      /\ \A e \in batch : e[2] \in Addrs
  BY ONLY <1>4
<1>6. Listed \subseteq Addrs /\ Expired \subseteq Addrs
  BY ONLY <1>5 DEF Listed, Expired
<1>7. ids \in SUBSET (Addrs \X Int) /\ activeTimers \in SUBSET (Addrs \X Int)
  BY DEF TypeOK
<1>8. \A id \in ids \cup activeTimers : id \in Addrs \X Int /\ id[1] \in Addrs
  BY ONLY <1>7
<1> QED
  BY ONLY <1>1, <1>3, <1>5, <1>6, <1>8

\* A free cell has no sequence.
LEMMA FreeSeq == Free.seq = -1 /\ Free.seq \notin Nat
BY DEF Free

\* A timer is no free cell.
LEMMA TimerIsNotFree == \A t \in Timer : t # Free
BY DEF Timer, Free

\* A timer that is put back keeps its sequence and is due later.
LEMMA RestartType ==
  ASSUME now \in Nat, NEW t \in Timer
  PROVE  /\ Restart(t) \in Timer
         /\ Restart(t).seq = t.seq /\ Restart(t).exp >= now
<1>1. AddSeconds(now, t.ivl) \in Nat /\ AddSeconds(now, t.ivl) >= now
  BY Zenon, AddSecondsType DEF Timer
<1> QED
  BY <1>1 DEF Restart, Timer

\* new Timer fills one free cell of the heap.
LEMMA AllocateType ==
  ASSUME TypeOK, NEW a \in Addrs, NEW r \in Requests, Allocate(a, r)
  PROVE  /\ NewTimer(r) \in Timer /\ NewTimer(r).seq = nextSeq
         /\ heap' \in [Addrs -> Timer \cup {Free}] /\ heap'[a] = NewTimer(r)
         /\ \A b \in Addrs \ {a} : heap'[b] = heap[b]
         /\ nextSeq' \in Nat /\ nextSeq' = nextSeq + 1
<1>1. NewTimer(r) \in Timer /\ NewTimer(r).seq = nextSeq
  BY RequestType DEF TypeOK, NewTimer, Timer
<1> QED
  BY <1>1 DEF TypeOK, Allocate

-----------------------------------------------------------------------------
(* Type correctness                                                        *)

\* The initial state is well typed.
LEMMA InitType == Init => TypeOK
<1> SUFFICES ASSUME Init PROVE TypeOK
  OBVIOUS
<1>1. heap \in [Addrs -> Timer \cup {Free}] /\ queue \in Seq(Functor)
  BY DEF Init
<1>2. cpc \in [Callers -> [addr : Addrs, seq : Nat] \cup {NoCall}]
  BY DEF Init
<1> QED
  BY Zenon, <1>1, <1>2 DEF Init, TypeOK

\* resetTimerfd arms the timerfd for some time.
LEMMA ResetTimerfdType ==
  ASSUME clock \in Nat, NEW when \in Nat, ResetTimerfd(when)
  PROVE  left' \in Nat /\ (left' = 0 \/ left' = when - clock)
BY DEF ResetTimerfd, HowMuchTimeFromNow

\* addTimerInLoop keeps the types of what it changes.
LEMMA AddTimerInLoopType ==
  ASSUME TypeOK, NEW a \in Addrs, NEW t \in Timer, AddTimerInLoop(a, t)
  PROVE  /\ left' \in Nat \cup {Disarmed}
         /\ timers' \in SUBSET (Nat \X Addrs)
         /\ activeTimers' \in SUBSET (Addrs \X Int)
<1>1. t.exp \in Nat /\ t.seq \in Nat
  BY DEF Timer
<1>2. left' \in Nat \cup {Disarmed}
  <2>1. CASE EarliestChanged(t)
    BY <1>1, <2>1, ResetTimerfdType DEF AddTimerInLoop, TypeOK
  <2>2. CASE ~EarliestChanged(t)
    BY <2>2 DEF AddTimerInLoop, TypeOK
  <2> QED
    BY <2>1, <2>2
<1>3. <<t.exp, a>> \in Nat \X Addrs /\ <<a, t.seq>> \in Addrs \X Int
  BY <1>1
<1> QED
  BY <1>2, <1>3 DEF AddTimerInLoop, TypeOK

\* cancelInLoop keeps the types of what it changes.
LEMMA CancelInLoopType ==
  ASSUME TypeOK, NEW id \in Addrs \X Int, CancelInLoop(id)
  PROVE  /\ heap' \in [Addrs -> Timer \cup {Free}]
         /\ timers' \in SUBSET (Nat \X Addrs)
         /\ activeTimers' \in SUBSET (Addrs \X Int)
         /\ cancelingTimers' \in SUBSET (Addrs \X Int)
         /\ cancelled' \in SUBSET Int /\ early' \in SUBSET Int
<1>1. id[1] \in Addrs /\ id[2] \in Int
  OBVIOUS
<1>2. cancelled' \in SUBSET Int /\ early' \in SUBSET Int
  BY Zenon, <1>1 DEF CancelInLoop, RecordCancel, TypeOK
<1>3. CASE id \in activeTimers
  BY <1>1, <1>2, <1>3 DEF CancelInLoop, TypeOK
<1>4. CASE id \notin activeTimers
  BY <1>2, <1>4 DEF CancelInLoop, TypeOK
<1> QED
  BY <1>3, <1>4

\* The functor addTimerInLoop at the head of the queue holds a timer.
LEMMA HeadAdds ==
  ASSUME TypeOK, OneOwner, queue # <<>>, Head(queue).op = "add"
  PROVE  /\ Head(queue).addr \in QueuedAdds
         /\ heap[Head(queue).addr] # Free /\ heap[Head(queue).addr] \in Timer
<1>1. Head(queue) \in Functor /\ 1 \in DOMAIN queue /\ Head(queue) = queue[1]
  BY HeadTailProperties, EmptySeq, LenProperties DEF TypeOK
<1>2. Head(queue).addr \in QueuedAdds /\ Head(queue).addr \in Addrs
  BY <1>1 DEF QueuedAdds, Functor
<1> QED
  BY <1>2, Cells DEF OneOwner

\* Every step keeps the types.
LEMMA NextType == TypeOK /\ OneOwner /\ [Next]_vars => TypeOK'
<1> SUFFICES ASSUME TypeOK, OneOwner, [Next]_vars PROVE TypeOK'
  OBVIOUS
<1> USE DEF clockVars, loopVars, setVars, history
<1>1. CASE Tick
  <2>1. left' \in Nat \cup {Disarmed}
    BY <1>1 DEF Tick, TypeOK, Disarmed
  <2> QED
    BY <1>1, <2>1 DEF Tick, TypeOK
<1>2. CASE SetClockBack
  BY <1>2 DEF SetClockBack, TypeOK
<1>3. CASE Poll
  BY <1>3 DEF Poll, TypeOK
<1>4. CASE HandleRead
  <2>1. left' \in Nat \cup {Disarmed}
    BY <1>4 DEF HandleRead, ReadTimerfd, TypeOK
  <2> QED
    BY Zenon, <1>4, <2>1 DEF HandleRead, GetExpired, TypeOK
<1>5. CASE Reset
  <2>1. heap' \in [Addrs -> Timer \cup {Free}]
    <3>1. ASSUME NEW a \in Addrs, Kept(a) PROVE Restart(heap[a]) \in Timer
      <4>1. heap[a].ivl > 0
        BY <3>1 DEF Kept, Repeat
      <4>2. heap[a] # Free
        BY <4>1 DEF Free
      <4> QED
        BY <4>2, Cells, RestartType DEF TypeOK
    <3> QED
      BY <1>5, <3>1 DEF Reset, TypeOK
  <2>2. ASSUME NEW a \in Addrs, Kept(a)
        PROVE  Restart(heap[a]).exp \in Nat /\ ActiveTimer(a) \in Addrs \X Int
    <3>1. heap[a].ivl > 0
      BY <2>2 DEF Kept, Repeat
    <3>2. heap[a] # Free
      BY <3>1 DEF Free
    <3>3. Restart(heap[a]) \in Timer /\ heap[a].seq \in Int
      BY <3>2, Cells, RestartType DEF TypeOK
    <3> QED
      BY <3>3 DEF Timer, ActiveTimer
  <2>3. \A e \in batch : e[2] \in Addrs
    BY DEF TypeOK
  <2>4. timers' \in SUBSET (Nat \X Addrs) /\ activeTimers' \in SUBSET (Addrs \X Int)
    BY <1>5, <2>2, <2>3 DEF Reset, TypeOK
  <2>5. left' \in Nat \cup {Disarmed}
    <3>1. CASE UNCHANGED left
      BY <3>1 DEF TypeOK
    <3>2. CASE \E e \in timers' : ResetTimerfd(e[1])
      BY <2>4, <3>2, ResetTimerfdType DEF TypeOK
    <3> QED
      BY <1>5, <3>1, <3>2 DEF Reset
  <2> QED
    BY <1>5, <2>1, <2>4, <2>5 DEF Reset, TypeOK
<1>6. CASE DispatchDone
  BY <1>6 DEF DispatchDone, TypeOK
<1>7. CASE FunctorsDone
  BY <1>7 DEF FunctorsDone, TypeOK
<1>8. CASE \E e \in todo : RunCallback(e)
  <2>1. PICK e \in todo : RunCallback(e)
    BY <1>8
  <2>2. heap[e[2]].seq \in Int
    BY <2>1, Cells DEF TypeOK
  <2> QED
    BY Zenon, <2>1, <2>2 DEF RunCallback, TypeOK
<1>9. CASE RunFunctor
  <2>1. Head(queue) \in Functor /\ Tail(queue) \in Seq(Functor)
    BY <1>9, HeadTailProperties DEF RunFunctor, TypeOK
  <2> DEFINE f == Head(queue)
  <2>2. f.addr \in Addrs /\ f.seq \in Int
    BY <2>1 DEF Functor
  <2> HIDE DEF f
  <2>3. /\ left' \in Nat \cup {Disarmed} /\ heap' \in [Addrs -> Timer \cup {Free}]
        /\ timers' \in SUBSET (Nat \X Addrs)
        /\ activeTimers' \in SUBSET (Addrs \X Int)
        /\ cancelingTimers' \in SUBSET (Addrs \X Int)
        /\ cancelled' \in SUBSET Int /\ early' \in SUBSET Int
    <3>1. CASE /\ f.op = "add" /\ AddTimerInLoop(f.addr, heap[f.addr])
              /\ UNCHANGED <<heap, cancelled, early>>
      <4>1. heap[f.addr] \in Timer
        BY <1>9, <3>1, HeadAdds DEF RunFunctor, f
      <4> QED
        BY <2>2, <3>1, <4>1, AddTimerInLoopType DEF AddTimerInLoop, TypeOK
    <3>2. CASE CancelInLoop(<<f.addr, f.seq>>) /\ UNCHANGED left
      BY <2>2, <3>2, CancelInLoopType DEF TypeOK
    <3> QED
      BY <1>9, <3>1, <3>2 DEF RunFunctor, f
  <2> QED
    BY <1>9, <2>1, <2>3 DEF RunFunctor, TypeOK
<1>10. CASE UserAddTimer
  <2>1. PICK a \in Addrs, r \in Requests :
          /\ Allocate(a, r) /\ AddTimerInLoop(a, NewTimer(r))
          /\ ids' = ids \cup {<<a, nextSeq>>}
    BY <1>10 DEF UserAddTimer
  <2>2. /\ left' \in Nat \cup {Disarmed} /\ timers' \in SUBSET (Nat \X Addrs)
        /\ activeTimers' \in SUBSET (Addrs \X Int)
    BY <2>1, AllocateType, AddTimerInLoopType
  <2>3. heap' \in [Addrs -> Timer \cup {Free}] /\ nextSeq' \in Nat
    BY <2>1, AllocateType
  <2>4. ids' \in SUBSET (Addrs \X Int) /\ cancelingTimers' = cancelingTimers
    BY <2>1 DEF TypeOK, AddTimerInLoop
  <2> QED
    BY <1>10, <2>2, <2>3, <2>4 DEF UserAddTimer, TypeOK
<1>11. CASE UserCancel
  <2>1. PICK id \in ids : CancelInLoop(id)
    BY <1>11 DEF UserCancel
  <2>2. id \in Addrs \X Int
    BY DEF TypeOK
  <2> QED
    BY Zenon, <1>11, <2>1, <2>2, CancelInLoopType DEF UserCancel, TypeOK
<1>12. ASSUME NEW c \in Callers, CallerAddTimer(c) PROVE TypeOK'
  <2>1. PICK a \in Addrs, r \in Requests :
          /\ Allocate(a, r)
          /\ queue' = Append(queue, [op |-> "add", addr |-> a, seq |-> nextSeq])
          /\ cpc' = [cpc EXCEPT ![c] = [addr |-> a, seq |-> nextSeq]]
    BY Zenon, <1>12 DEF CallerAddTimer
  <2>2. heap' \in [Addrs -> Timer \cup {Free}] /\ nextSeq' \in Nat
    BY Zenon, <2>1, AllocateType
  <2>3. [op |-> "add", addr |-> a, seq |-> nextSeq] \in Functor
    <3>1. nextSeq \in Int
      BY TypeParts
    <3> QED
      BY ONLY <3>1, a \in Addrs DEF Functor
  <2>4. queue' \in Seq(Functor)
    BY Zenon, <2>1, <2>3, TypeParts, AppendProperties
  <2>5. cpc' \in [Callers -> [addr : Addrs, seq : Nat] \cup {NoCall}]
    BY <2>1 DEF TypeOK
  <2> QED
    BY Zenon, <1>12, <2>2, <2>4, <2>5 DEF CallerAddTimer, TypeOK
<1>13. ASSUME NEW c \in Callers, CallerAddTimerReturns(c) PROVE TypeOK'
  <2>1. cpc[c] \in [addr : Addrs, seq : Nat]
    BY <1>13 DEF CallerAddTimerReturns, TypeOK
  <2>2. cpc[c].addr \in Addrs /\ cpc[c].seq \in Int /\ Garbage \in Int
    BY <2>1 DEF Garbage
  <2>3. heap[cpc[c].addr].seq \in Int
    BY <2>2, Cells
  <2>4. ids' \in SUBSET (Addrs \X Int)
    BY <1>13, <2>2, <2>3 DEF CallerAddTimerReturns, TypeOK
  <2>5. cpc' \in [Callers -> [addr : Addrs, seq : Nat] \cup {NoCall}]
    BY <1>13 DEF CallerAddTimerReturns, TypeOK
  <2> QED
    BY Zenon, <1>13, <2>4, <2>5 DEF CallerAddTimerReturns, TypeOK
<1>14. ASSUME NEW c \in Callers, CallerCancel(c) PROVE TypeOK'
  <2>1. PICK id \in ids :
          queue' = Append(queue, [op |-> "cancel", addr |-> id[1], seq |-> id[2]])
    BY <1>14 DEF CallerCancel
  <2>2. [op |-> "cancel", addr |-> id[1], seq |-> id[2]] \in Functor
    <3>1. id[1] \in Addrs /\ id[2] \in Int
      BY TypeParts
    <3> QED
      BY ONLY <3>1 DEF Functor
  <2>3. queue' \in Seq(Functor)
    BY <2>1, <2>2, AppendProperties DEF TypeOK
  <2> QED
    BY Zenon, <1>14, <2>3 DEF CallerCancel, TypeOK
<1>15. CASE UNCHANGED vars
  BY <1>15 DEF vars, TypeOK
<1> QED
  BY <1>1, <1>2, <1>3, <1>4, <1>5, <1>6, <1>7, <1>8, <1>9, <1>10, <1>11, <1>12,
    <1>13, <1>14, <1>15 DEF Next, Iterate

-----------------------------------------------------------------------------
(* The pending functors that hold a timer                                  *)

Adds(q) == {q[i].addr : i \in {j \in DOMAIN q : q[j].op = "add"}}

AddsOnce(q) ==
  \A i, j \in DOMAIN q :
    q[i].op = "add" /\ q[j].op = "add" /\ i # j => q[i].addr # q[j].addr

\* A functor pushed by runInLoop adds its timer, if it has one.
LEMMA PushAdds ==
  ASSUME NEW q \in Seq(Functor), NEW f \in Functor
  PROVE  /\ f.op = "add" => Adds(Append(q, f)) = Adds(q) \cup {f.addr}
         /\ f.op # "add" => Adds(Append(q, f)) = Adds(q)
         /\ AddsOnce(q) /\ (f.op = "add" => f.addr \notin Adds(q))
              => AddsOnce(Append(q, f))
<1> DEFINE p == Append(q, f)
           n == Len(q)
<1>1. /\ n \in Nat /\ DOMAIN q = 1..n /\ DOMAIN p = 1..(n + 1)
      /\ \A i \in 1..n : p[i] = q[i]
      /\ p[n + 1] = f
  BY AppendProperties, LenProperties
<1> HIDE DEF p, n
<1>2. \A i \in DOMAIN p : (i \in DOMAIN q /\ p[i] = q[i]) \/ (i = n + 1 /\ p[i] = f)
  <2>1. \A i \in 1..(n + 1) : i \in 1..n \/ i = n + 1
    BY <1>1
  <2> QED
    BY <1>1, <2>1
<1>3. \A i \in DOMAIN q : i \in DOMAIN p /\ p[i] = q[i] /\ i # n + 1
  BY <1>1
<1>4. n + 1 \in DOMAIN p /\ p[n + 1] = f
  BY <1>1
<1>5. f.op = "add" => Adds(p) = Adds(q) \cup {f.addr}
  BY <1>2, <1>3, <1>4 DEF Adds
<1>6. f.op # "add" => Adds(p) = Adds(q)
  BY <1>2, <1>3, <1>4 DEF Adds
<1>7. ASSUME AddsOnce(q), f.op = "add" => f.addr \notin Adds(q) PROVE AddsOnce(p)
  <2> SUFFICES ASSUME NEW i \in DOMAIN p, NEW j \in DOMAIN p,
                      p[i].op = "add", p[j].op = "add", i # j
               PROVE  p[i].addr # p[j].addr
    BY DEF AddsOnce
  <2>1. CASE i \in DOMAIN q /\ j \in DOMAIN q
    BY <1>3, <1>7, <2>1 DEF AddsOnce
  <2>2. CASE i = n + 1 /\ j \in DOMAIN q
    BY <1>3, <1>4, <1>7, <2>2 DEF Adds
  <2>3. CASE j = n + 1 /\ i \in DOMAIN q
    BY <1>3, <1>4, <1>7, <2>3 DEF Adds
  <2> QED
    BY <1>2, <2>1, <2>2, <2>3
<1> QED
  BY <1>5, <1>6, <1>7 DEF p

\* Running the first functor leaves the timers of the others.
LEMMA PopAdds ==
  ASSUME NEW q \in Seq(Functor), q # <<>>, AddsOnce(q)
  PROVE  /\ AddsOnce(Tail(q))
         /\ Head(q).op = "add" => /\ Adds(q) = Adds(Tail(q)) \cup {Head(q).addr}
                                  /\ Head(q).addr \notin Adds(Tail(q))
         /\ Head(q).op # "add" => Adds(q) = Adds(Tail(q))
<1> DEFINE t == Tail(q)
           n == Len(q)
<1>1. /\ n \in Nat \ {0} /\ DOMAIN q = 1..n /\ DOMAIN t = 1..(n - 1)
      /\ \A i \in 1..(n - 1) : t[i] = q[i + 1]
      /\ Head(q) = q[1]
  BY HeadTailProperties, LenProperties, EmptySeq
<1> HIDE DEF t, n
<1>2. \A i \in DOMAIN t : i \in Int /\ i + 1 \in DOMAIN q /\ t[i] = q[i + 1] /\ i + 1 # 1
  BY <1>1
<1>3. ASSUME NEW i \in DOMAIN q, i # 1 PROVE i - 1 \in DOMAIN t /\ t[i - 1] = q[i]
  <2>1. i - 1 \in 1..(n - 1) /\ (i - 1) + 1 = i
    BY <1>1, <1>3
  <2> QED
    BY <1>1, <2>1
<1>4. 1 \in DOMAIN q /\ Head(q) = q[1]
  BY <1>1
<1>5. \A x : x \in Adds(q) <=> \E i \in DOMAIN q : q[i].op = "add" /\ x = q[i].addr
  BY DEF Adds
<1>6. \A x : x \in Adds(t) <=> \E i \in DOMAIN t : t[i].op = "add" /\ x = t[i].addr
  BY DEF Adds
<1>7. Adds(t) \subseteq Adds(q)
  BY <1>2, <1>5, <1>6
<1>8. ASSUME NEW x \in Adds(q)
      PROVE  x \in Adds(t) \/ (Head(q).op = "add" /\ x = Head(q).addr)
  <2>1. PICK i \in DOMAIN q : q[i].op = "add" /\ x = q[i].addr
    BY <1>5
  <2>2. CASE i = 1
    BY <1>4, <2>1, <2>2
  <2>3. CASE i # 1
    BY <1>3, <1>6, <2>1, <2>3
  <2> QED
    BY <2>2, <2>3
<1>9. Head(q).op = "add" => Head(q).addr \in Adds(q) /\ Head(q).addr \notin Adds(t)
  BY <1>2, <1>4, <1>5, <1>6 DEF AddsOnce
<1>10. AddsOnce(t)
  <2> SUFFICES ASSUME NEW i \in DOMAIN t, NEW j \in DOMAIN t,
                      t[i].op = "add", t[j].op = "add", i # j
               PROVE  t[i].addr # t[j].addr
    BY DEF AddsOnce
  <2>1. i + 1 # j + 1
    BY <1>2
  <2> QED
    BY <1>2, <2>1 DEF AddsOnce
<1> QED
  BY Zenon, <1>7, <1>8, <1>9, <1>10 DEF t

\* QueuedAdds and AddedOnce, in the terms of the lemmas above.
LEMMA QueueTerms ==
  /\ QueuedAdds = Adds(queue) /\ (AddedOnce <=> AddsOnce(queue))
  /\ QueuedAdds' = Adds(queue') /\ (AddedOnce' <=> AddsOnce(queue'))
BY Zenon DEF QueuedAdds, AddedOnce, Adds, AddsOnce

-----------------------------------------------------------------------------
(* Owners                                                                  *)

Owned == TypeOK /\ SetsAgree /\ AddedOnce /\ OneOwner

\* OneOwner, cell by cell.
LEMMA OwnerTerms ==
  ASSUME TypeOK
  PROVE  OneOwner <=>
           /\ \A a \in Addrs : heap[a] # Free <=> a \in QueuedAdds \cup Listed \cup Expired
           /\ \A a \in Addrs : ~(a \in QueuedAdds /\ a \in Listed)
           /\ \A a \in Addrs : ~(a \in QueuedAdds /\ a \in Expired)
           /\ \A a \in Addrs : ~(a \in Listed /\ a \in Expired)
<1>1. Listed \subseteq Addrs /\ Expired \subseteq Addrs
  BY DEF TypeOK, Listed, Expired
<1>2. \A i \in DOMAIN queue : queue[i] \in Functor
  BY ElementOfSeq, LenProperties DEF TypeOK
<1>3. QueuedAdds \subseteq Addrs
  BY <1>2 DEF QueuedAdds, Functor
<1> QED
  BY <1>1, <1>3 DEF OneOwner

\* The same in the next state.
LEMMA OwnerTermsNext ==
  ASSUME TypeOK',
         \A a \in Addrs : heap'[a] # Free <=> a \in QueuedAdds' \cup Listed' \cup Expired',
         \A a \in Addrs : ~(a \in QueuedAdds' /\ a \in Listed'),
         \A a \in Addrs : ~(a \in QueuedAdds' /\ a \in Expired'),
         \A a \in Addrs : ~(a \in Listed' /\ a \in Expired')
  PROVE  OneOwner'
<1>1. Listed' \subseteq Addrs /\ Expired' \subseteq Addrs
  BY DEF TypeOK, Listed, Expired
<1>2. \A i \in DOMAIN queue' : queue'[i] \in Functor
  BY ElementOfSeq, LenProperties DEF TypeOK
<1>3. QueuedAdds' \subseteq Addrs
  BY <1>2 DEF QueuedAdds, Functor
<1> QED
  BY <1>1, <1>3 DEF OneOwner

\* What is in the one set is in the other.
LEMMA ActiveIsListed ==
  ASSUME SetsAgree, NEW p \in activeTimers PROVE p[1] \in Listed
<1>1. <<heap[p[1]].exp, p[1]>> \in timers
  BY DEF SetsAgree
<1>2. \A e \in timers : e[2] \in Listed
  BY DEF Listed
<1>3. <<heap[p[1]].exp, p[1]>>[2] = p[1]
  OBVIOUS
<1> QED
  BY <1>1, <1>2, <1>3

\* addTimerInLoop lists a timer that was not listed.
LEMMA AddLists ==
  ASSUME TypeOK, SetsAgree, NEW a \in Addrs, a \notin Listed, NEW t \in Timer,
         AddTimerInLoop(a, t), heap'[a] = t, \A b \in Addrs \ {a} : heap'[b] = heap[b]
  PROVE  SetsAgree' /\ Listed' = Listed \cup {a}
<1>1. /\ timers' = timers \cup {<<t.exp, a>>}
      /\ activeTimers' = activeTimers \cup {<<a, t.seq>>}
  BY DEF AddTimerInLoop
<1>2. Listed' = Listed \cup {a}
  <2>1. <<t.exp, a>>[2] = a
    OBVIOUS
  <2>2. Listed' = {e[2] : e \in timers \cup {<<t.exp, a>>}}
    BY <1>1 DEF Listed
  <2> QED
    BY Zenon, <2>1, <2>2 DEF Listed
<1>3. \A e \in timers : e[2] \in Addrs \ {a}
  BY Zenon DEF Listed, TypeOK
<1>4. \A p \in activeTimers : p[1] \in Addrs \ {a}
  BY ActiveIsListed DEF TypeOK
<1>5. ASSUME NEW e \in timers'
      PROVE  heap'[e[2]].exp = e[1] /\ <<e[2], heap'[e[2]].seq>> \in activeTimers'
  <2>1. CASE e \in timers
    BY Zenon, <1>1, <1>3, <2>1 DEF SetsAgree, ActiveTimer
  <2>2. CASE e = <<t.exp, a>>
    BY <1>1, <2>2
  <2> QED
    BY Zenon, <1>1, <2>1, <2>2
<1>6. ASSUME NEW p \in activeTimers'
      PROVE  heap'[p[1]].seq = p[2] /\ <<heap'[p[1]].exp, p[1]>> \in timers'
  <2>1. CASE p \in activeTimers
    BY Zenon, <1>1, <1>4, <2>1 DEF SetsAgree
  <2>2. CASE p = <<a, t.seq>>
    BY <1>1, <2>2
  <2> QED
    BY <1>1, <2>1, <2>2
<1> QED
  BY Zenon, <1>2, <1>5, <1>6 DEF SetsAgree, ActiveTimer

\* cancelInLoop deletes a timer that is listed, and takes it out of both sets.
LEMMA CancelUnlists ==
  ASSUME TypeOK, SetsAgree, NEW id \in Addrs \X Int, CancelInLoop(id)
  PROVE  /\ SetsAgree'
         /\ \A b \in Addrs \ {id[1]} : heap'[b] = heap[b]
         /\ \/ /\ id \in activeTimers /\ id[1] \in Listed /\ heap[id[1]].seq = id[2]
               /\ heap'[id[1]] = Free /\ Listed' = Listed \ {id[1]}
            \/ id \notin activeTimers /\ heap' = heap /\ Listed' = Listed
<1>1. id[1] \in Addrs /\ id = <<id[1], id[2]>>
  OBVIOUS
<1>2. CASE id \in activeTimers
  <2> DEFINE a == id[1]
  <2>1. /\ timers' = timers \ {<<heap[a].exp, a>>} /\ activeTimers' = activeTimers \ {id}
        /\ heap'[a] = Free /\ \A b \in Addrs \ {a} : heap'[b] = heap[b]
    BY Zenon, <1>1, <1>2 DEF CancelInLoop, TypeOK
  <2>2. heap[a].seq = id[2] /\ <<heap[a].exp, a>> \in timers
    BY <1>2 DEF SetsAgree
  <2> HIDE DEF a
  <2>3. ASSUME NEW e \in timers' PROVE e \in timers /\ e[2] \in Addrs \ {a}
    <3>1. e \in timers /\ e # <<heap[a].exp, a>> /\ e = <<e[1], e[2]>> /\ e[2] \in Addrs
      BY <2>1 DEF TypeOK
    <3> QED
      BY <3>1 DEF SetsAgree
  <2>4. ASSUME NEW p \in activeTimers' PROVE p \in activeTimers /\ p[1] \in Addrs \ {a}
    <3>1. p \in activeTimers /\ p # id /\ p = <<p[1], p[2]>> /\ p[1] \in Addrs
      BY <2>1, TypeParts
    <3>2. heap[p[1]].seq = p[2]
      BY Zenon, <3>1 DEF SetsAgree
    <3> QED
      BY ONLY <1>1, <2>2, <3>1, <3>2 DEF a
  <2>5. ASSUME NEW e \in timers'
        PROVE  heap'[e[2]].exp = e[1] /\ <<e[2], heap'[e[2]].seq>> \in activeTimers'
    <3>1. heap[e[2]].exp = e[1] /\ <<e[2], heap[e[2]].seq>> \in activeTimers
      BY <2>3 DEF SetsAgree, ActiveTimer
    <3>2. <<e[2], heap[e[2]].seq>> # id
      BY <2>3 DEF a
    <3> QED
      BY <2>1, <2>3, <3>1, <3>2
  <2>6. ASSUME NEW p \in activeTimers'
        PROVE  heap'[p[1]].seq = p[2] /\ <<heap'[p[1]].exp, p[1]>> \in timers'
    <3>1. heap[p[1]].seq = p[2] /\ <<heap[p[1]].exp, p[1]>> \in timers
      BY Zenon, <2>4 DEF SetsAgree
    <3> QED
      BY <2>1, <2>4, <3>1
  <2>7. Listed' = Listed \ {a} /\ a \in Listed
    <3>1. a \in Listed
      BY <2>2 DEF Listed
    <3>2. \A e \in timers : e[2] # a => e \in timers'
      BY <2>1
    <3> QED
      BY <2>3, <3>1, <3>2 DEF Listed
  <2> QED
    BY Zenon, <1>2, <2>1, <2>2, <2>5, <2>6, <2>7 DEF SetsAgree, ActiveTimer, a
<1>3. CASE id \notin activeTimers
  BY <1>3 DEF CancelInLoop, SetsAgree, ActiveTimer, Listed
<1> QED
  BY Zenon, <1>2, <1>3

\* handleRead moves the expired timers from the sets to the batch.
LEMMA HandleReadOwned ==
  ASSUME Owned, batch = {}, HandleRead
  PROVE  /\ SetsAgree' /\ AddedOnce' /\ heap' = heap /\ QueuedAdds' = QueuedAdds
         /\ Listed' \cap Expired' = {} /\ Listed = Listed' \cup Expired'
<1>1. /\ batch' \subseteq timers /\ timers' = timers \ batch' /\ heap' = heap
      /\ activeTimers' = activeTimers \ {ActiveTimer(e[2]) : e \in batch'}
      /\ queue' = queue
  BY DEF HandleRead, GetExpired
<1>2. \A d, e \in timers : d[2] = e[2] => d = e
  BY DEF Owned, SetsAgree, TypeOK
<1>3. Listed' \cap Expired' = {} /\ Listed = Listed' \cup Expired'
  BY <1>1, <1>2 DEF Listed, Expired
<1>4. ASSUME NEW e \in timers'
      PROVE  heap[e[2]].exp = e[1] /\ ActiveTimer(e[2]) \in activeTimers'
  <2>1. e \in timers /\ e \notin batch'
    BY <1>1
  <2>2. heap[e[2]].exp = e[1] /\ ActiveTimer(e[2]) \in activeTimers
    BY <2>1 DEF Owned, SetsAgree
  <2>3. ASSUME NEW d \in batch' PROVE ActiveTimer(d[2]) # ActiveTimer(e[2])
    BY <1>1, <1>2, <2>1 DEF ActiveTimer
  <2> QED
    BY <1>1, <2>2, <2>3
<1>5. ASSUME NEW p \in activeTimers'
      PROVE  heap[p[1]].seq = p[2] /\ <<heap[p[1]].exp, p[1]>> \in timers'
  <2>1. p \in activeTimers /\ \A e \in batch' : ActiveTimer(e[2]) # p
    BY <1>1
  <2>2. heap[p[1]].seq = p[2] /\ <<heap[p[1]].exp, p[1]>> \in timers
    BY <2>1 DEF Owned, SetsAgree
  <2>3. p = <<p[1], p[2]>>
    BY <2>1 DEF Owned, TypeOK
  <2>4. <<heap[p[1]].exp, p[1]>> \notin batch'
    BY <2>1, <2>2, <2>3 DEF ActiveTimer
  <2> QED
    BY <1>1, <2>2, <2>4
<1>6. SetsAgree'
  BY Zenon, <1>1, <1>4, <1>5 DEF SetsAgree, ActiveTimer
<1>7. AddedOnce' /\ QueuedAdds' = QueuedAdds
  BY <1>1 DEF Owned, AddedOnce, QueuedAdds
<1> QED
  BY <1>1, <1>3, <1>6, <1>7

\* reset deletes the timers of the batch or lists them again.
LEMMA ResetOwned ==
  ASSUME Owned, Reset
  PROVE  /\ SetsAgree' /\ AddedOnce' /\ QueuedAdds' = QueuedAdds /\ Expired' = {}
         /\ Listed' = Listed \cup {a \in Expired : Kept(a)}
         /\ \A a \in Addrs :
              heap'[a] = IF a \in Expired THEN IF Kept(a) THEN Restart(heap[a]) ELSE Free
                         ELSE heap[a]
<1> DEFINE again == {a \in Expired : Kept(a)}
<1>1. /\ \A a \in Addrs : heap'[a] = IF a \in again THEN Restart(heap[a])
                                     ELSE IF a \in Expired THEN Free ELSE heap[a]
      /\ timers' = timers \cup {<<Restart(heap[a]).exp, a>> : a \in again}
      /\ activeTimers' = activeTimers \cup {ActiveTimer(a) : a \in again}
      /\ batch' = {} /\ queue' = queue
  BY Zenon DEF Reset, Expired
<1>2. again \subseteq Addrs
  BY DEF Expired, Owned, TypeOK
<1>3. \A a \in again : Restart(heap[a]).seq = heap[a].seq
  <2> SUFFICES ASSUME NEW a \in again PROVE Restart(heap[a]).seq = heap[a].seq
    BY Zenon
  <2>1. heap[a] # Free
    BY <1>2, OwnerTerms DEF Owned
  <2> QED
    BY Zenon, <1>2, <2>1, Cells, RestartType DEF Owned, TypeOK
<1>4. \A e \in timers : e[2] \in Addrs \ Expired
  BY DEF Owned, TypeOK, OneOwner, Listed
<1>5. \A p \in activeTimers : p[1] \in Addrs \ Expired
  BY ActiveIsListed DEF Owned, TypeOK, OneOwner
<1>6. \A a \in Addrs \ Expired : heap'[a] = heap[a]
  BY Zenon, <1>1
<1>7. \A a \in again : heap'[a] = Restart(heap[a])
  BY Zenon, <1>1, <1>2
<1> HIDE DEF again
<1>8. ASSUME NEW e \in timers'
      PROVE  heap'[e[2]].exp = e[1] /\ <<e[2], heap'[e[2]].seq>> \in activeTimers'
  <2>1. CASE e \in timers
    BY Zenon, <1>1, <1>4, <1>6, <2>1 DEF Owned, SetsAgree, ActiveTimer
  <2>2. CASE \E a \in again : e = <<Restart(heap[a]).exp, a>>
    BY <1>1, <1>3, <1>7, <2>2 DEF ActiveTimer
  <2> QED
    BY Zenon, <1>1, <2>1, <2>2
<1>9. ASSUME NEW p \in activeTimers'
      PROVE  heap'[p[1]].seq = p[2] /\ <<heap'[p[1]].exp, p[1]>> \in timers'
  <2>1. CASE p \in activeTimers
    BY <1>1, <1>5, <1>6, <2>1 DEF Owned, SetsAgree
  <2>2. CASE \E a \in again : p = ActiveTimer(a)
    BY <1>1, <1>3, <1>7, <2>2 DEF ActiveTimer
  <2> QED
    BY <1>1, <2>1, <2>2
<1>10. Listed' = Listed \cup again
  <2>1. \A e \in timers' : e \in timers \/ e[2] \in again
    BY <1>1
  <2>2. \A a \in again : <<Restart(heap[a]).exp, a>> \in timers'
    BY <1>1
  <2>3. \A a \in again : \E e \in timers' : e[2] = a
    BY Zenon, <2>2
  <2> QED
    BY <1>1, <2>1, <2>3 DEF Listed
<1>11. Expired' = {} /\ QueuedAdds' = QueuedAdds /\ AddedOnce'
  BY <1>1 DEF Expired, QueuedAdds, AddedOnce, Owned
<1>12. SetsAgree'
  BY <1>8, <1>9 DEF SetsAgree, ActiveTimer
<1> QED
  BY Zenon, <1>1, <1>10, <1>11, <1>12 DEF again

\* In the initial state there is no timer.
LEMMA InitOwned == Init => Owned
<1> SUFFICES ASSUME Init PROVE Owned
  OBVIOUS
<1>1. TypeOK
  BY InitType
<1>2. Listed = {} /\ Expired = {} /\ QueuedAdds = {}
  BY DEF Init, Listed, Expired, QueuedAdds
<1>3. SetsAgree /\ AddedOnce
  BY DEF Init, SetsAgree, AddedOnce
<1>4. \A a \in Addrs : heap[a] = Free
  BY DEF Init
<1> QED
  BY <1>1, <1>2, <1>3, <1>4 DEF Owned, OneOwner

\* The steps that leave the timers, the sets, the batch and the queue alone.
Elsewhere ==
  \/ Tick \/ SetClockBack \/ Poll \/ DispatchDone \/ FunctorsDone
  \/ \E e \in todo : RunCallback(e)
  \/ \E c \in Callers : CallerAddTimerReturns(c)
  \/ UNCHANGED vars

\* The steps that touch them, and the others.
LEMMA NextCases ==
  ASSUME [Next]_vars
  PROVE  \/ Elsewhere \/ HandleRead \/ Reset \/ RunFunctor \/ UserAddTimer \/ UserCancel
         \/ \E c \in Callers : CallerAddTimer(c) \/ CallerCancel(c)
BY DEF Next, Iterate, Elsewhere

\* What the other steps leave alone.
LEMMA ElsewhereSame ==
  ASSUME Elsewhere
  PROVE  UNCHANGED <<heap, nextSeq, timers, activeTimers, cancelingTimers, batch, queue, Dead>>
BY Zenon DEF Elsewhere, Tick, SetClockBack, Poll, DispatchDone, FunctorsDone, RunCallback,
  CallerAddTimerReturns, vars, clockVars, loopVars, setVars, history, Dead

\* A timer that is allocated for the queue or the sets gets one owner.
LEMMA NewOwner ==
  ASSUME Owned, TypeOK', NEW a \in Addrs, heap[a] = Free, heap'[a] # Free,
         \A b \in Addrs \ {a} : heap'[b] = heap[b], Expired' = Expired,
         \/ QueuedAdds' = QueuedAdds \cup {a} /\ Listed' = Listed
         \/ QueuedAdds' = QueuedAdds /\ Listed' = Listed \cup {a}
  PROVE  OneOwner'
<1>1. a \notin QueuedAdds /\ a \notin Listed /\ a \notin Expired
  BY OwnerTerms DEF Owned
<1>3. /\ \A b \in Addrs : heap[b] # Free <=> b \in QueuedAdds \cup Listed \cup Expired
      /\ \A b \in Addrs : ~(b \in QueuedAdds /\ b \in Listed)
      /\ \A b \in Addrs : ~(b \in QueuedAdds /\ b \in Expired)
      /\ \A b \in Addrs : ~(b \in Listed /\ b \in Expired)
  BY Zenon, OwnerTerms DEF Owned
<1>4. \A b \in Addrs : heap'[b] # Free <=> b \in QueuedAdds' \cup Listed' \cup Expired'
  BY <1>3
<1> QED
  BY Zenon, <1>1, <1>3, <1>4, OwnerTermsNext

\* A timer that is deleted has no owner.
LEMMA CancelOwner ==
  ASSUME Owned, TypeOK', NEW a \in Addrs, \A b \in Addrs \ {a} : heap'[b] = heap[b],
         QueuedAdds' = QueuedAdds, Expired' = Expired,
         \/ a \in Listed /\ heap'[a] = Free /\ Listed' = Listed \ {a}
         \/ heap' = heap /\ Listed' = Listed
  PROVE  OneOwner'
<1>1. /\ \A b \in Addrs : heap[b] # Free <=> b \in QueuedAdds \cup Listed \cup Expired
      /\ \A b \in Addrs : ~(b \in QueuedAdds /\ b \in Listed)
      /\ \A b \in Addrs : ~(b \in QueuedAdds /\ b \in Expired)
      /\ \A b \in Addrs : ~(b \in Listed /\ b \in Expired)
  BY Zenon, OwnerTerms DEF Owned
<1>2. CASE a \in Listed /\ heap'[a] = Free /\ Listed' = Listed \ {a}
  <2>1. \A b \in Addrs : heap'[b] # Free <=> b \in QueuedAdds' \cup Listed' \cup Expired'
    BY <1>1, <1>2
  <2> QED
    BY <1>1, <1>2, <2>1, OwnerTermsNext
<1>3. CASE heap' = heap /\ Listed' = Listed
  BY <1>1, <1>3, OwnerTermsNext
<1> QED
  BY <1>2, <1>3

\* Every step keeps the types, the agreement of the sets and one owner a timer.
LEMMA NextOwned ==
  ASSUME Owned, BatchInTime, [Next]_vars PROVE Owned'
<1>0. TypeOK' /\ TypeOK
  BY NextType DEF Owned
<1>1. CASE Elsewhere
  <2>1. UNCHANGED <<heap, timers, activeTimers, batch, queue>>
    BY <1>1, ElsewhereSame
  <2>2. UNCHANGED <<QueuedAdds, Listed, Expired>> /\ AddedOnce'
    BY <2>1 DEF QueuedAdds, Listed, Expired, Owned, AddedOnce
  <2>3. SetsAgree'
    BY Zenon, <2>1 DEF Owned, SetsAgree, ActiveTimer
  <2> QED
    BY <1>0, <2>1, <2>2, <2>3 DEF Owned, OneOwner
<1>2. CASE HandleRead
  <2>1. batch = {} /\ Expired = {}
    BY Zenon, <1>2 DEF BatchInTime, HandleRead, Expired
  <2>2. /\ SetsAgree' /\ AddedOnce' /\ heap' = heap /\ QueuedAdds' = QueuedAdds
        /\ Listed' \cap Expired' = {} /\ Listed = Listed' \cup Expired'
    BY <1>2, <2>1, HandleReadOwned
  <2>3. OneOwner'
    BY <2>1, <2>2 DEF Owned, OneOwner
  <2> QED
    BY <1>0, <2>2, <2>3 DEF Owned
<1>3. CASE Reset
  <2>1. /\ SetsAgree' /\ AddedOnce' /\ QueuedAdds' = QueuedAdds /\ Expired' = {}
        /\ Listed' = Listed \cup {a \in Expired : Kept(a)}
        /\ \A a \in Addrs :
             heap'[a] = IF a \in Expired THEN IF Kept(a) THEN Restart(heap[a]) ELSE Free
                        ELSE heap[a]
    BY Zenon, <1>3, ResetOwned
  <2>2. \A a \in Addrs : a \in Expired => heap[a] # Free
    BY <1>0, OwnerTerms DEF Owned
  <2>3. \A a \in Addrs : a \in Expired => Restart(heap[a]) # Free
    BY Zenon, <1>0, <2>2, Cells, RestartType, TimerIsNotFree, TypeParts
  <2>4. OneOwner'
    <3>1. /\ \A a \in Addrs : heap[a] # Free <=> a \in QueuedAdds \cup Listed \cup Expired
          /\ \A a \in Addrs : ~(a \in QueuedAdds /\ a \in Listed)
          /\ \A a \in Addrs : ~(a \in QueuedAdds /\ a \in Expired)
          /\ \A a \in Addrs : ~(a \in Listed /\ a \in Expired)
      BY <1>0, OwnerTerms DEF Owned
    <3>2. \A a \in Addrs : heap'[a] # Free <=> a \in QueuedAdds' \cup Listed' \cup Expired'
      BY ONLY Zenon, <2>1, <2>3, <3>1
    <3>3. /\ \A a \in Addrs : ~(a \in QueuedAdds' /\ a \in Listed')
          /\ \A a \in Addrs : ~(a \in QueuedAdds' /\ a \in Expired')
          /\ \A a \in Addrs : ~(a \in Listed' /\ a \in Expired')
      BY ONLY Zenon, <2>1, <3>1
    <3> QED
      BY Zenon, <1>0, <3>2, <3>3, OwnerTermsNext
  <2> QED
    BY Zenon, <1>0, <2>1, <2>4 DEF Owned
<1>4. CASE RunFunctor
  <2> DEFINE f == Head(queue)
  <2>1. queue # <<>> /\ f \in Functor /\ queue' = Tail(queue) /\ Expired' = Expired
    <3>1. queue # <<>> /\ queue' = Tail(queue) /\ batch' = batch
      BY <1>4 DEF RunFunctor, loopVars
    <3> QED
      BY Zenon, <1>0, <3>1, TypeParts, HeadTailProperties DEF Expired
  <2>2. f.addr \in Addrs /\ f.seq \in Int
    BY <2>1 DEF Functor
  <2>0. queue \in Seq(Functor) /\ AddsOnce(queue)
    BY <1>0, TypeParts, QueueTerms DEF Owned
  <2>3. AddedOnce'
    BY ONLY Zenon, <2>0, <2>1, PopAdds, QueueTerms
  <2>4. /\ f.op = "add" => QueuedAdds = QueuedAdds' \cup {f.addr} /\ f.addr \notin QueuedAdds'
        /\ f.op # "add" => QueuedAdds' = QueuedAdds
    BY ONLY <2>0, <2>1, PopAdds, QueueTerms
  <2> HIDE DEF f
  <2>5. CASE f.op = "add" /\ AddTimerInLoop(f.addr, heap[f.addr]) /\ heap' = heap
    <3>1. f.addr \in QueuedAdds /\ f.addr \notin Listed /\ f.addr \notin Expired
      BY Zenon, <2>4, <2>5, <2>2, <1>0, OwnerTerms DEF Owned
    <3>2. heap[f.addr] \in Timer
      BY Zenon, <1>0, <2>2, <3>1, OwnerTerms, Cells DEF Owned
    <3>3. SetsAgree' /\ Listed' = Listed \cup {f.addr}
      BY Zenon, <1>0, <2>2, <2>5, <3>1, <3>2, AddLists DEF Owned
    <3>4. OneOwner'
      <4>1. OneOwner
        BY DEF Owned
      <4> QED
        BY ONLY <2>1, <2>4, <2>5, <3>1, <3>3, <4>1 DEF OneOwner
    <3> QED
      BY <1>0, <2>3, <3>3, <3>4 DEF Owned
  <2>6. CASE f.op = "cancel" /\ CancelInLoop(<<f.addr, f.seq>>)
    <3>1. /\ SetsAgree'
          /\ \A b \in Addrs \ {f.addr} : heap'[b] = heap[b]
          /\ \/ /\ f.addr \in Listed
                /\ heap'[f.addr] = Free /\ Listed' = Listed \ {f.addr}
             \/ heap' = heap /\ Listed' = Listed
      BY <1>0, <2>2, <2>6, CancelUnlists DEF Owned
    <3>2. OneOwner'
      BY Zenon, <1>0, <2>1, <2>2, <2>4, <2>6, <3>1, CancelOwner
    <3> QED
      BY <1>0, <2>3, <3>1, <3>2 DEF Owned
  <2> QED
    BY Zenon, <1>4, <2>5, <2>6 DEF RunFunctor, f
<1>5. CASE UserAddTimer
  <2>1. PICK a \in Addrs, r \in Requests : Allocate(a, r) /\ AddTimerInLoop(a, NewTimer(r))
    BY <1>5 DEF UserAddTimer
  <2>2. /\ heap[a] = Free /\ NewTimer(r) \in Timer /\ heap'[a] = NewTimer(r)
        /\ \A b \in Addrs \ {a} : heap'[b] = heap[b]
    BY Zenon, <1>0, <2>1, AllocateType DEF Allocate
  <2>3. a \notin Listed /\ heap'[a] # Free
    BY Zenon, <1>0, <2>2, OwnerTerms, TimerIsNotFree DEF Owned
  <2>4. SetsAgree' /\ Listed' = Listed \cup {a}
    BY Zenon, <1>0, <2>1, <2>2, <2>3, AddLists DEF Owned
  <2>5. QueuedAdds' = QueuedAdds /\ Expired' = Expired /\ AddedOnce'
    BY Zenon, <1>5 DEF UserAddTimer, loopVars, QueuedAdds, Expired, AddedOnce, Owned
  <2>6. OneOwner'
    BY Zenon, <1>0, <2>2, <2>3, <2>4, <2>5, NewOwner
  <2> QED
    BY <1>0, <2>4, <2>5, <2>6 DEF Owned
<1>6. CASE UserCancel
  <2>1. PICK id \in ids : CancelInLoop(id)
    BY <1>6 DEF UserCancel
  <2>2. id \in Addrs \X Int /\ id[1] \in Addrs
    BY <1>0, TypeParts
  <2>3. /\ SetsAgree'
        /\ \A b \in Addrs \ {id[1]} : heap'[b] = heap[b]
        /\ \/ /\ id[1] \in Listed
              /\ heap'[id[1]] = Free /\ Listed' = Listed \ {id[1]}
           \/ heap' = heap /\ Listed' = Listed
    BY Zenon, <1>0, <2>1, <2>2, CancelUnlists DEF Owned
  <2>4. QueuedAdds' = QueuedAdds /\ Expired' = Expired /\ AddedOnce'
    BY <1>6 DEF UserCancel, loopVars, QueuedAdds, Expired, AddedOnce, Owned
  <2>5. OneOwner'
    BY <1>0, <2>2, <2>3, <2>4, CancelOwner
  <2> QED
    BY Zenon, <1>0, <2>3, <2>4, <2>5 DEF Owned
<1>7. ASSUME NEW c \in Callers, CallerAddTimer(c) PROVE Owned'
  <2>1. PICK a \in Addrs, r \in Requests :
          /\ Allocate(a, r)
          /\ queue' = Append(queue, [op |-> "add", addr |-> a, seq |-> nextSeq])
    BY Zenon, <1>7 DEF CallerAddTimer
  <2>2. /\ heap[a] = Free /\ NewTimer(r) \in Timer /\ heap'[a] = NewTimer(r)
        /\ \A b \in Addrs \ {a} : heap'[b] = heap[b]
    BY Zenon, <1>0, <2>1, AllocateType DEF Allocate
  <2>3. /\ a \notin QueuedAdds /\ a \notin Listed /\ heap'[a] # Free
    BY Zenon, <1>0, <2>2, OwnerTerms, TimerIsNotFree DEF Owned
  <2>4. [op |-> "add", addr |-> a, seq |-> nextSeq] \in Functor
    <3>1. nextSeq \in Int
      BY TypeParts DEF Owned
    <3> QED
      BY ONLY <3>1, a \in Addrs DEF Functor
  <2>5. QueuedAdds' = QueuedAdds \cup {a} /\ AddedOnce'
    <3>1. queue \in Seq(Functor) /\ AddsOnce(queue)
      BY <1>0, TypeParts, QueueTerms DEF Owned
    <3>2. /\ [op |-> "add", addr |-> a, seq |-> nextSeq].op = "add"
          /\ [op |-> "add", addr |-> a, seq |-> nextSeq].addr = a
      OBVIOUS
    <3> QED
      BY ONLY Zenon, <2>1, <2>3, <2>4, <3>1, <3>2, PushAdds, QueueTerms
  <2>6. timers' = timers /\ activeTimers' = activeTimers /\ batch' = batch
    BY Zenon, <1>7 DEF CallerAddTimer, loopVars, setVars
  <2>7. Listed' = Listed /\ Expired' = Expired
    BY <2>6 DEF Listed, Expired
  <2>8. SetsAgree'
    <3>1. \A e \in timers : e[2] \in Addrs \ {a}
      BY Zenon, <1>0, <2>3 DEF Listed, TypeOK
    <3>2. \A p \in activeTimers : p[1] \in Addrs \ {a}
      BY Zenon, <1>0, <2>3, ActiveIsListed, TypeParts DEF Owned
    <3> QED
      BY Zenon, <2>2, <2>6, <3>1, <3>2 DEF Owned, SetsAgree, ActiveTimer
  <2>9. OneOwner'
    BY Zenon, <1>0, <2>2, <2>3, <2>5, <2>7, NewOwner
  <2> QED
    BY <1>0, <2>5, <2>8, <2>9 DEF Owned
<1>8. ASSUME NEW c \in Callers, CallerCancel(c) PROVE Owned'
  <2>1. PICK id \in ids :
          queue' = Append(queue, [op |-> "cancel", addr |-> id[1], seq |-> id[2]])
    BY Zenon, <1>8 DEF CallerCancel
  <2>2. [op |-> "cancel", addr |-> id[1], seq |-> id[2]] \in Functor
    <3>1. id[1] \in Addrs /\ id[2] \in Int
      BY TypeParts DEF Owned
    <3> QED
      BY ONLY <3>1 DEF Functor
  <2>3. QueuedAdds' = QueuedAdds /\ AddedOnce'
    BY Zenon, <1>0, <2>1, <2>2, PushAdds, QueueTerms DEF Owned, TypeOK
  <2> QED
    BY Zenon, <1>0, <1>8, <2>3 DEF CallerCancel, loopVars, setVars, Owned, SetsAgree, ActiveTimer,
      OneOwner, Listed, Expired
<1> QED
  BY <1>1, <1>2, <1>3, <1>4, <1>5, <1>6, <1>7, <1>8, NextCases

-----------------------------------------------------------------------------
(* Sequences, and the cancelled timers                                     *)

\* Sequences are kept, or lost with the timer.
SameNumbers ==
  /\ nextSeq' = nextSeq
  /\ \A a \in Addrs : heap'[a].seq = heap[a].seq \/ heap'[a] = Free

\* The cell of a new timer, and the others.
NewNumber(a) ==
  /\ heap[a] = Free /\ heap'[a].seq = nextSeq /\ nextSeq' = nextSeq + 1
  /\ \A b \in Addrs \ {a} : heap'[b] = heap[b]

\* Cells, in the next state.
LEMMA CellsNext ==
  ASSUME TypeOK', NEW a \in Addrs
  PROVE  (heap'[a] # Free <=> heap'[a].seq \in Nat) /\ heap'[a].seq \in Int
BY DEF TypeOK, Timer, Free

\* Every step gives one timer the next sequence, or none.
LEMMA NumberSteps ==
  ASSUME Owned, [Next]_vars
  PROVE  SameNumbers \/ \E a \in Addrs : NewNumber(a)
<1>0. TypeOK
  BY DEF Owned
<1>1. CASE heap' = heap /\ nextSeq' = nextSeq
  BY <1>1 DEF SameNumbers
<1>2. CASE Elsewhere \/ HandleRead \/ (\E c \in Callers : CallerCancel(c))
  BY Zenon, <1>1, <1>2, ElsewhereSame DEF HandleRead, CallerCancel
<1>3. CASE Reset
  <2>1. nextSeq' = nextSeq /\ \A a \in Addrs :
              heap'[a] = IF a \in Expired THEN IF Kept(a) THEN Restart(heap[a]) ELSE Free
                         ELSE heap[a]
    BY Zenon, <1>3, ResetOwned DEF Reset
  <2>2. \A a \in Addrs : a \in Expired => Restart(heap[a]).seq = heap[a].seq
    BY Zenon, <1>0, OwnerTerms, Cells, RestartType DEF Owned, TypeOK
  <2> QED
    BY Zenon, <2>1, <2>2 DEF SameNumbers
<1>4. ASSUME NEW id \in Addrs \X Int, CancelInLoop(id), nextSeq' = nextSeq PROVE SameNumbers
  BY Zenon, <1>0, <1>4, CancelUnlists DEF Owned, SameNumbers
<1>5. CASE RunFunctor
  <2>1. Head(queue) \in Functor
    BY Zenon, <1>0, <1>5, HeadTailProperties DEF RunFunctor, TypeOK
  <2>2. <<Head(queue).addr, Head(queue).seq>> \in Addrs \X Int
    BY <2>1 DEF Functor
  <2> QED
    BY Zenon, <1>1, <1>4, <1>5, <2>2 DEF RunFunctor
<1>6. CASE UserCancel
  BY Zenon, <1>0, <1>4, <1>6 DEF UserCancel, TypeOK
<1>7. ASSUME NEW a \in Addrs, NEW r \in Requests, Allocate(a, r) PROVE NewNumber(a)
  BY Zenon, <1>0, <1>7, AllocateType DEF Allocate, NewNumber
<1>8. CASE UserAddTimer \/ \E c \in Callers : CallerAddTimer(c)
  BY Zenon, <1>7, <1>8 DEF UserAddTimer, CallerAddTimer
<1> QED
  BY <1>2, <1>3, <1>5, <1>6, <1>8, NextCases

\* Every step keeps the sequences different and below the next one.
LEMMA NextNumbered ==
  ASSUME Owned, NumberedOnce, [Next]_vars PROVE NumberedOnce'
<1>0. TypeOK /\ TypeOK'
  BY NextType DEF Owned
<1>1. nextSeq \in Nat
  BY Zenon, <1>0 DEF TypeOK
<1>2. \A a \in Addrs : /\ heap[a].seq \in Int /\ heap'[a].seq \in Int
                       /\ heap[a] # Free <=> heap[a].seq \in Nat
                       /\ heap'[a] # Free <=> heap'[a].seq \in Nat
  BY Zenon, <1>0, Cells, CellsNext
<1>3. CASE SameNumbers
  <2>1. \A a \in Addrs : heap'[a] # Free => heap'[a].seq = heap[a].seq
    BY Zenon, <1>3 DEF SameNumbers
  <2>2. \A a \in Addrs : heap'[a].seq < nextSeq
    BY <1>1, <1>2, <2>1 DEF NumberedOnce
  <2>3. ASSUME NEW a \in Addrs, NEW b \in Addrs, heap'[a].seq = heap'[b].seq,
               heap'[a] # Free
        PROVE  a = b
    <3>1. heap'[b] # Free
      BY Zenon, <1>2, <2>3
    <3>2. heap[a].seq = heap[b].seq /\ heap[a] # Free
      BY Zenon, <1>2, <2>1, <2>3, <3>1
    <3> QED
      BY <3>2 DEF NumberedOnce
  <2> QED
    BY Zenon, <1>3, <2>2, <2>3 DEF NumberedOnce, SameNumbers
<1>4. ASSUME NEW a \in Addrs, NewNumber(a) PROVE NumberedOnce'
  <2>1. /\ heap'[a].seq = nextSeq /\ nextSeq' = nextSeq + 1
        /\ \A b \in Addrs \ {a} : heap'[b] = heap[b] /\ heap[b].seq < nextSeq
    BY Zenon, <1>4 DEF NewNumber, NumberedOnce
  <2>2. \A b \in Addrs : heap'[b].seq < nextSeq'
    BY <1>1, <1>2, <2>1
  <2>3. \A b, c \in Addrs : heap'[b].seq = heap'[c].seq /\ heap'[b] # Free => b = c
    BY <1>1, <1>2, <2>1 DEF NumberedOnce
  <2> QED
    BY Zenon, <2>2, <2>3 DEF NumberedOnce
<1> QED
  BY <1>3, <1>4, NumberSteps

\* History: the queue has the timer, in its sets or in the batch.
Known(id) == id \in activeTimers \cup {ActiveTimer(e[2]) : e \in batch}

\* A cancel has an effect on the timers that the queue has.
LEMMA CancelCounts ==
  ASSUME Owned, NEW id \in Addrs \X Int, CancelInLoop(id)
  PROVE  /\ Known(id) => Dead' = Dead \cup {id[2]}
         /\ ~Known(id) => Dead' \subseteq Dead
<1> DEFINE a == id[1]
           Lives == heap[a] # Free /\ heap[a].seq = id[2]
<1>0. TypeOK /\ a \in Addrs /\ id = <<a, id[2]>>
  BY DEF Owned
<1>1. ASSUME Known(id) PROVE Lives /\ a \in Listed \cup Expired
  <2>1. CASE id \in activeTimers
    <3>1. heap[a].seq = id[2] /\ <<heap[a].exp, a>> \in timers
      BY Zenon, <2>1 DEF Owned, SetsAgree
    <3>2. a \in Listed
      BY <3>1 DEF Listed
    <3> QED
      BY Zenon, <1>0, <3>1, <3>2, OwnerTerms DEF Owned
  <2>2. CASE id \notin activeTimers
    <3>1. PICK e \in batch : id = ActiveTimer(e[2])
      BY Zenon, <1>1, <2>2 DEF Known
    <3>2. a = e[2] /\ heap[a].seq = id[2]
      BY Zenon, <3>1 DEF ActiveTimer
    <3>3. a \in Expired
      BY Zenon, <3>1, <3>2 DEF Expired
    <3> QED
      BY Zenon, <1>0, <3>2, <3>3, OwnerTerms DEF Owned
  <2> QED
    BY Zenon, <2>1, <2>2
<1>2. ASSUME Lives, ~Known(id) PROVE a \in QueuedAdds
  <2>1. CASE a \in Listed
    <3>1. PICK e \in timers : e[2] = a
      BY Zenon, <2>1 DEF Listed
    <3>2. ActiveTimer(e[2]) \in activeTimers
      BY Zenon DEF Owned, SetsAgree
    <3>3. id = ActiveTimer(e[2])
      BY Zenon, <1>0, <1>2, <3>1 DEF ActiveTimer
    <3> QED
      BY Zenon, <1>2, <3>2, <3>3 DEF Known
  <2>2. CASE a \in Expired
    <3>1. PICK e \in batch : e[2] = a
      BY Zenon, <2>2 DEF Expired
    <3>2. id = ActiveTimer(e[2])
      BY Zenon, <1>0, <1>2, <3>1 DEF ActiveTimer
    <3> QED
      BY Zenon, <1>2, <3>1, <3>2 DEF Known
  <2> QED
    BY Zenon, <1>0, <1>2, <2>1, <2>2, OwnerTerms DEF Owned
<1>3. Known(id) => a \notin QueuedAdds
  BY Zenon, <1>0, <1>1, OwnerTerms DEF Owned
<1>4. RecordCancel(id)
  BY Zenon DEF CancelInLoop
<1>5. CASE Known(id)
  BY <1>1, <1>3, <1>4, <1>5 DEF RecordCancel, Dead
<1>6. CASE ~Known(id) /\ Lives
  BY <1>2, <1>4, <1>6 DEF RecordCancel, Dead
<1>7. CASE ~Lives
  BY <1>1, <1>4, <1>7 DEF RecordCancel, Dead
<1> QED
  BY Zenon, <1>5, <1>6, <1>7

\* cancelInLoop deletes a timer or, in the batch, marks it.
LEMMA CancelMarks ==
  ASSUME Owned, NumberedOnce, DeadAreMarked, BatchInTime, NEW id \in Addrs \X Int,
         CancelInLoop(id), nextSeq' = nextSeq, batch' = batch
  PROVE  DeadAreMarked'
<1>0. TypeOK /\ id[1] \in Addrs /\ id = <<id[1], id[2]>> /\ nextSeq \in Nat
  BY DEF Owned, TypeOK
<1>1. Expired' = Expired
  BY Zenon DEF Expired
<1>2. /\ Known(id) => Dead' = Dead \cup {id[2]}
      /\ ~Known(id) => Dead' \subseteq Dead
  BY Zenon, CancelCounts
<1>3. CASE id \in activeTimers
  <2>0. Dead' = Dead \cup {id[2]}
    BY Zenon, <1>2, <1>3 DEF Known
  <2>1. /\ \A b \in Addrs \ {id[1]} : heap'[b] = heap[b]
        /\ id[1] \in Listed /\ heap[id[1]].seq = id[2] /\ heap'[id[1]] = Free
    BY Zenon, <1>0, <1>3, CancelUnlists DEF Owned
  <2>2. heap[id[1]] # Free
    BY Zenon, <1>0, <2>1, OwnerTerms DEF Owned
  <2>3. id[2] \in Nat /\ id[2] < nextSeq
    BY Zenon, <1>0, <2>1, <2>2, Cells DEF NumberedOnce
  <2>4. \A b \in Addrs \ {id[1]} : heap[b].seq # id[2]
    BY Zenon, <1>0, <2>1, <2>2 DEF NumberedOnce
  <2>5. cancelingTimers' = cancelingTimers
    BY Zenon, <1>3 DEF CancelInLoop
  <2>6. ASSUME NEW b \in Addrs, heap'[b].seq \in Dead'
        PROVE  b \in Expired /\ <<b, heap'[b].seq>> \in cancelingTimers
    <3>1. heap'[b].seq \in Nat
      BY Zenon, <2>0, <2>3, <2>6 DEF DeadAreMarked
    <3>3. b # id[1]
      BY ONLY Zenon, <2>1, <3>1, FreeSeq
    <3> QED
      BY Zenon, <2>0, <2>1, <2>4, <2>6, <3>3 DEF DeadAreMarked, ActiveTimer
  <2>7. \A s \in Dead' : s \in Nat /\ s < nextSeq
    BY Zenon, <2>0, <2>3 DEF DeadAreMarked
  <2> QED
    BY Zenon, <1>1, <2>5, <2>6, <2>7 DEF DeadAreMarked, ActiveTimer
<1>4. CASE id \notin activeTimers /\ Known(id)
  <2>1. PICK e \in batch : id = ActiveTimer(e[2])
    BY Zenon, <1>4 DEF Known
  <2>2. e[2] \in Expired /\ e[2] \in Addrs
    BY Zenon, <1>0 DEF Expired, TypeOK
  <2>3. id[1] = e[2] /\ id[2] = heap[e[2]].seq
    BY Zenon, <2>1 DEF ActiveTimer
  <2>4. heap[e[2]] # Free
    BY Zenon, <1>0, <2>2, OwnerTerms DEF Owned
  <2>5. id[2] \in Nat /\ id[2] < nextSeq
    BY Zenon, <1>0, <2>2, <2>3, <2>4, Cells DEF NumberedOnce
  <2>6. cancelingTimers' = cancelingTimers \cup {id} /\ heap' = heap
    BY Zenon, <1>4, <2>1 DEF CancelInLoop, BatchInTime
  <2>7. ASSUME NEW b \in Addrs, heap[b].seq \in Dead'
        PROVE  b \in Expired /\ ActiveTimer(b) \in cancelingTimers'
    <3>1. CASE heap[b].seq \in Dead
      BY Zenon, <2>6, <3>1 DEF DeadAreMarked
    <3>2. CASE heap[b].seq = id[2]
      BY Zenon, <2>1, <2>2, <2>3, <2>4, <2>6, <3>2 DEF NumberedOnce
    <3> QED
      BY Zenon, <1>2, <1>4, <2>7, <3>1, <3>2
  <2>8. \A s \in Dead' : s \in Nat /\ s < nextSeq
    BY Zenon, <1>2, <1>4, <2>5 DEF DeadAreMarked
  <2> QED
    BY Zenon, <1>1, <2>6, <2>7, <2>8 DEF DeadAreMarked, ActiveTimer
<1>5. CASE ~Known(id)
  <2>1. Dead' \subseteq Dead /\ heap' = heap /\ cancelingTimers \subseteq cancelingTimers'
    BY Zenon, <1>2, <1>5 DEF CancelInLoop, Known
  <2> QED
    BY Zenon, <1>1, <2>1 DEF DeadAreMarked, ActiveTimer
<1> QED
  BY Zenon, <1>3, <1>4, <1>5

\* Every step keeps cancelled timers marked.
LEMMA NextDead ==
  ASSUME Owned, NumberedOnce, DeadAreMarked, BatchInTime, [Next]_vars
  PROVE  DeadAreMarked'
<1>0. TypeOK /\ nextSeq \in Nat
  BY Zenon DEF Owned, TypeOK
<1>1. CASE heap' = heap /\ UNCHANGED <<nextSeq, batch, cancelingTimers, Dead>>
  BY <1>1 DEF DeadAreMarked, ActiveTimer, Expired
<1>2. CASE Elsewhere \/ (\E c \in Callers : CallerCancel(c))
  BY Zenon, <1>1, <1>2, ElsewhereSame DEF CallerCancel, loopVars, setVars, history, Dead
<1>3. CASE HandleRead
  <2>1. batch = {} /\ heap' = heap /\ nextSeq' = nextSeq /\ Dead' = Dead
    BY Zenon, <1>3 DEF HandleRead, BatchInTime, history, Dead
  <2>2. \A a \in Addrs : heap[a].seq \notin Dead
    BY Zenon, <2>1 DEF DeadAreMarked, Expired
  <2> QED
    BY Zenon, <2>1, <2>2 DEF DeadAreMarked
<1>4. CASE Reset
  <2>1. /\ nextSeq' = nextSeq /\ Dead' = Dead
        /\ \A a \in Addrs :
              heap'[a] = IF a \in Expired THEN IF Kept(a) THEN Restart(heap[a]) ELSE Free
                         ELSE heap[a]
    BY Zenon, <1>4, ResetOwned DEF Reset, history, Dead
  <2>2. \A a \in Addrs : a \in Expired => Restart(heap[a]).seq = heap[a].seq
    BY Zenon, <1>0, OwnerTerms, Cells, RestartType DEF Owned, TypeOK
  <2>3. Free.seq \notin Dead
    BY Zenon, FreeSeq DEF DeadAreMarked
  <2>4. \A a \in Addrs : heap'[a].seq \notin Dead
    BY Zenon, <2>1, <2>2, <2>3 DEF DeadAreMarked, Kept
  <2> QED
    BY Zenon, <2>1, <2>4 DEF DeadAreMarked
<1>5. CASE RunFunctor
  <2>1. Head(queue) \in Functor
    BY Zenon, <1>0, <1>5, HeadTailProperties DEF RunFunctor, TypeOK
  <2>2. <<Head(queue).addr, Head(queue).seq>> \in Addrs \X Int
    BY <2>1 DEF Functor
  <2>3. nextSeq' = nextSeq /\ batch' = batch
    BY Zenon, <1>5 DEF RunFunctor, loopVars
  <2>4. \/ heap' = heap /\ UNCHANGED <<cancelingTimers, Dead>>
        \/ CancelInLoop(<<Head(queue).addr, Head(queue).seq>>)
    BY Zenon, <1>5 DEF RunFunctor, AddTimerInLoop, Dead
  <2> QED
    BY <1>1, <2>2, <2>3, <2>4, CancelMarks
<1>6. CASE UserCancel
  <2>1. PICK id \in ids : CancelInLoop(id)
    BY <1>6 DEF UserCancel
  <2>2. id \in Addrs \X Int /\ nextSeq' = nextSeq /\ batch' = batch
    BY Zenon, <1>0, <1>6 DEF TypeOK, UserCancel, loopVars
  <2> QED
    BY <2>1, <2>2, CancelMarks
<1>7. ASSUME NEW a \in Addrs, NewNumber(a), UNCHANGED <<batch, cancelingTimers, Dead>>
      PROVE  DeadAreMarked'
  <2>1. /\ heap'[a].seq = nextSeq /\ nextSeq' = nextSeq + 1
        /\ \A b \in Addrs \ {a} : heap'[b] = heap[b]
    BY Zenon, <1>7 DEF NewNumber
  <2>2. nextSeq \notin Dead /\ \A s \in Dead : s \in Nat /\ s < nextSeq'
    <3>1. \A s \in Dead : s \in Nat /\ s < nextSeq
      BY Zenon DEF DeadAreMarked
    <3> QED
      BY ONLY <1>0, <2>1, <3>1
  <2>3. Expired' = Expired
    BY <1>7 DEF Expired
  <2> QED
    BY Zenon, <1>7, <2>1, <2>2, <2>3 DEF DeadAreMarked, ActiveTimer
<1>8. CASE UserAddTimer \/ \E c \in Callers : CallerAddTimer(c)
  <2>1. UNCHANGED <<batch, cancelingTimers, Dead>>
    BY Zenon, <1>8 DEF UserAddTimer, CallerAddTimer, AddTimerInLoop, loopVars, setVars, Dead
  <2>2. \E a \in Addrs, r \in Requests : Allocate(a, r)
    BY Zenon, <1>8 DEF UserAddTimer, CallerAddTimer
  <2>3. \E a \in Addrs : NewNumber(a)
    BY Zenon, <1>0, <2>2, AllocateType DEF Allocate, NewNumber
  <2> QED
    BY <1>7, <2>1, <2>3
<1> QED
  BY <1>2, <1>3, <1>4, <1>5, <1>6, <1>8, NextCases

-----------------------------------------------------------------------------
(* The timerfd                                                             *)

\* The timerfd goes off no later than a time.
InTime(time) == left # Disarmed /\ (left = 0 \/ left <= time - clock)

\* addTimerInLoop arms the timerfd if the timer is earlier than what it is set for.
LEMMA AddArms ==
  ASSUME TypeOK, clock' = clock, NEW a \in Addrs, NEW t \in Timer, AddTimerInLoop(a, t),
         \A e \in timers : InTime(e[1])
  PROVE  \A e \in timers' : InTime(e[1])'
<1>0. /\ t.exp \in Nat /\ clock \in Nat /\ left \in Int
      /\ \A e \in timers : e[1] \in Nat
  BY TypeParts DEF Timer
<1>1. timers' = timers \cup {<<t.exp, a>>}
  BY DEF AddTimerInLoop
<1>2. CASE EarliestChanged(t)
  <2>1. left' \in Nat /\ (left' = 0 \/ left' = t.exp - clock)
    BY <1>0, <1>2, ResetTimerfdType DEF AddTimerInLoop
  <2>2. \A e \in timers : t.exp < e[1]
    BY <1>2 DEF EarliestChanged
  <2>3. \A e \in timers' : e[1] \in Int /\ t.exp <= e[1]
    BY <1>0, <1>1, <2>2
  <2> QED
    BY <1>0, <2>1, <2>3 DEF InTime, Disarmed
<1>3. CASE ~EarliestChanged(t)
  <2>1. left' = left
    BY <1>3 DEF AddTimerInLoop
  <2>2. PICK e \in timers : e[1] <= t.exp
    BY <1>0, <1>3 DEF EarliestChanged
  <2>3. left # Disarmed /\ (left = 0 \/ left <= t.exp - clock)
    BY <1>0, <2>2 DEF InTime
  <2> QED
    BY <1>0, <1>1, <2>1, <2>3 DEF InTime
<1> QED
  BY <1>2, <1>3

\* In the batch it goes off at once for a timer with an invalid time.
LEMMA AddArmsInBatch ==
  ASSUME TypeOK, clock' = clock, clock >= 1, NEW a \in Addrs, NEW t \in Timer,
         AddTimerInLoop(a, t), \A e \in timers : e[1] = 0 => left = 0
  PROVE  \A e \in timers' : e[1] = 0 => left' = 0
<1>0. t.exp \in Nat /\ clock \in Nat /\ \A e \in timers : e[1] \in Nat
  BY TypeParts DEF Timer
<1>1. timers' = timers \cup {<<t.exp, a>>}
  BY DEF AddTimerInLoop
<1>2. CASE EarliestChanged(t)
  <2>1. left' = HowMuchTimeFromNow(t.exp) /\ \A e \in timers : t.exp < e[1]
    BY Zenon, <1>2 DEF AddTimerInLoop, ResetTimerfd, EarliestChanged
  <2>2. \A e \in timers : e[1] # 0
    BY <1>0, <2>1
  <2>3. t.exp = 0 => left' = 0
    BY <1>0, <2>1 DEF HowMuchTimeFromNow
  <2> QED
    BY <1>1, <2>2, <2>3
<1>3. CASE ~EarliestChanged(t)
  <2>1. left' = left /\ \E e \in timers : e[1] <= t.exp
    BY <1>0, <1>3 DEF AddTimerInLoop, EarliestChanged
  <2>2. t.exp = 0 => left = 0
    BY <1>0, <2>1
  <2> QED
    BY <1>1, <2>1, <2>2
<1> QED
  BY <1>2, <1>3

\* NoMissedTimer, entry by entry.
LEMMA InTimeTerms ==
  /\ NoMissedTimer <=> (lpc # "batch" => \A e \in timers : InTime(e[1]))
  /\ NoMissedTimer' <=> (lpc' # "batch" => \A e \in timers' : InTime(e[1])')
BY DEF NoMissedTimer, InTime

\* Reset arms the timerfd for the earliest timer, or finds it expired.
LEMMA ResetArms ==
  ASSUME Owned, BatchInTime, Reset
  PROVE  NoMissedTimer'
<1>0. /\ TypeOK /\ TypeOK' /\ lpc = "batch" /\ clock' = clock /\ clock \in Int
      /\ now \in Nat /\ now >= 1
  <2>1. Next
    BY DEF Next, Iterate
  <2>2. TypeOK /\ TypeOK'
    BY <2>1, NextType DEF Owned
  <2> QED
    <3>1. clock \in Nat /\ now \in Nat
      BY <2>2, TypeParts
    <3>2. lpc = "batch" /\ clock' = clock
      BY Zenon DEF Reset, clockVars
    <3>3. now >= 1
      BY ONLY <3>2, BatchInTime DEF BatchInTime
    <3> QED
      BY ONLY <2>2, <3>1, <3>2, <3>3
<1>1. \A e \in timers' : e[1] \in Nat
  BY Zenon, <1>0 DEF TypeOK
<1>2. \A a \in Addrs : a \in Expired => Restart(heap[a]).exp \in Nat /\ Restart(heap[a]).exp >= now
  BY Zenon, <1>0, OwnerTerms, Cells, RestartType DEF Owned, Timer
<1>3. \A e \in timers' : e \in timers \/ e[1] >= now
  <2>1. timers' = timers \cup {<<Restart(heap[a]).exp, a>> : a \in {b \in Expired : Kept(b)}}
    BY Zenon DEF Reset, Expired
  <2>2. Expired \subseteq Addrs
    BY Zenon, <1>0, TypeParts
  <2> QED
    BY <1>2, <2>1, <2>2
<1>4. CASE UNCHANGED left /\ timers' = {}
  BY <1>4 DEF NoMissedTimer
<1>5. CASE UNCHANGED left /\ \E e \in timers' : e[1] = 0
  <2>1. PICK e \in timers' : e[1] = 0
    BY <1>5
  <2>2. e \in timers
    BY <1>0, <1>3, <2>1
  <2>3. left' = 0
    BY Zenon, <1>0, <1>5, <2>1, <2>2 DEF BatchInTime
  <2> QED
    BY <2>3 DEF NoMissedTimer, Disarmed
<1>6. ASSUME NEW e \in timers', \A d \in timers' : e[1] <= d[1], ResetTimerfd(e[1])
      PROVE  NoMissedTimer'
  <2>1. left' \in Nat /\ (left' = 0 \/ left' = e[1] - clock)
    BY Zenon, <1>0, <1>1, <1>6, ResetTimerfdType DEF TypeOK
  <2>2. \A d \in timers' : left' # Disarmed /\ (left' = 0 \/ left' <= d[1] - clock)
    BY <1>0, <1>1, <1>6, <2>1 DEF Disarmed
  <2> QED
    BY <1>0, <2>2 DEF NoMissedTimer
<1>7. \/ UNCHANGED left /\ (timers' = {} \/ \E e \in timers' : e[1] = 0)
      \/ \E e \in timers' : (\A d \in timers' : e[1] <= d[1]) /\ ResetTimerfd(e[1])
  BY Zenon DEF Reset
<1> QED
  BY <1>4, <1>5, <1>6, <1>7

\* Every step keeps the timerfd in time for the earliest timer.
LEMMA NextInTime ==
  ASSUME Owned, BatchInTime, NoMissedTimer, [Next]_vars
  PROVE  NoMissedTimer' /\ BatchInTime'
<1>0. /\ TypeOK /\ TypeOK' /\ clock \in Nat /\ now \in Nat
      /\ left \in Int /\ left >= Disarmed
      /\ \A e \in timers : e[1] \in Nat
  <2>1. TypeOK /\ TypeOK'
    BY NextType DEF Owned
  <2> QED
    BY <2>1, TypeParts
<1>1. CASE Tick
  <2>1. /\ clock' = clock + 1 /\ left' = (IF left > 0 THEN left - 1 ELSE left)
        /\ UNCHANGED <<timers, lpc, now, batch>>
    BY Zenon, <1>1 DEF Tick, loopVars, setVars
  <2>2. \A e \in timers : InTime(e[1]) => InTime(e[1])'
    <3>1. \A x \in Nat : InTime(x) => InTime(x)'
      BY ONLY <1>0, <2>1 DEF InTime, Disarmed
    <3> QED
      BY ONLY <1>0, <3>1
  <2>3. NoMissedTimer'
    BY <2>1, <2>2, InTimeTerms
  <2>4. left = 0 => left' = 0
    BY <2>1
  <2> QED
    BY <1>0, <2>1, <2>3, <2>4 DEF BatchInTime
<1>2. CASE SetClockBack
  <2>1. /\ clock > 1 /\ clock' = clock - 1
        /\ UNCHANGED <<left, timers, lpc, now, batch>>
    BY <1>2 DEF SetClockBack, loopVars, setVars
  <2>2. \A e \in timers : InTime(e[1]) => InTime(e[1])'
    <3>1. \A x \in Nat : InTime(x) => InTime(x)'
      BY ONLY <1>0, <2>1 DEF InTime
    <3> QED
      BY ONLY <1>0, <3>1
  <2>3. NoMissedTimer'
    BY <2>1, <2>2, InTimeTerms
  <2> QED
    BY <1>0, <2>1, <2>3 DEF BatchInTime
<1>3. CASE Poll
  BY Zenon, <1>0, <1>3 DEF Poll, clockVars, setVars, NoMissedTimer, BatchInTime
<1>4. CASE HandleRead
  <2>1. /\ lpc = "dispatch" /\ lpc' = "batch" /\ now' = now /\ clock' = clock
        /\ timers' = timers \ {e \in timers : e[1] <= now}
    BY Zenon, <1>4 DEF HandleRead, GetExpired, clockVars
  <2>2. \A e \in timers' : e[1] # 0
    BY <1>0, <2>1
  <2> QED
    BY Zenon, <2>1, <2>2 DEF NoMissedTimer, BatchInTime
<1>5. CASE Reset
  BY Zenon, <1>5, ResetArms DEF Reset, BatchInTime, clockVars
<1>6. CASE DispatchDone \/ FunctorsDone
  BY Zenon, <1>6 DEF DispatchDone, FunctorsDone, clockVars, setVars, NoMissedTimer, BatchInTime
<1>7. CASE \/ \E e \in todo : RunCallback(e)
           \/ \E c \in Callers : CallerAddTimer(c) \/ CallerAddTimerReturns(c) \/ CallerCancel(c)
           \/ UNCHANGED vars
  <2>1. UNCHANGED <<clock, left, lpc, now, timers, batch>>
    BY Zenon, <1>7 DEF RunCallback, CallerAddTimer, CallerAddTimerReturns, CallerCancel, vars,
      clockVars, loopVars, setVars
  <2> QED
    BY Zenon, <2>1 DEF NoMissedTimer, BatchInTime
<1>8. ASSUME NEW a \in Addrs, NEW t \in Timer, AddTimerInLoop(a, t),
             UNCHANGED <<clock, lpc, now, batch>>
      PROVE  NoMissedTimer' /\ BatchInTime'
  <2>1. CASE lpc # "batch"
    <3>1. NoMissedTimer'
      BY Zenon, <1>0, <1>8, <2>1, AddArms, InTimeTerms
    <3> QED
      BY Zenon, <1>8, <2>1, <3>1 DEF BatchInTime
  <2>2. CASE lpc = "batch"
    <3>1. \A e \in timers' : e[1] = 0 => left' = 0
      BY Zenon, <1>0, <1>8, <2>2, AddArmsInBatch DEF BatchInTime
    <3> QED
      BY Zenon, <1>8, <2>2, <3>1 DEF NoMissedTimer, BatchInTime
  <2> QED
    BY <2>1, <2>2
<1>9. ASSUME NEW id, CancelInLoop(id), UNCHANGED <<clock, left, lpc, now, batch>>
      PROVE  NoMissedTimer' /\ BatchInTime'
  <2>1. timers' \subseteq timers
    BY Zenon, <1>9 DEF CancelInLoop
  <2> QED
    BY <1>9, <2>1 DEF NoMissedTimer, BatchInTime
<1>10. CASE UserAddTimer
  <2>1. UNCHANGED <<clock, lpc, now, batch>>
    BY Zenon, <1>10 DEF UserAddTimer, clockVars, loopVars
  <2>2. \E a \in Addrs, r \in Requests : NewTimer(r) \in Timer /\ AddTimerInLoop(a, NewTimer(r))
    BY Zenon, <1>0, <1>10, AllocateType DEF UserAddTimer
  <2> QED
    BY <1>8, <2>1, <2>2
<1>11. CASE UserCancel
  BY Zenon, <1>9, <1>11 DEF UserCancel, clockVars, loopVars
<1>12. CASE RunFunctor
  <2>1. UNCHANGED <<clock, lpc, now, batch>> /\ Head(queue) \in Functor
    BY Zenon, <1>0, <1>12, HeadTailProperties DEF RunFunctor, clockVars, loopVars, TypeOK
  <2>2. Head(queue).addr \in Addrs
    BY <2>1 DEF Functor
  <2>3. \/ /\ heap[Head(queue).addr] \in Timer
           /\ AddTimerInLoop(Head(queue).addr, heap[Head(queue).addr])
        \/ CancelInLoop(<<Head(queue).addr, Head(queue).seq>>) /\ UNCHANGED left
    BY Zenon, <1>0, <1>12, HeadAdds DEF RunFunctor, Owned
  <2> QED
    BY Zenon, <1>8, <1>9, <2>1, <2>2, <2>3
<1> QED
  BY Zenon, <1>1, <1>2, <1>3, <1>4, <1>5, <1>6, <1>7, <1>10, <1>11, <1>12 DEF Next, Iterate

-----------------------------------------------------------------------------
(* The theorems                                                            *)

\* The inductive invariant holds at the start.
LEMMA InitIInv == Init => IInv
<1> SUFFICES ASSUME Init PROVE IInv
  OBVIOUS
<1>1. Owned
  BY InitOwned
<1>2. NumberedOnce /\ DeadAreMarked
  <2>1. Dead = {} /\ nextSeq = 0 /\ \A a \in Addrs : heap[a] = Free
    BY Zenon DEF Init, Dead
  <2> QED
    BY ONLY <2>1, FreeSeq DEF NumberedOnce, DeadAreMarked
<1>3. BatchInTime /\ NoMissedTimer
  BY DEF Init, BatchInTime, NoMissedTimer
<1> QED
  BY <1>1, <1>2, <1>3 DEF IInv, Owned

\* Every step keeps it.
LEMMA NextIInv == IInv /\ [Next]_vars => IInv'
<1> SUFFICES ASSUME IInv, [Next]_vars PROVE IInv'
  OBVIOUS
<1>1. Owned
  BY DEF IInv, Owned
<1>2. Owned' /\ NumberedOnce' /\ DeadAreMarked' /\ BatchInTime' /\ NoMissedTimer'
  BY <1>1, NextOwned, NextNumbered, NextDead, NextInTime DEF IInv
<1> QED
  BY <1>2 DEF IInv, Owned

\* IInv, with it the type invariant, holds in every reachable state.
THEOREM Invariant == Spec => []IInv
BY InitIInv, NextIInv, PTL DEF Spec

(***************************************************************************)
(* A timer is owned by the functor that will insert it, by the sets, or by *)
(* the batch, and by one of them: cancelInLoop and reset delete each timer *)
(* once, and nothing the loop will use is deleted.                         *)
(***************************************************************************)
THEOREM EveryTimerOwnedOnce == Spec => []OneOwner
<1>1. IInv => OneOwner
  BY DEF IInv
<1> QED
  BY <1>1, Invariant, PTL

(***************************************************************************)
(* A timer that was cancelled is not in the sets again, whatever address a *)
(* later timer is given, unless it was cancelled while addTimerInLoop was  *)
(* still queued: cancelInLoop does not find it then, and does nothing.     *)
(***************************************************************************)
THEOREM CancelIsFinal == Spec => []CancelledStaysSilent
<1>1. IInv => CancelledStaysSilent
  <2> SUFFICES ASSUME IInv, NEW a \in Listed, heap[a].seq \in Dead PROVE FALSE
    BY DEF CancelledStaysSilent, Dead
  <2>1. a \in Addrs
    BY DEF IInv, TypeOK, Listed
  <2> QED
    BY Zenon, <2>1 DEF IInv, DeadAreMarked, OneOwner
<1> QED
  BY <1>1, Invariant, PTL

(***************************************************************************)
(* Outside handleRead the timerfd goes off no later than the earliest      *)
(* timer is due, for any delays and however often the clock is set back.   *)
(***************************************************************************)
THEOREM TimerfdInTime == Spec => []NoMissedTimer
<1>1. IInv => NoMissedTimer
  BY DEF IInv
<1> QED
  BY <1>1, Invariant, PTL
=============================================================================
