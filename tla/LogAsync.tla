------------------------------ MODULE LogAsync ------------------------------
(***************************************************************************)
(* youth/utils/LogAsync with the LogBuffers it passes around: append by    *)
(* any thread, the log thread, and stop, with the one mutex and the one    *)
(* condition variable they share.                                          *)
(*                                                                         *)
(* A message is its number and its length, a LogBuffer the numbers of its  *)
(* messages and its length, a std::unique_ptr to one a sequence of at most *)
(* one buffer.  A step is what happens from taking the mutex to releasing  *)
(* it, or between two uses of it.  Threads that append keep no state       *)
(* between two calls.                                                      *)
(***************************************************************************)
EXTENDS Integers, Sequences

CONSTANTS
  Lens,     \* lengths of messages
  Size,     \* SIZE of a LogBuffer
  Limit,    \* buffers that are written at once, 25 in threadFunc
  MaxMsgs   \* bound: messages appended

ASSUME LogAssumption ==
  /\ Lens \subseteq Nat \ {0} /\ Size \in Nat /\ Limit \in Nat /\ MaxMsgs \in Nat
  /\ Limit >= 2 /\ \A l \in Lens : Size > l + 1

VARIABLES
  current,   \* m_currentBuffer
  next,      \* m_nextBuffer
  buffers,   \* m_buffers
  spare1,    \* newBuffer1
  spare2,    \* newBuffer2
  toWrite,   \* buffersToWrite
  running,   \* m_running
  tpc,       \* where the log thread is
  spc,       \* where stop is
  file,      \* history: the buffers given to LogFile, in order, when there is a message
  appended,  \* history: messages given to append, numbered from 1
  refused,   \* history: messages LogBuffer::append has refused
  overrun,   \* history: messages of buffers dropped because there were too many
  atStop,    \* history: messages given to append before stop was called
  missed     \* history: the log thread's last notify_one came before stop waited

shared == <<current, next, buffers>>
thread == <<spare1, spare2, toWrite, file, overrun>>
vars == <<shared, thread, running, tpc, spc, appended, refused, atStop, missed>>

LogBuffer == [msgs : Seq(Nat), length : Nat]

\* What new and reset give
EmptyBuffer == [msgs |-> <<>>, length |-> 0]

null == <<>>

\* The numbers of the messages in a sequence of buffers
Ids(s) == UNION {{s[i].msgs[k] : k \in DOMAIN s[i].msgs} : i \in DOMAIN s}

\* The type of every variable.
TypeOK ==
  /\ \A s \in {current, next, spare1, spare2, buffers, toWrite, file} : s \in Seq(LogBuffer)
  /\ \A p \in {current, next, spare1, spare2} : Len(p) <= 1
  /\ running \in BOOLEAN /\ missed \in BOOLEAN
  /\ tpc \in {"test", "lock", "waiting", "woken", "write", "exit", "done"}
  /\ spc \in {"idle", "notify", "lock", "waiting", "join", "stopped"}
  /\ appended \in 0..MaxMsgs /\ atStop \in 0..MaxMsgs
  /\ refused \subseteq 1..MaxMsgs /\ overrun \subseteq 1..MaxMsgs

\* start has run, and threadFunc has made its two buffers.
Init ==
  /\ current = <<EmptyBuffer>> /\ next = <<EmptyBuffer>> /\ buffers = <<>>
  /\ spare1 = <<EmptyBuffer>> /\ spare2 = <<EmptyBuffer>> /\ toWrite = <<>>
  /\ running = TRUE /\ tpc = "test" /\ spc = "idle"
  /\ file = <<>> /\ appended = 0 /\ refused = {} /\ overrun = {} /\ atStop = 0
  /\ missed = FALSE

-----------------------------------------------------------------------------
(* LogBuffer                                                               *)

Avail(b) == Size - b.length

\* LogBuffer::append keeps the last byte free.
Fits(b, len) == Avail(b) - 1 > len
AppendTo(b, m) ==
  IF Fits(b, m.len) THEN [msgs |-> Append(b.msgs, m.id), length |-> b.length + m.len] ELSE b

-----------------------------------------------------------------------------
(* m_cond: the log thread and stop wait on the same condition variable.    *)

Waiters == {t \in {"thread", "stop"} :
              IF t = "thread" THEN tpc = "waiting" ELSE spc = "waiting"}

Wakes(t, tpcNext, spcNext) ==
  /\ tpc' = IF t = "thread" THEN "woken" ELSE tpcNext
  /\ spc' = IF t = "stop" THEN "join" ELSE spcNext

\* notify_one by a thread that goes on at tpcNext, spcNext
NotifyOne(tpcNext, spcNext) ==
  \/ Waiters = {} /\ tpc' = tpcNext /\ spc' = spcNext
  \/ \E t \in Waiters : Wakes(t, tpcNext, spcNext)

SpuriousWakeup ==
  /\ \E t \in Waiters : Wakes(t, tpc, spc)
  /\ UNCHANGED <<shared, thread, running, appended, refused, atStop, missed>>

\* Mutant: wait has no time limit.
Timeout_Never ==
  /\ tpc = "waiting" /\ FALSE
  /\ UNCHANGED vars

\* wait_for's time is over.
Timeout ==
  /\ tpc = "waiting"
  /\ tpc' = "woken"
  /\ UNCHANGED <<shared, thread, running, spc, appended, refused, atStop, missed>>

-----------------------------------------------------------------------------
(* append                                                                  *)

\* The current buffer has room, by avail.
AppendHere(m) ==
  /\ Avail(current[1]) > m.len
  /\ current' = <<AppendTo(current[1], m)>>
  /\ refused' = IF Fits(current[1], m.len) THEN refused ELSE refused \cup {m.id}
  /\ UNCHANGED <<next, buffers, tpc, spc>>

\* The full buffer is handed over, and the next or a new one takes its place.
AppendNext(m) ==
  /\ ~(Avail(current[1]) > m.len)
  /\ buffers' = Append(buffers, current[1])
  /\ LET b == IF next # null THEN next[1] ELSE EmptyBuffer
     IN  current' = <<AppendTo(b, m)>>
  /\ next' = null
  /\ NotifyOne(tpc, spc)
  /\ UNCHANGED refused

AppendMsg(len) ==
  /\ appended < MaxMsgs
  /\ appended' = appended + 1
  /\ LET m == [id |-> appended + 1, len |-> len] IN AppendHere(m) \/ AppendNext(m)
  /\ UNCHANGED <<thread, running, atStop, missed>>

-----------------------------------------------------------------------------
(* threadFunc                                                              *)

\* The loop's test of m_running, without the mutex
TestRunning ==
  /\ tpc = "test"
  /\ tpc' = IF running THEN "lock" ELSE "exit"
  /\ UNCHANGED <<shared, thread, running, spc, appended, refused, atStop, missed>>

\* wait_for, when no buffer was handed over
WaitFor ==
  /\ tpc = "lock" /\ buffers = <<>>
  /\ tpc' = "waiting"
  /\ UNCHANGED <<shared, thread, running, spc, appended, refused, atStop, missed>>

\* Mutant: the current buffer is put before the ones that were handed over.
Swap_CurrentFirst ==
  /\ \/ tpc = "lock" /\ buffers # <<>>
     \/ tpc = "woken"
  /\ toWrite' = current \o buffers
  /\ buffers' = <<>>
  /\ current' = spare1 /\ spare1' = null
  /\ next' = IF next = null THEN spare2 ELSE next
  /\ spare2' = IF next = null THEN null ELSE spare2
  /\ tpc' = "write"
  /\ UNCHANGED <<running, spc, file, overrun, appended, refused, atStop, missed>>

\* The critical section, at once or after the wait
Swap ==
  /\ \/ tpc = "lock" /\ buffers # <<>>
     \/ tpc = "woken"
  /\ toWrite' = buffers \o current
  /\ buffers' = <<>>
  /\ current' = spare1 /\ spare1' = null
  /\ next' = IF next = null THEN spare2 ELSE next
  /\ spare2' = IF next = null THEN null ELSE spare2
  /\ tpc' = "write"
  /\ UNCHANGED <<running, spc, file, overrun, appended, refused, atStop, missed>>

\* What is left of too many buffers: the first two
Undropped == IF Len(toWrite) > Limit THEN SubSeq(toWrite, 1, 2) ELSE toWrite

(***************************************************************************)
(* The buffers are written and at most two of them, reset, become the      *)
(* spare ones again; back() of an empty vector leaves the pointer null.    *)
(***************************************************************************)
WriteBuffers ==
  /\ tpc = "write"
  /\ file' = IF Ids(Undropped) = {} THEN file ELSE file \o Undropped
  /\ overrun' = overrun \cup (Ids(toWrite) \ Ids(Undropped))
  /\ LET left == IF Len(Undropped) > 2 THEN 2 ELSE Len(Undropped)
     IN  /\ spare1' = IF left >= 1 THEN <<EmptyBuffer>> ELSE null
         /\ spare2' = IF spare2 # null \/ left >= 2 THEN <<EmptyBuffer>> ELSE null
  /\ toWrite' = <<>>
  /\ tpc' = "test"
  /\ UNCHANGED <<shared, running, spc, appended, refused, atStop, missed>>

\* Mutant: no notify_one after the loop.
Exit_Silent ==
  /\ tpc = "exit"
  /\ tpc' = "done"
  /\ UNCHANGED <<shared, thread, running, spc, appended, refused, atStop, missed>>

\* After the loop: the last flush and notify_one
Exit ==
  /\ tpc = "exit"
  /\ NotifyOne("done", spc)
  /\ missed' = (spc \in {"notify", "lock"})
  /\ UNCHANGED <<shared, thread, running, appended, refused, atStop>>

-----------------------------------------------------------------------------
(* stop                                                                    *)

StopSets ==
  /\ spc = "idle"
  /\ running' = FALSE /\ spc' = "notify" /\ atStop' = appended
  /\ UNCHANGED <<shared, thread, tpc, appended, refused, missed>>

StopNotifies ==
  /\ spc = "notify"
  /\ NotifyOne(tpc, "lock")
  /\ UNCHANGED <<shared, thread, running, appended, refused, atStop, missed>>

\* wait, without a condition
StopWaits ==
  /\ spc = "lock"
  /\ spc' = "waiting"
  /\ UNCHANGED <<shared, thread, running, tpc, appended, refused, atStop, missed>>

StopJoins ==
  /\ spc = "join" /\ tpc = "done"
  /\ spc' = "stopped"
  /\ UNCHANGED <<shared, thread, running, tpc, appended, refused, atStop, missed>>

-----------------------------------------------------------------------------

Thread == TestRunning \/ WaitFor \/ Timeout \/ Swap \/ WriteBuffers \/ Exit
Stopping == StopNotifies \/ StopWaits \/ StopJoins

Next ==
  \/ \E len \in Lens : AppendMsg(len)
  \/ Thread \/ SpuriousWakeup \/ StopSets \/ Stopping

Spec == Init /\ [][Next]_vars

\* The log thread and a call of stop go on when they can, and time passes.
FairSpec == Spec /\ WF_vars(Thread) /\ WF_vars(Stopping)

-----------------------------------------------------------------------------
(* Properties                                                              *)

\* Messages of a sequence of buffers come in the order of their numbers.
InOrder(s) ==
  \A i, j \in DOMAIN s : \A k \in DOMAIN s[i].msgs, n \in DOMAIN s[j].msgs :
    i < j \/ (i = j /\ k < n) => s[i].msgs[k] < s[j].msgs[n]

\* What is in the file and on its way to it, in the order it will be written
Pipeline == file \o toWrite \o buffers \o current

(***************************************************************************)
(* However append, swap and write interleave, messages reach the file once *)
(* and in the order append was called, and only those are missing that a   *)
(* full buffer refused or that were dropped with too many buffers.         *)
(***************************************************************************)
OnceInOrder ==
  /\ InOrder(Pipeline)
  /\ Ids(Pipeline) \cup refused \cup overrun = 1..appended

(***************************************************************************)
(* What the comment in stop says (LogAsync.cpp:69), that all of the log is *)
(* output: when stop returns, what was appended before it and not dropped. *)
(***************************************************************************)
AllOutput ==
  spc = "stopped" => 1..atStop \subseteq Ids(file) \cup refused \cup overrun

\* While the log runs, the refresh time gets every message out of its buffer.
WrittenInTime ==
  \A i \in 1..MaxMsgs : (appended >= i /\ running) ~>
    (i \in Ids(file) \cup refused \cup overrun \/ ~running)

(***************************************************************************)
(* stop returns, whatever wakes the two waiters of m_cond, but for one     *)
(* order: it waits without a condition, so a log thread that has seen      *)
(* m_running false and notified before stop waits leaves it there.         *)
(***************************************************************************)
StopReturns == (spc # "idle") ~> (spc = "stopped" \/ missed)
=============================================================================
