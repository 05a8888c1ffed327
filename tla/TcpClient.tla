----------------------------- MODULE TcpClient ------------------------------
(***************************************************************************)
(* youth/net/Connector and the TcpClient that uses it: connecting with     *)
(* retries in a loop, while the user starts and stops it from another      *)
(* thread, and connecting again when the connection is lost; and the       *)
(* destruction of the client, in the loop or in the other thread.          *)
(*                                                                         *)
(* A handler that runs in the loop is one step; handleEvent calls the      *)
(* error callback and the write callback, two steps.  A caller sets        *)
(* m_connect and then queues its functor.  A failed epoll_ctl ADD is       *)
(* LOG_FATAL; it, a null and a dangling pointer, and the use of an object  *)
(* that is gone, end the behaviour.                                        *)
(***************************************************************************)
EXTENDS Naturals, Sequences

CONSTANTS
  MaxCalls,    \* bound: calls made by the other thread
  MaxTries     \* bound: calls of connect(2)

ASSUME ClientAssumption == MaxCalls \in Nat /\ MaxTries \in Nat

Returns == {"connecting", "retry", "error"}  \* of connect(2), by errno
Results == {"ok", "refused", "self"}         \* of an attempt that is pending

kInitRetryDelayMs == 500
kMaxRetryDelayMs == 30000

VARIABLES
  con,       \* the Connector
  lpc, revents, pending, batch,  \* the loop
  cconnect,  \* the client's m_connect
  retry,     \* m_retry: enableRetry was called
  ptr,       \* m_tcpConnectionPtr: the number of a connection, or 0
  alive,     \* the connections that are up
  nextId,    \* m_nextConnId
  life,      \* the destruction of the client
  cpc, calls,  \* the caller, and how much of MaxCalls is used
  crossed,   \* history: connect was called before the last one was over
  tries      \* how much of MaxTries is used

loop == <<lpc, revents, pending, batch>>
client == <<cconnect, retry, ptr, alive, nextId, life>>
caller == <<cpc, calls, crossed>>
vars == <<con, loop, client, caller, tries>>

(***************************************************************************)
(* chan is m_channelPtr: null, "added" to epoll, or "removed" from it.  fd *)
(* is the socket: pending in connect(2), at a result, closed, or handed to *)
(* a connection.  timers counts the retry timers that are set.  gaveUp and *)
(* overruled are history: connect(2) returned an error that is not         *)
(* retried, and restart has set an m_connect that stop had cleared.  bad   *)
(* says what has ended the process.                                        *)
(***************************************************************************)
Connector ==
  [state : {"kDisconnected", "kConnecting", "kConnected"}, wanted : BOOLEAN,
   chan : {"null", "added", "removed"},
   fd : {"none", "pending", "ok", "refused", "self", "closed", "handed"},
   timers : 0..MaxTries, delay : kInitRetryDelayMs..kMaxRetryDelayMs,
   gaveUp : BOOLEAN, overruled : BOOLEAN,
   bad : {"no", "fatal", "null", "dangling", "freed"}]

(***************************************************************************)
(* gone: the client is destroyed, conGone: so is its connector, which the  *)
(* retry timers and, by hold, a timer of ~TcpClient keep.  conn and unique *)
(* are what ~TcpClient has read; rebound: the close callback of conn no    *)
(* longer goes to the client.  early is history: the client was destroyed  *)
(* in another thread, during an attempt, or before resetChannel had run.   *)
(***************************************************************************)
Life ==
  [gone : BOOLEAN, conGone : BOOLEAN, hold : BOOLEAN, conn : 0..MaxTries,
   unique : BOOLEAN, rebound : BOOLEAN, early : BOOLEAN]

Functors == {"start", "stop", "reset", "destroy", "rebind", "close"}

\* The type of every variable, the retry delay within its limits.
TypeOK ==
  /\ con \in Connector
  /\ lpc \in {"poll", "event", "functors", "restart"}
  /\ revents \subseteq {"err", "out"}
  /\ pending \in Seq(Functors) /\ batch \in Seq(Functors)
  /\ life \in Life
  /\ cconnect \in BOOLEAN /\ retry \in BOOLEAN
  /\ ptr \in 0..MaxTries /\ alive \subseteq 1..MaxTries /\ nextId \in Nat
  /\ cpc \in {"idle", "start", "stop", "destroy", "copied", "stopping", "force", "free"}
  /\ calls \in 0..MaxCalls /\ crossed \in BOOLEAN /\ tries \in 0..MaxTries

Init ==
  /\ con = [state |-> "kDisconnected", wanted |-> FALSE, chan |-> "null",
            fd |-> "none", timers |-> 0, delay |-> kInitRetryDelayMs,
            gaveUp |-> FALSE, overruled |-> FALSE, bad |-> "no"]
  /\ lpc = "poll" /\ revents = {} /\ pending = <<>> /\ batch = <<>>
  /\ cconnect = TRUE /\ retry \in BOOLEAN /\ ptr = 0 /\ alive = {} /\ nextId = 1
  /\ life = [gone |-> FALSE, conGone |-> FALSE, hold |-> FALSE, conn |-> 0,
             unique |-> FALSE, rebound |-> FALSE, early |-> FALSE]
  /\ cpc = "idle" /\ calls = 0 /\ crossed = FALSE /\ tries = 0

-----------------------------------------------------------------------------
(* Connector: what its member functions make of the connector c            *)

NextDelay(ms) == IF 2 * ms <= kMaxRetryDelayMs THEN 2 * ms ELSE kMaxRetryDelayMs

\* SocketFunc::close of the socket of an attempt that has no channel in epoll.  A
\* channel that is there is of another attempt, with a socket of its own.
Closed(c) == IF c.chan = "added" THEN c ELSE [c EXCEPT !.fd = "closed"]

\* Mutant: no timer is set.
Retry_NoTimer(c) == [Closed(c) EXCEPT !.state = "kDisconnected"]

Retry(c) ==
  LET closed == [Closed(c) EXCEPT !.state = "kDisconnected"]
  IN  IF c.wanted
      THEN [closed EXCEPT !.timers = @ + 1, !.delay = NextDelay(@)]
      ELSE closed

\* Replacing a channel that is added leaves epoll a dangling pointer.
Connecting(c) ==
  [c EXCEPT !.state = "kConnecting", !.chan = "added", !.fd = "pending",
            !.bad = IF c.chan = "added" THEN "dangling" ELSE @]

Connect(c, returned) ==
  CASE returned = "connecting" -> Connecting(c)
    [] returned = "retry" -> Retry(c)
    [] returned = "error" -> [Closed(c) EXCEPT !.gaveUp = TRUE]

\* Mutant: m_connect is not looked at.
StartInLoop_Always(c) ==
  /\ tries < MaxTries
  /\ tries' = tries + 1
  /\ \E r \in Returns : con' = Connect(c, r)

\* startInLoop; connect(2) is called MaxTries times.
StartInLoop(c) ==
  IF c.wanted
  THEN /\ tries < MaxTries
       /\ tries' = tries + 1
       /\ \E r \in Returns : con' = Connect(c, r)
  ELSE con' = c /\ UNCHANGED tries

\* Mutant: the channel stays in epoll.
RemoveAndResetChannel_NoRemove(c) == c

(***************************************************************************)
(* removeAndResetChannel also queues resetChannel.  disableAll of a        *)
(* channel that is removed is an epoll_ctl ADD, which fails when the fd is *)
(* closed.                                                                 *)
(***************************************************************************)
RemoveAndResetChannel(c) ==
  CASE c.chan = "null" -> [c EXCEPT !.bad = "null"]
    [] c.chan = "removed" /\ c.fd = "closed" -> [c EXCEPT !.bad = "fatal"]
    [] OTHER -> [c EXCEPT !.chan = "removed"]

\* A connector that is gone has taken its channel with it.
Runs == con.bad = "no" /\ ~(life.conGone /\ con.chan = "added")

-----------------------------------------------------------------------------
(* Events of the connector's channel                                       *)

Reported == con.chan = "added" /\ con.fd \in {"ok", "refused", "self"}

Poll ==
  /\ lpc = "poll" /\ Runs
  /\ Reported
  /\ revents' = IF con.fd = "refused" THEN {"err", "out"} ELSE {"out"}
  /\ lpc' = "event"
  /\ UNCHANGED <<con, pending, batch, client, caller, tries>>

HandleError ==
  /\ lpc = "event" /\ Runs
  /\ "err" \in revents
  /\ revents' = revents \ {"err"}
  /\ IF con.state = "kConnecting"
     THEN /\ con' = Retry(RemoveAndResetChannel(con))
          /\ pending' = Append(pending, "reset")
     ELSE UNCHANGED <<con, pending>>
  /\ UNCHANGED <<lpc, batch, client, caller, tries>>

\* TcpClient::newConnection
NewConnection ==
  /\ ptr' = nextId
  /\ alive' = alive \cup {nextId}
  /\ nextId' = nextId + 1

\* handleWrite: m_state is not acted on, and "if (m_state)" is always true.
HandleWrite ==
  /\ lpc = "event" /\ Runs
  /\ revents = {"out"}
  /\ revents' = {}
  /\ pending' = Append(pending, "reset")
  /\ LET c == RemoveAndResetChannel(con) IN
     IF c.bad # "no" THEN con' = c /\ UNCHANGED <<ptr, alive, nextId>>
     ELSE IF con.fd = "ok" /\ life.gone
     THEN con' = [c EXCEPT !.bad = "freed"] /\ UNCHANGED <<ptr, alive, nextId>>
     ELSE IF con.fd = "ok"
     THEN con' = [c EXCEPT !.state = "kConnected", !.fd = "handed"] /\ NewConnection
     ELSE con' = Retry(c) /\ UNCHANGED <<ptr, alive, nextId>>
  /\ UNCHANGED <<lpc, batch, cconnect, retry, life, caller, tries>>

-----------------------------------------------------------------------------
(* The loop's functors and timers                                          *)

StartFunctors ==
  /\ Runs
  /\ (lpc = "poll" /\ ~Reported) \/ (lpc = "event" /\ revents = {})
  /\ lpc' = "functors"
  /\ batch' = pending
  /\ pending' = <<>>
  /\ UNCHANGED <<con, revents, client, caller, tries>>

FunctorsDone ==
  /\ lpc = "functors" /\ Runs
  /\ batch = <<>>
  /\ lpc' = "poll"
  /\ UNCHANGED <<con, revents, pending, batch, client, caller, tries>>

RunNext(f) ==
  /\ lpc = "functors" /\ Runs
  /\ batch # <<>>
  /\ Head(batch) = f
  /\ f \in {"start", "stop", "reset"} => ~life.conGone
  /\ batch' = Tail(batch)

\* start, stop and resetChannel are bound to the connector, by a raw this.
RunOnGone ==
  /\ lpc = "functors" /\ Runs
  /\ batch # <<>> /\ Head(batch) \in {"start", "stop", "reset"} /\ life.conGone
  /\ con' = [con EXCEPT !.bad = "freed"]
  /\ UNCHANGED <<loop, client, caller, tries>>

RunStart ==
  /\ RunNext("start")
  /\ StartInLoop(con)
  /\ UNCHANGED <<lpc, revents, pending, client, caller>>

StopInLoop ==
  /\ RunNext("stop")
  /\ IF con.state = "kConnecting"
     THEN /\ con' = Retry(RemoveAndResetChannel(con))
          /\ pending' = Append(pending, "reset")
     ELSE UNCHANGED <<con, pending>>
  /\ UNCHANGED <<lpc, revents, client, caller, tries>>

ResetChannel ==
  /\ RunNext("reset")
  /\ con' = [con EXCEPT !.chan = "null",
                        !.bad = IF con.chan = "added" THEN "dangling" ELSE @]
  /\ UNCHANGED <<lpc, revents, pending, client, caller, tries>>

\* Mutant: without the timer of ~TcpClient.
Release_NoHold(l, timers) == [l EXCEPT !.conGone = l.gone /\ timers = 0]

\* The connector goes when the client and all that holds it are gone.
Release(l, timers) == [l EXCEPT !.conGone = l.gone /\ ~l.hold /\ timers = 0]

\* A retry timer of the connector fires; it has kept the connector till now.
TimerFires ==
  /\ lpc = "poll" /\ Runs
  /\ con.timers > 0
  /\ StartInLoop([con EXCEPT !.timers = @ - 1])
  /\ life' = Release(life, con'.timers)
  /\ UNCHANGED <<loop, cconnect, retry, ptr, alive, nextId, caller>>

\* TcpClient::removeConnection, called when connection i goes down: the test
\* of m_connect, and in the next step the restart of the connector
RemoveConnection(i) ==
  /\ lpc = "poll" /\ Runs
  /\ i \in alive /\ ~(life.rebound /\ i = life.conn)
  /\ alive' = alive \ {i}
  /\ ptr' = 0
  /\ con' = [con EXCEPT !.bad = IF life.gone THEN "freed" ELSE @]
  /\ lpc' = IF retry /\ cconnect THEN "restart" ELSE lpc
  /\ UNCHANGED <<revents, pending, batch, cconnect, retry, nextId, life, caller,
                 tries>>

\* Connector::restart
Restart ==
  /\ lpc = "restart" /\ Runs
  /\ lpc' = "poll"
  /\ IF life.gone THEN con' = [con EXCEPT !.bad = "freed"] /\ UNCHANGED tries
     ELSE StartInLoop([con EXCEPT !.state = "kDisconnected", !.wanted = TRUE,
                                  !.delay = kInitRetryDelayMs,
                                  !.overruled = @ \/ ~con.wanted])
  /\ UNCHANGED <<revents, pending, batch, client, caller>>

-----------------------------------------------------------------------------
(* The other thread: the flags of the client and of its connector are set  *)
(* (nothing in the loop reads both), then a functor is queued.             *)

MayCall == cpc = "idle" /\ Runs /\ calls < MaxCalls

Call == MayCall /\ calls' = calls + 1

\* Nothing of an earlier connect is left: no functor, no attempt, no retry timer
\* (stop does not cancel it, "FIXME: cancel timer"), no connection.
AtRest ==
  /\ pending = <<>> /\ batch = <<>>
  /\ con.chan # "added" /\ con.timers = 0 /\ alive = {}
  /\ lpc \in {"poll", "functors"}

\* TcpClient::connect ("FIXME: check state"), Connector::start
CallConnect ==
  /\ Call
  /\ cconnect' = TRUE
  /\ con' = [con EXCEPT !.wanted = TRUE]
  /\ cpc' = "start"
  /\ crossed' = (crossed \/ ~AtRest)
  /\ UNCHANGED <<loop, retry, ptr, alive, nextId, life, tries>>

\* TcpClient::stop, Connector::stop
CallStop ==
  /\ Call
  /\ cconnect' = FALSE
  /\ con' = [con EXCEPT !.wanted = FALSE]
  /\ cpc' = "stop"
  /\ UNCHANGED <<loop, retry, ptr, alive, nextId, life, crossed, tries>>

Queue ==
  /\ cpc \in {"start", "stop", "destroy"} /\ Runs
  /\ pending' = Append(pending, cpc)
  /\ cpc' = "idle"
  /\ UNCHANGED <<con, lpc, revents, batch, client, calls, crossed, tries>>

\* TcpClient::disconnect; the connection goes down when the peer closes.
CallDisconnect ==
  /\ Call
  /\ cconnect' = FALSE
  /\ UNCHANGED <<con, loop, retry, ptr, alive, nextId, life, cpc, crossed, tries>>

-----------------------------------------------------------------------------
(* ~TcpClient                                                              *)

Elements(s) == {s[i] : i \in DOMAIN s}

Outstanding == Elements(pending) \cup Elements(batch)

\* The client is to be destroyed in its loop, by a functor, and is not called
\* any more.
CallDestroy ==
  /\ MayCall
  /\ calls' = MaxCalls
  /\ cpc' = "destroy"
  /\ UNCHANGED <<con, loop, client, crossed, tries>>

\* ~TcpClient in the loop: a connection gets a close callback that does without
\* the client, and is closed if nobody else has it; otherwise the connector is
\* stopped, and kept for another second.
RunDestroy ==
  /\ RunNext("destroy")
  /\ \E unique \in BOOLEAN :
       LET l == [life EXCEPT !.gone = TRUE, !.conn = ptr, !.unique = unique,
                             !.rebound = ptr # 0, !.hold = ptr = 0,
                             !.early = con.state = "kConnecting" \/ "reset" \in Outstanding]
       IN  /\ life' = Release(l, con.timers)
           /\ pending' = IF ptr = 0 THEN Append(pending, "stop")
                         ELSE IF unique THEN Append(pending, "close") ELSE pending
  /\ con' = [con EXCEPT !.wanted = @ /\ ptr # 0]
  /\ UNCHANGED <<lpc, revents, cconnect, retry, ptr, alive, nextId, caller, tries>>

\* ~TcpClient in the other thread ("not 100% safe, if we are in different
\* thread"): the copy of m_tcpConnectionPtr under the mutex,
DtorCopy ==
  /\ MayCall
  /\ calls' = MaxCalls
  /\ cpc' = "copied"
  /\ \E unique \in BOOLEAN :
       life' = [life EXCEPT !.conn = ptr, !.unique = unique, !.early = TRUE]
  /\ UNCHANGED <<con, loop, cconnect, retry, ptr, alive, nextId, crossed, tries>>

\* runInLoop of setCloseCallback, or m_connect of the connector,
DtorAsk ==
  /\ cpc = "copied" /\ Runs
  /\ IF life.conn # 0
     THEN cpc' = "force" /\ pending' = Append(pending, "rebind") /\ UNCHANGED con
     ELSE cpc' = "stopping" /\ con' = [con EXCEPT !.wanted = FALSE] /\ UNCHANGED pending
  /\ UNCHANGED <<lpc, revents, batch, client, calls, crossed, tries>>

\* forceClose, or the rest of Connector::stop and the timer,
DtorClose ==
  /\ cpc \in {"force", "stopping"} /\ Runs
  /\ cpc' = "free"
  /\ pending' = CASE cpc = "stopping" -> Append(pending, "stop")
                  [] cpc = "force" /\ life.unique /\ life.conn \in alive
                       -> Append(pending, "close")
                  [] OTHER -> pending
  /\ life' = [life EXCEPT !.hold = cpc = "stopping"]
  /\ UNCHANGED <<con, lpc, revents, batch, cconnect, retry, ptr, alive, nextId, calls,
                 crossed, tries>>

\* and the members.
DtorFree ==
  /\ cpc = "free" /\ Runs
  /\ cpc' = "idle"
  /\ life' = Release([life EXCEPT !.gone = TRUE], con.timers)
  /\ UNCHANGED <<con, loop, cconnect, retry, ptr, alive, nextId, calls, crossed, tries>>

\* TcpConnection::setCloseCallback, in the loop
RunRebind ==
  /\ RunNext("rebind")
  /\ life' = [life EXCEPT !.rebound = TRUE]
  /\ UNCHANGED <<con, lpc, revents, pending, cconnect, retry, ptr, alive, nextId,
                 caller, tries>>

\* The connection goes down by forceCloseInLoop, and by its peer, with the
\* close callback that ~TcpClient has given it.
RunClose ==
  /\ RunNext("close")
  /\ alive' = alive \ {life.conn}
  /\ UNCHANGED <<con, lpc, revents, pending, cconnect, retry, ptr, nextId, life,
                 caller, tries>>

RemoveRebound ==
  /\ lpc = "poll" /\ Runs
  /\ life.rebound /\ life.conn \in alive
  /\ alive' = alive \ {life.conn}
  /\ UNCHANGED <<con, loop, cconnect, retry, ptr, nextId, life, caller, tries>>

\* removeConnector, a second later: what is queued has run by then.
RemoveConnector ==
  /\ lpc = "poll" /\ Runs
  /\ life.hold /\ pending = <<>> /\ cpc = "idle"
  /\ life' = Release([life EXCEPT !.hold = FALSE], con.timers)
  /\ UNCHANGED <<con, loop, cconnect, retry, ptr, alive, nextId, caller, tries>>

\* The attempt to connect ends, or an established socket is reset.
SocketResult ==
  /\ Runs
  /\ \/ con.fd = "pending" /\ \E r \in Results : con' = [con EXCEPT !.fd = r]
     \/ con.fd = "ok" /\ lpc = "event" /\ con' = [con EXCEPT !.fd = "refused"]
  /\ UNCHANGED <<loop, client, caller, tries>>

-----------------------------------------------------------------------------

Loop ==
  \/ Poll \/ HandleError \/ HandleWrite \/ StartFunctors \/ FunctorsDone
  \/ RunStart \/ StopInLoop \/ ResetChannel \/ Restart \/ RunOnGone
  \/ RunDestroy \/ RunRebind \/ RunClose

Caller == Queue \/ DtorAsk \/ DtorClose \/ DtorFree

Next ==
  \/ Loop \/ TimerFires \/ (\E i \in alive : RemoveConnection(i))
  \/ RemoveRebound \/ RemoveConnector
  \/ CallConnect \/ CallStop \/ CallDisconnect \/ CallDestroy \/ DtorCopy
  \/ Caller \/ SocketResult

Spec == Init /\ [][Next]_vars

(***************************************************************************)
(* The loop and the caller go on, an attempt ends, a timer fires.          *)
(***************************************************************************)
FairSpec ==
  Spec /\ WF_vars(Loop) /\ SF_vars(TimerFires) /\ WF_vars(Caller)
       /\ WF_vars(SocketResult)

-----------------------------------------------------------------------------
(* Properties                                                              *)

(***************************************************************************)
(* The assertions of ~Channel (Channel.cpp:43-47) and Connector::connecting*)
(* (Connector.cpp:113): the connector never frees a channel that epoll     *)
(* still holds, nor uses one it does not have.  The exception is a restart *)
(* that overrules a stop: stopInLoop then retries, and resetChannel, which *)
(* it has queued, can find the channel of the next attempt.                *)
(***************************************************************************)
ChannelIsSafe == con.bad \notin {"dangling", "null"} \/ con.overruled

(***************************************************************************)
(* ~TcpClient: nothing that is still queued, no timer, no event and no     *)
(* closing connection touches the client or its connector after they are   *)
(* gone, when the client was destroyed in its loop, connected or at rest.  *)
(* Not so in another thread, during an attempt (handleWrite comes before   *)
(* stopInLoop and calls the client), or with resetChannel still queued     *)
(* ("FIXME: unsafe", Connector.cpp:181).                                   *)
(***************************************************************************)
GoneIsUntouched == (con.bad = "freed" \/ (life.conGone /\ con.chan = "added")) => life.early

(***************************************************************************)
(* There is at most one attempt at a time, in epoll or waiting for its     *)
(* timer, and none while a connection is up that the connector made.       *)
(***************************************************************************)
OneAttempt ==
  /\ con.timers + (IF con.chan = "added" THEN 1 ELSE 0) + (IF alive = {} THEN 0 ELSE 1) <= 1
  /\ \A i, j \in alive : i = j

(***************************************************************************)
(* However connect, retry, stop, restart and the destruction interleave,   *)
(* the connector is after one thing at a time, and lets go of its channel  *)
(* before that is freed; and the client of itself before it is.  The       *)
(* exception is a connect that is called while something of an earlier one *)
(* is left: above all after a stop, which leaves the retry timer set (line *)
(* 50); the state that startInLoop asserts (line 56) does not tell, and    *)
(* both then attempt to connect.                                           *)
(***************************************************************************)
OneSafeAttempt == crossed \/ (ChannelIsSafe /\ GoneIsUntouched /\ OneAttempt)

(***************************************************************************)
(* stop "can be called in any thread" (Connector.h:30): once its functor   *)
(* has run, and unless Connector::restart has set m_connect again, no      *)
(* attempt to connect goes on.  The exception is, as above, a connect that *)
(* was called while something of an earlier one was left.                  *)
(***************************************************************************)
StopIsFinal ==
  /\ ~con.wanted /\ cpc \notin {"stop", "stopping"}
  /\ \A i \in DOMAIN pending : pending[i] # "stop"
  /\ \A i \in DOMAIN batch : batch[i] # "stop"
  => con.chan # "added" \/ crossed

(***************************************************************************)
(* A client that connects, or reconnects, gets a connection unless it is   *)
(* stopped: retry arms a timer for every attempt that fails, and the timer *)
(* starts the next.  It gives up when connect(2) returns an error that is  *)
(* not retried, and when a refused attempt ends the process (a failed      *)
(* epoll_ctl ADD is LOG_FATAL).                                            *)
(***************************************************************************)
GetsConnected ==
  [](tries < MaxTries) =>
    (((con.wanted /\ nextId = 1) \/ lpc = "restart")
       ~> (alive # {} \/ ~con.wanted \/ con.gaveUp \/ ~Runs))
=============================================================================
