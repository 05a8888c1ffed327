--------------------------- MODULE TcpClientProofs --------------------------
(***************************************************************************)
(* Proofs about TcpClient and its Connector, for any number of calls and   *)
(* attempts: one attempt at a time, with a channel that epoll does not     *)
(* keep longer than the connector; a client that is let go of before it is *)
(* gone; and a stop after which no attempt goes on.                        *)
(***************************************************************************)
EXTENDS TcpClient, TLAPS

-----------------------------------------------------------------------------
(* The inductive invariant                                                 *)

\* The types that the proofs use
AnyConnector ==
  [state : {"kDisconnected", "kConnecting", "kConnected"}, wanted : BOOLEAN,
   chan : {"null", "added", "removed"},
   fd : {"none", "pending", "ok", "refused", "self", "closed", "handed"},
   timers : Nat, delay : Nat, gaveUp : BOOLEAN, overruled : BOOLEAN,
   bad : {"no", "fatal", "null", "dangling", "freed"}]

AnyLife ==
  [gone : BOOLEAN, conGone : BOOLEAN, hold : BOOLEAN, conn : Nat,
   unique : BOOLEAN, rebound : BOOLEAN, early : BOOLEAN]

PCs == {"idle", "start", "stop", "destroy", "copied", "stopping", "force", "free"}

Shape ==
  /\ con \in AnyConnector /\ life \in AnyLife
  /\ lpc \in {"poll", "event", "functors", "restart"} /\ revents \subseteq {"err", "out"}
  /\ pending \in Seq(Functors) /\ batch \in Seq(Functors)
  /\ ptr \in Nat /\ alive \in SUBSET Nat /\ nextId \in Nat \ {0}
  /\ cpc \in PCs /\ calls \in 0 .. MaxCalls

Starts == cpc = "start" \/ "start" \in Outstanding

\* start is not in a queue, or is first in it and nowhere else; after destroy
\* comes nothing but resetChannel.
NoneOf(s) == "start" \notin Elements(s)
FirstOf(s) ==
  s # <<>> /\ s[1] = "start" /\ \A i \in DOMAIN s : i # 1 => s[i] # "start"
LastOf(s) == \A i, j \in DOMAIN s : i < j /\ s[i] = "destroy" => s[j] = "reset"

\* The functors that are pending and those of the batch, in the order in which
\* the caller asked for them
Order(p, b) ==
  /\ \/ NoneOf(b) /\ NoneOf(p)
     \/ FirstOf(b) /\ NoneOf(p)
     \/ b = <<>> /\ FirstOf(p)
  /\ LastOf(b) /\ LastOf(p)
  /\ "destroy" \in Elements(b) => Elements(p) \subseteq {"reset"}

\* The caller: start is the first call, destroy the last.
CallsMade ==
  /\ calls = 0 => cpc = "idle"
  /\ calls = 0 \/ cpc = "start" => pending = <<>> /\ batch = <<>>
  /\ "destroy" \in Outstanding \/ cpc = "destroy" =>
       calls = MaxCalls /\ cpc \in {"idle", "destroy"} /\ ~life.gone /\ ~life.early
  /\ cpc = "destroy" => "destroy" \notin Outstanding
  /\ life.gone \/ life.early => calls = MaxCalls

\* The connector and its client have nothing to do.
Still == con.chan # "added" /\ con.timers = 0 /\ alive = {} /\ lpc # "restart"

\* An attempt is in epoll, or waits for its timer, or has become a connection:
\* only one of these,
Alone ==
  /\ con.timers <= 1 /\ \A i, j \in alive : i = j
  /\ con.timers = 1 => con.chan # "added" /\ alive = {}
  /\ con.chan = "added" => alive = {}

\* none when the connector is restarted, and none before the start.
OneThing ==
  /\ con.chan = "added" <=> con.state = "kConnecting"
  /\ lpc = "restart" => con.timers = 0 /\ con.chan # "added" /\ alive = {}
  /\ calls = 0 \/ Starts => Still /\ lpc # "event" /\ "reset" \notin Outstanding

\* The loop: the channel is there while its events are handled.
LoopAt ==
  /\ lpc # "functors" => batch = <<>>
  /\ lpc = "event" /\ revents # {} =>
       \/ con.chan = "added" /\ con.fd \in Results
       \/ con.chan = "removed" /\ con.fd = "closed" /\ revents = {"out"}

\* resetChannel finds no channel of a later attempt.
ResetsNothing ==
  con.overruled \/
  /\ "reset" \in Outstanding => con.chan # "added"
  /\ "reset" \in Elements(pending) /\ lpc # "event" => Still

\* What stop has cleared is set again only by restart.
Stopped ==
  "stop" \in Outstanding \/ cpc \in {"stop", "stopping"} => ~con.wanted \/ con.overruled

StopComes ==
  con.chan = "added" =>
    con.wanted \/ cpc \in {"stop", "stopping"} \/ "stop" \in Outstanding

\* Before the destruction
Whole ==
  ~life.gone /\ ~life.early =>
    /\ ~life.rebound /\ ~life.conGone /\ ~life.hold
    /\ Outstanding \cap {"close", "rebind"} = {}
    /\ cpc \in {"idle", "start", "stop", "destroy"}
    /\ alive = IF ptr = 0 THEN {} ELSE {ptr}

\* After a destruction in the loop that was not early
Gone ==
  life.gone /\ ~life.early =>
    /\ con.chan # "added" /\ lpc # "restart" /\ ~Starts
    /\ con.timers = 0 \/ ~con.wanted
    /\ alive \subseteq IF life.rebound THEN {life.conn} ELSE {}
    /\ cpc = "idle" /\ calls = MaxCalls
    /\ ~life.hold => Outstanding \cap {"start", "stop", "reset"} = {}
    /\ life.conGone => ~life.hold

\* What holds until the process ends
Going ==
  /\ Order(pending, batch) /\ CallsMade /\ OneThing /\ LoopAt /\ ResetsNothing /\ Stopped
  /\ Whole /\ Gone

\* What holds until then, and when it has ended
Safe == Alone /\ ChannelIsSafe /\ GoneIsUntouched /\ StopComes

ClientInv == crossed \/ (Shape /\ Safe /\ (con.bad = "no" => Going))

-----------------------------------------------------------------------------
(* The queues                                                              *)

Out(p, b) == Elements(p) \cup Elements(b)

\* An empty queue
LEMMA EmptyQueue ==
  /\ Elements(<<>>) = {} /\ NoneOf(<<>>) /\ ~FirstOf(<<>>) /\ LastOf(<<>>)
  /\ <<>> \in Seq(Functors)
BY DEF Elements, NoneOf, FirstOf, LastOf

\* What is pushed to a queue
LEMMA Pushed ==
  ASSUME NEW s \in Seq(Functors), NEW f \in Functors
  PROVE  /\ Append(s, f) \in Seq(Functors)
         /\ Elements(Append(s, f)) = Elements(s) \cup {f}
         /\ f # "start" /\ FirstOf(s) => FirstOf(Append(s, f))
         /\ s = <<>> /\ f = "start" => FirstOf(Append(s, f))
         /\ LastOf(s) /\ (f = "reset" \/ "destroy" \notin Elements(s)) => LastOf(Append(s, f))
<1>1. /\ Append(s, f) \in Seq(Functors) /\ Append(s, f) # <<>>
      /\ Len(Append(s, f)) = Len(s) + 1 /\ Append(s, f)[Len(s) + 1] = f
      /\ \A i \in 1 .. Len(s) : Append(s, f)[i] = s[i]
  OBVIOUS
<1>2. DOMAIN s = 1 .. Len(s) /\ Len(s) \in Nat
      /\ DOMAIN Append(s, f) = (1 .. Len(s)) \cup {Len(s) + 1}
  BY <1>1
<1>3. Elements(Append(s, f)) = Elements(s) \cup {f}
  BY <1>1, <1>2 DEF Elements
<1>4. f # "start" /\ FirstOf(s) => FirstOf(Append(s, f))
  BY <1>1, <1>2 DEF FirstOf
<1>5. s = <<>> /\ f = "start" => FirstOf(Append(s, f))
  BY <1>1, <1>2 DEF FirstOf
<1>6. ASSUME LastOf(s), f = "reset" \/ "destroy" \notin Elements(s)
      PROVE  LastOf(Append(s, f))
  BY <1>1, <1>2, <1>6 DEF LastOf, Elements
<1> QED
  BY Zenon, <1>1, <1>3, <1>4, <1>5, <1>6

\* What is taken from a queue
LEMMA Popped ==
  ASSUME NEW s \in Seq(Functors), s # <<>>
  PROVE  /\ Head(s) \in Functors /\ Tail(s) \in Seq(Functors)
         /\ Elements(s) = Elements(Tail(s)) \cup {Head(s)}
         /\ FirstOf(s) => NoneOf(Tail(s)) /\ Head(s) = "start"
         /\ LastOf(s) => LastOf(Tail(s))
         /\ LastOf(s) /\ Head(s) = "destroy" => Elements(Tail(s)) \subseteq {"reset"}
<1>1. /\ Head(s) \in Functors /\ Tail(s) \in Seq(Functors) /\ Head(s) = s[1]
      /\ Len(s) \in Nat \ {0} /\ Len(Tail(s)) = Len(s) - 1
      /\ \A i \in 1 .. Len(s) - 1 : Tail(s)[i] = s[i + 1]
  OBVIOUS
<1>2. DOMAIN s = 1 .. Len(s) /\ DOMAIN Tail(s) = 1 .. Len(s) - 1
  BY <1>1
<1>3. Elements(s) = Elements(Tail(s)) \cup {Head(s)}
  <2>1. Elements(Tail(s)) \subseteq Elements(s) /\ Head(s) \in Elements(s)
    BY <1>1, <1>2 DEF Elements
  <2>2. ASSUME NEW i \in DOMAIN s  PROVE s[i] \in Elements(Tail(s)) \cup {Head(s)}
    <3>1. CASE i = 1
      BY Zenon, <1>1, <3>1
    <3>2. CASE i # 1
      <4>1. i - 1 \in 1 .. Len(s) - 1 /\ Tail(s)[i - 1] = s[i]
        BY <1>1, <1>2, <3>2
      <4> QED
        BY Zenon, <1>2, <4>1 DEF Elements
    <3> QED
      BY Zenon, <3>1, <3>2
  <2> QED
    BY Zenon, <2>1, <2>2 DEF Elements
<1>4. FirstOf(s) => NoneOf(Tail(s)) /\ Head(s) = "start"
  BY <1>1, <1>2 DEF FirstOf, NoneOf, Elements
<1>5. LastOf(s) => LastOf(Tail(s))
  BY <1>1, <1>2 DEF LastOf
<1>6. LastOf(s) /\ Head(s) = "destroy" => Elements(Tail(s)) \subseteq {"reset"}
  BY <1>1, <1>2 DEF LastOf, Elements
<1> QED
  BY Zenon, <1>1, <1>3, <1>4, <1>5, <1>6

\* A functor that is queued comes after what the caller has asked for before.
LEMMA OrderPush ==
  ASSUME NEW p \in Seq(Functors), NEW b \in Seq(Functors), NEW f \in Functors, Order(p, b),
         f = "start" => p = <<>> /\ b = <<>>,
         f = "reset" \/ "destroy" \notin Out(p, b)
  PROVE  /\ Append(p, f) \in Seq(Functors) /\ Order(Append(p, f), b)
         /\ Out(Append(p, f), b) = Out(p, b) \cup {f}
         /\ Elements(Append(p, f)) = Elements(p) \cup {f}
<1> DEFINE q == Append(p, f)
<1>1. /\ q \in Seq(Functors) /\ Elements(q) = Elements(p) \cup {f}
      /\ f # "start" /\ FirstOf(p) => FirstOf(q)
      /\ p = <<>> /\ f = "start" => FirstOf(q)
      /\ LastOf(p) /\ (f = "reset" \/ "destroy" \notin Elements(p)) => LastOf(q)
  BY Zenon, Pushed
<1> HIDE DEF q
<1>2. LastOf(b) /\ LastOf(q) /\ ("destroy" \in Elements(b) => Elements(q) \subseteq {"reset"})
  BY Zenon, <1>1 DEF Order, Out
<1>3. CASE f = "start"
  BY Zenon, <1>1, <1>2, <1>3, EmptyQueue DEF Order, Out, q
<1>4. CASE f # "start"
  BY Zenon, <1>1, <1>2, <1>4 DEF Order, NoneOf, Out, q
<1> QED
  BY Zenon, <1>3, <1>4

\* The functor that is taken is start if start is to run, and only then; behind
\* destroy there is nothing but resetChannel.
LEMMA OrderTake ==
  ASSUME NEW p \in Seq(Functors), NEW b \in Seq(Functors), b # <<>>, Order(p, b)
  PROVE  /\ Tail(b) \in Seq(Functors) /\ Order(p, Tail(b))
         /\ Head(b) \in Functors /\ Out(p, b) = Out(p, Tail(b)) \cup {Head(b)}
         /\ Head(b) # "start" => "start" \notin Out(p, b)
         /\ "start" \notin Out(p, Tail(b))
         /\ Head(b) = "destroy" => Out(p, Tail(b)) \subseteq {"reset"}
<1> DEFINE h == Head(b)
           t == Tail(b)
<1>1. /\ h \in Functors /\ t \in Seq(Functors)
      /\ Elements(b) = Elements(t) \cup {h}
      /\ FirstOf(b) => NoneOf(t) /\ h = "start"
      /\ LastOf(b) => LastOf(t)
      /\ LastOf(b) /\ h = "destroy" => Elements(t) \subseteq {"reset"}
  BY Zenon, Popped
<1> HIDE DEF h, t
<1>2. (FirstOf(b) \/ NoneOf(b)) /\ NoneOf(p) /\ LastOf(b) /\ LastOf(p)
  BY Zenon DEF Order
<1>3. NoneOf(t) /\ LastOf(t) /\ ("destroy" \in Elements(t) => Elements(p) \subseteq {"reset"})
  BY Zenon, <1>1, <1>2 DEF NoneOf, Order
<1>4. h # "start" => "start" \notin Out(p, b)
  BY Zenon, <1>1, <1>2 DEF NoneOf, Out
<1>5. h = "destroy" => Out(p, t) \subseteq {"reset"}
  BY Zenon, <1>1, <1>2 DEF Out, Order
<1>6. Out(p, b) = Out(p, t) \cup {h} /\ "start" \notin Out(p, t)
  BY Zenon, <1>1, <1>2, <1>3 DEF NoneOf, Out
<1> QED
  BY Zenon, <1>1, <1>2, <1>3, <1>4, <1>5, <1>6 DEF Order, h, t

\* The pending functors become the batch.
LEMMA OrderSwap ==
  ASSUME NEW p \in Seq(Functors), Order(p, <<>>)
  PROVE  Order(<<>>, p) /\ Out(<<>>, p) = Elements(p) /\ Out(p, <<>>) = Elements(p)
BY Zenon, EmptyQueue DEF Order, Out

-----------------------------------------------------------------------------
(* The connector                                                           *)

\* retry closes the socket, and sets a timer if the connector is wanted.
LEMMA RetryFields ==
  ASSUME NEW c \in AnyConnector, c.chan # "added"
  PROVE  /\ Retry(c) \in AnyConnector
         /\ Retry(c).state = "kDisconnected" /\ Retry(c).fd = "closed"
         /\ Retry(c).timers = IF c.wanted THEN c.timers + 1 ELSE c.timers
         /\ Retry(c).chan = c.chan /\ Retry(c).wanted = c.wanted
         /\ Retry(c).overruled = c.overruled /\ Retry(c).bad = c.bad
<1>1. NextDelay(c.delay) \in Nat
  BY DEF NextDelay, AnyConnector, kMaxRetryDelayMs
<1>0. Closed(c) = [c EXCEPT !.fd = "closed"]
  BY Zenon DEF Closed
<1>2. CASE c.wanted
  <2> DEFINE d == [[c EXCEPT !.fd = "closed"] EXCEPT !.state = "kDisconnected"]
  <2>1. Retry(c) = [d EXCEPT !.timers = d.timers + 1, !.delay = NextDelay(d.delay)]
    BY Zenon, <1>0, <1>2 DEF Retry
  <2>2. /\ d \in AnyConnector /\ d.state = "kDisconnected" /\ d.fd = "closed"
        /\ d.timers = c.timers /\ d.delay = c.delay /\ d.chan = c.chan
        /\ d.wanted = c.wanted /\ d.overruled = c.overruled /\ d.bad = c.bad
    BY Zenon DEF AnyConnector
  <2> HIDE DEF d
  <2>3. d.timers + 1 \in Nat /\ NextDelay(d.delay) \in Nat
    BY <1>1, <2>2 DEF AnyConnector
  <2>4. Retry(c) \in AnyConnector
    BY Zenon, <2>1, <2>2, <2>3 DEF AnyConnector
  <2>5. /\ Retry(c).state = d.state /\ Retry(c).fd = d.fd /\ Retry(c).timers = d.timers + 1
        /\ Retry(c).chan = d.chan /\ Retry(c).wanted = d.wanted
        /\ Retry(c).overruled = d.overruled /\ Retry(c).bad = d.bad
    BY Zenon, <2>1, <2>2 DEF AnyConnector
  <2> QED
    BY Zenon, <1>2, <2>2, <2>4, <2>5
<1>3. CASE ~c.wanted
  BY Zenon, <1>0, <1>3 DEF Retry, AnyConnector
<1> QED
  BY Zenon, <1>2, <1>3

\* removeAndResetChannel of a channel that is in epoll, and of one that is not
LEMMA RemoveFields ==
  ASSUME NEW c \in AnyConnector
  PROVE  LET r == RemoveAndResetChannel(c)
         IN  /\ r \in AnyConnector
             /\ r.state = c.state /\ r.fd = c.fd /\ r.timers = c.timers /\ r.wanted = c.wanted
             /\ r.overruled = c.overruled
             /\ r.chan # "added"
             /\ c.chan = "added" => r.chan = "removed" /\ r.bad = c.bad
             /\ c.chan = "removed" /\ c.fd = "closed" => r.bad = "fatal"
<1>1. CASE c.chan = "null"
  BY Zenon, <1>1 DEF RemoveAndResetChannel, AnyConnector
<1>2. CASE c.chan = "removed" /\ c.fd = "closed"
  BY Zenon, <1>2 DEF RemoveAndResetChannel, AnyConnector
<1>3. CASE ~(c.chan = "null") /\ ~(c.chan = "removed" /\ c.fd = "closed")
  BY Zenon, <1>3 DEF RemoveAndResetChannel, AnyConnector
<1> QED
  BY Zenon, <1>1, <1>2, <1>3

\* startInLoop of a connector that has no attempt: it begins one, or sets a
\* timer, or gives up, and does nothing if it is not wanted.
LEMMA StartFields ==
  ASSUME NEW c \in AnyConnector, c.chan # "added", c.state # "kConnecting", StartInLoop(c)
  PROVE  /\ con' \in AnyConnector /\ con'.wanted = c.wanted
         /\ con'.overruled = c.overruled /\ con'.bad = c.bad
         /\ con'.chan = "added" <=> con'.state = "kConnecting"
         /\ con'.timers = c.timers \/ (con'.timers = c.timers + 1 /\ con'.chan # "added")
         /\ con'.chan = "added" \/ con'.timers # c.timers => c.wanted
<1>1. CASE ~c.wanted
  BY Zenon, <1>1 DEF StartInLoop, AnyConnector
<1>2. CASE c.wanted
  <2>1. PICK r \in Returns : con' = Connect(c, r)
    BY Zenon, <1>2 DEF StartInLoop
  <2>2. CASE r = "connecting"
    <3>1. con' = Connecting(c)
      BY Zenon, <2>1, <2>2 DEF Connect
    <3> QED
      BY Zenon, <1>2, <3>1 DEF Connecting, AnyConnector
  <2>3. CASE r = "retry"
    <3>1. con' = Retry(c)
      BY Zenon, <2>1, <2>3 DEF Connect
    <3>2. c.timers \in Nat
      BY Zenon DEF AnyConnector
    <3> QED
      BY Zenon, <1>2, <3>1, <3>2, RetryFields
  <2>4. CASE r = "error"
    <3>1. con' = [[c EXCEPT !.fd = "closed"] EXCEPT !.gaveUp = TRUE]
      BY Zenon, <2>1, <2>4 DEF Connect, Closed
    <3> QED
      BY Zenon, <1>2, <3>1 DEF AnyConnector
  <2> QED
    BY Zenon, <2>2, <2>3, <2>4 DEF Returns
<1> QED
  BY Zenon, <1>1, <1>2

\* What Release does to the life of the client
LEMMA ReleaseFields ==
  ASSUME NEW l \in AnyLife, NEW t
  PROVE  LET r == Release(l, t)
         IN  /\ r \in AnyLife
             /\ r.gone = l.gone /\ r.hold = l.hold /\ r.conn = l.conn
             /\ r.rebound = l.rebound /\ r.early = l.early
             /\ r.conGone <=> l.gone /\ ~l.hold /\ t = 0
BY Zenon DEF Release, AnyLife

\* Outside the functors, the batch is empty.
LEMMA AllPending ==
  ASSUME Going, lpc # "functors"
  PROVE  batch = <<>> /\ Outstanding = Elements(pending)
BY Zenon, EmptyQueue DEF Going, LoopAt, Outstanding

\* What RunNext says of the functor it takes
LEMMA TakeFacts ==
  ASSUME Shape, Going, NEW f, RunNext(f)
  PROVE  /\ lpc = "functors" /\ batch' \in Seq(Functors) /\ Order(pending, batch')
         /\ Outstanding = Out(pending, batch') \cup {f}
         /\ calls # 0 /\ cpc # "start"
         /\ f # "start" => ~Starts
         /\ "start" \notin Out(pending, batch')
         /\ f = "destroy" => Out(pending, batch') \subseteq {"reset"}
<1>1. lpc = "functors" /\ batch # <<>> /\ f = Head(batch) /\ batch' = Tail(batch)
  BY Zenon DEF RunNext
<1>2. calls # 0 /\ cpc # "start"
  BY Zenon, <1>1 DEF Going, CallsMade
<1>3. /\ batch' \in Seq(Functors) /\ Order(pending, batch')
      /\ Out(pending, batch) = Out(pending, batch') \cup {f}
      /\ f # "start" => "start" \notin Out(pending, batch)
      /\ "start" \notin Out(pending, batch')
      /\ f = "destroy" => Out(pending, batch') \subseteq {"reset"}
  BY Zenon, <1>1, OrderTake DEF Shape, Going
<1>4. Outstanding = Out(pending, batch)
  BY Zenon DEF Outstanding, Out
<1> QED
  BY Zenon, <1>1, <1>2, <1>3, <1>4 DEF Starts

-----------------------------------------------------------------------------
(* The steps                                                               *)

\* Steps of the loop and the sockets that change little
LEMMA PollStep ==
  ASSUME Shape, Safe, Going, con.bad = "no", Poll
  PROVE  Shape' /\ Safe' /\ (con'.bad = "no" => Going')
<1>1. /\ UNCHANGED <<con, pending, batch, ptr, alive, nextId, life, cpc, calls>>
      /\ lpc = "poll" /\ lpc' = "event" /\ revents' \subseteq {"err", "out"}
      /\ con.chan = "added" /\ con.fd \in Results
  BY Zenon DEF Poll, Reported, Results, client, caller
<1>2. /\ Order(pending, batch)' /\ CallsMade' /\ Outstanding' = Outstanding
      /\ Elements(pending') = Elements(pending)
  BY Zenon, <1>1 DEF Going, CallsMade, Outstanding
<1> USE <1>1, <1>2
<1>3. Shape'
  BY Zenon DEF Shape
<1>4. Safe'
  BY Zenon DEF Safe, Alone, ChannelIsSafe, GoneIsUntouched, StopComes, Going, OneThing, Still,
     ResetsNothing, Gone
<1>5. ASSUME con'.bad = "no"  PROVE Going'
  <2>1. OneThing' /\ LoopAt' /\ ResetsNothing' /\ Stopped'
    BY Zenon, <1>5 DEF Going, OneThing, LoopAt, ResetsNothing, Stopped, Safe, Alone, Still, Starts,
       CallsMade
  <2>2. Whole' /\ Gone'
    BY Zenon, <1>5 DEF Going, Whole, Gone, OneThing, Starts
  <2> QED
    BY Zenon, <2>1, <2>2 DEF Going
<1> QED
  BY Zenon, <1>3, <1>4, <1>5

\* The end of a batch
LEMMA DoneStep ==
  ASSUME Shape, Safe, Going, con.bad = "no", FunctorsDone
  PROVE  Shape' /\ Safe' /\ (con'.bad = "no" => Going')
<1>1. /\ UNCHANGED <<con, pending, batch, ptr, alive, nextId, life, cpc, calls, revents>>
      /\ lpc = "functors" /\ lpc' = "poll" /\ batch = <<>>
  BY Zenon DEF FunctorsDone, client, caller
<1>2. /\ Order(pending, batch)' /\ CallsMade' /\ Outstanding' = Outstanding
      /\ Elements(pending') = Elements(pending)
  BY Zenon, <1>1 DEF Going, CallsMade, Outstanding
<1> USE <1>1, <1>2
<1>3. Shape'
  BY Zenon DEF Shape
<1>4. Safe'
  BY Zenon DEF Safe, Alone, ChannelIsSafe, GoneIsUntouched, StopComes, Going, OneThing, Still,
     ResetsNothing, Gone
<1>5. ASSUME con'.bad = "no"  PROVE Going'
  <2>1. OneThing' /\ LoopAt' /\ ResetsNothing' /\ Stopped'
    BY Zenon, <1>5 DEF Going, OneThing, LoopAt, ResetsNothing, Stopped, Safe, Alone, Still, Starts,
       CallsMade
  <2>2. Whole' /\ Gone'
    BY Zenon, <1>5 DEF Going, Whole, Gone, OneThing, Starts
  <2> QED
    BY Zenon, <2>1, <2>2 DEF Going
<1> QED
  BY Zenon, <1>3, <1>4, <1>5

\* The socket
LEMMA SocketStep ==
  ASSUME Shape, Safe, Going, con.bad = "no", SocketResult
  PROVE  Shape' /\ Safe' /\ (con'.bad = "no" => Going')
<1>1. /\ UNCHANGED <<lpc, revents, pending, batch, ptr, alive, nextId, life, cpc, calls>>
      /\ con.fd \notin {"refused", "self", "closed"}
  BY Zenon DEF SocketResult, Results, loop, client, caller
<1>2. PICK r \in Results : con' = [con EXCEPT !.fd = r]
  BY Zenon DEF SocketResult, Results
<1>3. /\ con' \in AnyConnector /\ con'.fd \in Results /\ con'.state = con.state
      /\ con'.wanted = con.wanted /\ con'.chan = con.chan /\ con'.timers = con.timers
      /\ con'.overruled = con.overruled /\ con'.bad = con.bad
  BY Zenon, <1>2 DEF Shape, AnyConnector, Results
<1>4. /\ Order(pending, batch)' /\ CallsMade' /\ Outstanding' = Outstanding
      /\ Elements(pending') = Elements(pending)
  BY Zenon, <1>1, <1>2, <1>3 DEF Going, CallsMade, Outstanding
<1> USE <1>1, <1>2, <1>3, <1>4
<1>5. Shape'
  BY Zenon DEF Shape
<1>6. Safe'
  BY Zenon DEF Safe, Alone, ChannelIsSafe, GoneIsUntouched, StopComes, Going, OneThing, Still,
     ResetsNothing, Gone
<1>7. ASSUME con'.bad = "no"  PROVE Going'
  <2>1. OneThing' /\ LoopAt' /\ ResetsNothing' /\ Stopped'
    BY Zenon, <1>7 DEF Going, OneThing, LoopAt, ResetsNothing, Stopped, Safe, Alone, Still, Starts,
       CallsMade
  <2>2. Whole' /\ Gone'
    BY Zenon, <1>7 DEF Going, Whole, Gone, OneThing, Starts
  <2> QED
    BY Zenon, <2>1, <2>2 DEF Going
<1> QED
  BY Zenon, <1>5, <1>6, <1>7

\* A connection that does without the client goes down.
LEMMA ReboundStep ==
  ASSUME Shape, Safe, Going, con.bad = "no", RemoveRebound
  PROVE  Shape' /\ Safe' /\ (con'.bad = "no" => Going')
<1>1. /\ UNCHANGED <<con, lpc, revents, pending, batch, ptr, nextId, life, cpc, calls>>
      /\ alive' \subseteq alive /\ life.rebound
  BY Zenon DEF RemoveRebound, loop, caller
<1>2. /\ Order(pending, batch)' /\ CallsMade' /\ Outstanding' = Outstanding
      /\ Elements(pending') = Elements(pending)
  BY Zenon, <1>1 DEF Going, CallsMade, Outstanding
<1> USE <1>1, <1>2
<1>3. Shape'
  BY Zenon DEF Shape
<1>4. Safe'
  BY Zenon DEF Safe, Alone, ChannelIsSafe, GoneIsUntouched, StopComes, Going, OneThing, Still,
     ResetsNothing, Gone
<1>5. ASSUME con'.bad = "no"  PROVE Going'
  <2>1. OneThing' /\ LoopAt' /\ ResetsNothing' /\ Stopped'
    BY Zenon, <1>5 DEF Going, OneThing, LoopAt, ResetsNothing, Stopped, Safe, Alone, Still, Starts,
       CallsMade
  <2>2. Whole' /\ Gone'
    BY Zenon, <1>5 DEF Going, Whole, Gone, OneThing, Starts
  <2> QED
    BY Zenon, <2>1, <2>2 DEF Going
<1> QED
  BY Zenon, <1>3, <1>4, <1>5

\* removeConnector
LEMMA ConnectorStep ==
  ASSUME Shape, Safe, Going, con.bad = "no", RemoveConnector
  PROVE  Shape' /\ Safe' /\ (con'.bad = "no" => Going')
<1>1. /\ UNCHANGED <<con, lpc, revents, pending, batch, ptr, alive, nextId, cpc, calls>>
      /\ lpc = "poll" /\ pending = <<>> /\ cpc = "idle" /\ life.hold
  BY Zenon DEF RemoveConnector, loop, caller
<1>2. [life EXCEPT !.hold = FALSE] \in AnyLife /\ [life EXCEPT !.hold = FALSE].conn = life.conn
  BY Zenon DEF Shape, AnyLife
<1>3. /\ life' \in AnyLife /\ life'.gone = life.gone /\ ~life'.hold
      /\ life'.conn = life.conn
      /\ life'.rebound = life.rebound /\ life'.early = life.early
      /\ life'.conGone => life.gone
  BY <1>2, ReleaseFields DEF RemoveConnector, Shape, AnyLife
<1>4. Outstanding = {}
  BY Zenon, <1>1, EmptyQueue DEF Going, LoopAt, Outstanding
<1>5. /\ Order(pending, batch)' /\ CallsMade' /\ Outstanding' = Outstanding
      /\ Elements(pending') = Elements(pending)
  BY Zenon, <1>1, <1>2, <1>3, <1>4 DEF Going, CallsMade, Outstanding
<1> USE <1>1, <1>2, <1>3, <1>4, <1>5
<1>6. Shape'
  BY Zenon DEF Shape
<1>7. Safe'
  BY Zenon DEF Safe, Alone, ChannelIsSafe, GoneIsUntouched, StopComes, Going, OneThing, Still,
     ResetsNothing, Gone
<1>8. ASSUME con'.bad = "no"  PROVE Going'
  <2>1. OneThing' /\ LoopAt' /\ ResetsNothing' /\ Stopped'
    BY Zenon, <1>8 DEF Going, OneThing, LoopAt, ResetsNothing, Stopped, Safe, Alone, Still, Starts,
       CallsMade
  <2>2. Whole' /\ Gone'
    BY Zenon, <1>8 DEF Going, Whole, Gone, OneThing, Starts
  <2> QED
    BY Zenon, <2>1, <2>2 DEF Going
<1> QED
  BY Zenon, <1>6, <1>7, <1>8

\* A functor of a connector that is gone
LEMMA GoneStep ==
  ASSUME Shape, Safe, Going, con.bad = "no", RunOnGone
  PROVE  Shape' /\ Safe' /\ (con'.bad = "no" => Going')
<1>1. /\ UNCHANGED <<lpc, revents, pending, batch, ptr, alive, nextId, life, cpc, calls>>
      /\ life.conGone
  BY Zenon DEF RunOnGone, loop, client, caller
<1>2. Outstanding \cap {"start", "stop", "reset"} # {}
  BY Zenon, Popped DEF RunOnGone, Shape, Outstanding
<1>3. /\ con' \in AnyConnector /\ con'.wanted = con.wanted /\ con'.chan = con.chan
      /\ con'.timers = con.timers /\ con'.overruled = con.overruled /\ con'.bad = "freed"
  BY Zenon DEF RunOnGone, Shape, AnyConnector
<1>4. /\ Order(pending, batch)' /\ CallsMade' /\ Outstanding' = Outstanding
      /\ Elements(pending') = Elements(pending)
  BY Zenon, <1>1, <1>2, <1>3 DEF Going, CallsMade, Outstanding
<1> USE <1>1, <1>2, <1>3, <1>4
<1>5. Shape'
  BY Zenon DEF Shape
<1>6. Safe'
  BY Zenon DEF Safe, Alone, ChannelIsSafe, GoneIsUntouched, StopComes, Going, OneThing, Still,
     ResetsNothing, Gone, Whole
<1>7. ASSUME con'.bad = "no"  PROVE Going'
  <2>1. OneThing' /\ LoopAt' /\ ResetsNothing' /\ Stopped'
    BY Zenon, <1>7 DEF Going, OneThing, LoopAt, ResetsNothing, Stopped, Safe, Alone, Still, Starts,
       CallsMade
  <2>2. Whole' /\ Gone'
    BY Zenon, <1>7 DEF Going, Whole, Gone, OneThing, Starts
  <2> QED
    BY Zenon, <2>1, <2>2 DEF Going
<1> QED
  BY Zenon, <1>5, <1>6, <1>7

\* TcpClient::removeConnection
LEMMA DownStep ==
  ASSUME Shape, Safe, Going, con.bad = "no", NEW i \in alive, RemoveConnection(i)
  PROVE  Shape' /\ Safe' /\ (con'.bad = "no" => Going')
<1>1. con.timers = 0 /\ con.chan # "added"
  BY DEF Shape, AnyConnector, Safe, Alone
<1>2. /\ UNCHANGED <<revents, pending, batch, nextId, life, cpc, calls>>
      /\ lpc = "poll" /\ lpc' \in {"poll", "restart"} /\ ptr' = 0
      /\ ~(life.rebound /\ i = life.conn)
  BY Zenon DEF RemoveConnection, caller
<1>3. alive' = {}
  BY Zenon DEF RemoveConnection, Safe, Alone
<1>4. /\ con' \in AnyConnector /\ con'.state = con.state /\ con'.fd = con.fd
      /\ con'.wanted = con.wanted /\ con'.chan = con.chan
      /\ con'.timers = con.timers /\ con'.overruled = con.overruled
      /\ con'.bad = IF life.gone THEN "freed" ELSE "no"
  BY Zenon DEF RemoveConnection, Shape, AnyConnector
<1>5. /\ Order(pending, batch)' /\ CallsMade' /\ Outstanding' = Outstanding
      /\ Elements(pending') = Elements(pending)
  BY Zenon, <1>1, <1>2, <1>3, <1>4 DEF Going, CallsMade, Outstanding
<1> USE <1>1, <1>2, <1>3, <1>4, <1>5
<1>6. Shape'
  BY Zenon DEF Shape
<1>7. Safe'
  BY Zenon DEF Safe, Alone, ChannelIsSafe, GoneIsUntouched, StopComes, Going, OneThing, Still,
     ResetsNothing, Gone
<1>8. ASSUME con'.bad = "no"  PROVE Going'
  <2>1. OneThing' /\ LoopAt' /\ ResetsNothing' /\ Stopped'
    BY Zenon, <1>8 DEF Going, OneThing, LoopAt, ResetsNothing, Stopped, Safe, Alone, Still, Starts,
       CallsMade
  <2>2. Whole' /\ Gone'
    BY Zenon, <1>8 DEF Going, Whole, Gone, OneThing, Starts
  <2> QED
    BY Zenon, <2>1, <2>2 DEF Going
<1> QED
  BY Zenon, <1>6, <1>7, <1>8

\* Connector::restart
LEMMA RestartStep ==
  ASSUME Shape, Safe, Going, con.bad = "no", Restart
  PROVE  Shape' /\ Safe' /\ (con'.bad = "no" => Going')
<1>1. /\ UNCHANGED <<revents, pending, batch, ptr, alive, nextId, life, cpc, calls>>
      /\ lpc = "restart" /\ lpc' = "poll"
  BY Zenon DEF Restart, client, caller
<1>2. con.timers = 0 /\ con.chan # "added" /\ con.state # "kConnecting" /\ alive = {}
  BY Zenon, <1>1 DEF Going, OneThing
<1>3. /\ con' \in AnyConnector
      /\ con'.chan = "added" <=> con'.state = "kConnecting"
      /\ con'.timers \in {0, 1} /\ (con'.timers = 1 => con'.chan # "added")
      /\ con'.overruled = (con.overruled \/ ~con.wanted) \/ con'.bad = "freed"
      /\ con'.wanted \/ con'.chan # "added"
      /\ con'.bad = IF life.gone THEN "freed" ELSE "no"
  <2>1. CASE life.gone
    BY <1>2, <2>1 DEF Restart, Shape, AnyConnector
  <2>2. CASE ~life.gone
    <3> DEFINE c == [con EXCEPT !.state = "kDisconnected", !.wanted = TRUE,
                                !.delay = kInitRetryDelayMs,
                                !.overruled = con.overruled \/ ~con.wanted]
    <3>0. kInitRetryDelayMs \in Nat /\ (con.overruled \/ ~con.wanted) \in BOOLEAN
      BY DEF kInitRetryDelayMs
    <3>1. /\ c \in AnyConnector /\ c.chan = con.chan /\ c.state = "kDisconnected" /\ c.wanted
          /\ c.timers = con.timers /\ c.bad = con.bad
          /\ c.overruled = (con.overruled \/ ~con.wanted)
      BY Zenon, <1>2, <3>0 DEF Shape, AnyConnector
    <3>2. StartInLoop(c)
      BY Zenon, <2>2 DEF Restart
    <3> HIDE DEF c
    <3> QED
      BY <1>2, <2>2, <3>1, <3>2, StartFields
  <2> QED
    BY Zenon, <2>1, <2>2
<1>4. Outstanding = Elements(pending)
  BY Zenon, <1>1, AllPending
<1>5. /\ Order(pending, batch)' /\ CallsMade' /\ Outstanding' = Outstanding
      /\ Elements(pending') = Elements(pending)
  BY Zenon, <1>1, <1>2, <1>3, <1>4 DEF Going, CallsMade, Outstanding
<1> USE <1>1, <1>2, <1>3, <1>4, <1>5
<1>6. Shape'
  BY Zenon DEF Shape
<1>7. Safe'
  BY DEF Safe, Alone, ChannelIsSafe, GoneIsUntouched, StopComes, Going, OneThing, Still,
     ResetsNothing, Gone, Whole
<1>8. ASSUME con'.bad = "no"  PROVE Going'
  <2>1. OneThing' /\ LoopAt' /\ ResetsNothing' /\ Stopped'
    BY Zenon, <1>8 DEF Going, OneThing, LoopAt, ResetsNothing, Stopped, Safe, Alone, Still,
       Starts, CallsMade
  <2>2. Whole' /\ Gone'
    BY Zenon, <1>8 DEF Going, Whole, Gone, OneThing, Starts
  <2> QED
    BY Zenon, <2>1, <2>2 DEF Going
<1> QED
  BY Zenon, <1>6, <1>7, <1>8

\* The retry timer
LEMMA TimerStep ==
  ASSUME Shape, Safe, Going, con.bad = "no", TimerFires
  PROVE  Shape' /\ Safe' /\ (con'.bad = "no" => Going')
<1>1. /\ UNCHANGED <<lpc, revents, pending, batch, ptr, alive, nextId, cpc, calls>>
      /\ lpc = "poll" /\ con.timers > 0 /\ life' = Release(life, con'.timers)
  BY Zenon DEF TimerFires, loop, caller
<1>2. con.timers = 1 /\ con.chan # "added" /\ con.state # "kConnecting" /\ alive = {}
  BY <1>1 DEF Shape, AnyConnector, Safe, Alone, Going, OneThing
<1>3. /\ con' \in AnyConnector
      /\ con'.chan = "added" <=> con'.state = "kConnecting"
      /\ con'.timers \in {0, 1} /\ (con'.timers = 1 => con'.chan # "added")
      /\ con'.overruled = con.overruled /\ con'.wanted = con.wanted
      /\ con'.chan = "added" \/ con'.timers = 1 => con.wanted
      /\ con'.bad = "no"
  <2> DEFINE c == [con EXCEPT !.timers = con.timers - 1]
  <2>1. con \in AnyConnector /\ con.timers - 1 = 0
    BY <1>2 DEF Shape
  <2>2. c \in AnyConnector
    BY <2>1 DEF AnyConnector
  <2>3. /\ c.chan = con.chan /\ c.state = con.state /\ c.wanted = con.wanted
        /\ c.timers = 0 /\ c.bad = con.bad /\ c.overruled = con.overruled
    BY Zenon, <2>1 DEF AnyConnector
  <2>4. StartInLoop(c)
    BY Zenon DEF TimerFires
  <2> HIDE DEF c
  <2> QED
    BY <1>2, <2>2, <2>3, <2>4, StartFields
<1>4. /\ life' \in AnyLife /\ life'.gone = life.gone /\ life'.hold = life.hold
      /\ life'.conn = life.conn
      /\ life'.rebound = life.rebound /\ life'.early = life.early
      /\ life'.conGone <=> life.gone /\ ~life.hold /\ con'.timers = 0
  BY <1>1, ReleaseFields DEF Shape
<1>5. Outstanding = Elements(pending)
  BY Zenon, <1>1, AllPending
<1>6. /\ Order(pending, batch)' /\ CallsMade' /\ Outstanding' = Outstanding
      /\ Elements(pending') = Elements(pending)
  BY Zenon, <1>1, <1>2, <1>3, <1>4, <1>5 DEF Going, CallsMade, Outstanding
<1> USE <1>1, <1>2, <1>3, <1>4, <1>5, <1>6
<1>7. Shape'
  BY Zenon DEF Shape
<1>8. Safe'
  BY DEF Safe, Alone, ChannelIsSafe, GoneIsUntouched, StopComes, Going, OneThing, Still,
     ResetsNothing, Gone
<1>9. ASSUME con'.bad = "no"  PROVE Going'
  <2>1. OneThing' /\ LoopAt' /\ ResetsNothing' /\ Stopped'
    BY <1>9 DEF Going, OneThing, LoopAt, ResetsNothing, Stopped, Safe, Alone, Still, Starts,
       CallsMade
  <2>2. Whole' /\ Gone'
    BY Zenon, <1>9 DEF Going, Whole, Gone, OneThing, Starts
  <2> QED
    BY Zenon, <2>1, <2>2 DEF Going
<1> QED
  BY Zenon, <1>7, <1>8, <1>9

\* handleError
LEMMA ErrorStep ==
  ASSUME Shape, Safe, Going, con.bad = "no", HandleError
  PROVE  Shape' /\ Safe' /\ (con'.bad = "no" => Going')
<1>1. /\ UNCHANGED <<lpc, batch, ptr, alive, nextId, life, cpc, calls>>
      /\ lpc = "event" /\ "err" \in revents /\ revents' = revents \ {"err"}
  BY Zenon DEF HandleError, client, caller
<1>2. con.chan = "added" /\ con.state = "kConnecting" /\ alive = {}
  BY <1>1 DEF Going, LoopAt, OneThing, Safe, Alone
<1>3. con' = Retry(RemoveAndResetChannel(con)) /\ pending' = Append(pending, "reset")
  BY Zenon, <1>2 DEF HandleError
<1>4. /\ con' \in AnyConnector /\ con'.state = "kDisconnected" /\ con'.chan = "removed"
      /\ con'.fd = "closed" /\ con'.wanted = con.wanted /\ con'.overruled = con.overruled
      /\ con'.bad = "no" /\ con'.timers = IF con.wanted THEN 1 ELSE 0
  <2> DEFINE r == RemoveAndResetChannel(con)
  <2>1. con.timers = 0
    BY <1>2 DEF Shape, AnyConnector, Safe, Alone
  <2>2. /\ r \in AnyConnector /\ r.timers = 0 /\ r.wanted = con.wanted
        /\ r.overruled = con.overruled /\ r.chan = "removed" /\ r.bad = "no"
    BY Zenon, <1>2, <2>1, RemoveFields DEF Shape
  <2> HIDE DEF r
  <2>3. con' = Retry(r)
    BY Zenon, <1>3 DEF r
  <2> QED
    BY <2>2, <2>3, RetryFields
<1>5. /\ Order(pending, batch)' /\ CallsMade' /\ Outstanding' = Outstanding \cup {"reset"}
      /\ pending' \in Seq(Functors) /\ Elements(pending') = Elements(pending) \cup {"reset"}
  <2>1. "reset" \in Functors /\ calls # 0 /\ cpc # "start"
    BY Zenon, <1>1, <1>2 DEF Functors, Going, OneThing, Starts
  <2>2. /\ pending' \in Seq(Functors) /\ Order(pending', batch)
        /\ Out(pending', batch) = Out(pending, batch) \cup {"reset"}
        /\ Elements(pending') = Elements(pending) \cup {"reset"}
    BY <1>3, <2>1, OrderPush DEF Shape, Going
  <2>3. Outstanding' = Outstanding \cup {"reset"}
    BY Zenon, <1>1, <2>2 DEF Outstanding, Out
  <2>4. CallsMade'
    BY Zenon, <1>1, <2>1, <2>3 DEF Going, CallsMade
  <2> QED
    BY Zenon, <1>1, <2>2, <2>3, <2>4
<1> USE <1>1, <1>2, <1>3, <1>4, <1>5
<1>6. Shape'
  BY Zenon DEF Shape
<1>7. Safe'
  BY DEF Safe, Alone, ChannelIsSafe, GoneIsUntouched, StopComes, Going, OneThing, Still,
     ResetsNothing, Gone
<1>8. ASSUME con'.bad = "no"  PROVE Going'
  <2>1. OneThing' /\ ResetsNothing' /\ Stopped'
    BY Zenon, <1>8 DEF Going, OneThing, ResetsNothing, Stopped, Safe, Alone, Still, Starts,
       CallsMade
  <2>2. LoopAt'
    BY DEF Going, LoopAt, Shape
  <2>3. Whole' /\ Gone'
    BY Zenon, <1>8 DEF Going, Whole, Gone, OneThing, Starts
  <2> QED
    BY Zenon, <2>1, <2>2, <2>3 DEF Going
<1> QED
  BY Zenon, <1>6, <1>7, <1>8

\* handleWrite
LEMMA WriteStep ==
  ASSUME Shape, Safe, Going, con.bad = "no", HandleWrite
  PROVE  Shape' /\ Safe' /\ (con'.bad = "no" => Going')
<1>1. /\ UNCHANGED <<lpc, batch, life, cpc, calls>>
      /\ lpc = "event" /\ revents # {} /\ revents' = {}
  BY Zenon DEF HandleWrite, caller
<1>2. \/ con.chan = "added" /\ con.state = "kConnecting" /\ alive = {} /\ con.timers = 0
      \/ con.chan = "removed" /\ con.fd = "closed"
  BY <1>1 DEF Going, LoopAt, OneThing, Shape, AnyConnector, Safe, Alone
<1>3. pending' = Append(pending, "reset")
  BY Zenon DEF HandleWrite
<1>4. /\ con' \in AnyConnector /\ con'.chan # "added"
      /\ con'.wanted = con.wanted /\ con'.overruled = con.overruled
      /\ \/ /\ con'.bad = "fatal" \/ (con'.bad = "freed" /\ life.gone /\ con.chan = "added")
            /\ con'.timers = con.timers /\ UNCHANGED <<ptr, alive, nextId>>
         \/ /\ con'.bad = "no" /\ con'.state = "kConnected" /\ con'.timers = 0
            /\ con.chan = "added" /\ ~life.gone
            /\ alive' = {nextId} /\ ptr' = nextId /\ nextId' = nextId + 1
         \/ /\ con'.bad = "no" /\ con'.state = "kDisconnected"
            /\ con'.timers = (IF con.wanted THEN 1 ELSE 0)
            /\ con.chan = "added" /\ alive = {} /\ UNCHANGED <<ptr, alive, nextId>>
  <2> DEFINE r == RemoveAndResetChannel(con)
  <2>1. /\ r \in AnyConnector /\ r.timers = con.timers /\ r.wanted = con.wanted /\ r.chan # "added"
        /\ r.overruled = con.overruled
        /\ con.chan = "added" => r.bad = "no"
        /\ con.chan = "removed" /\ con.fd = "closed" => r.bad = "fatal"
    BY Zenon, RemoveFields DEF Shape
  <2>2. IF r.bad # "no" THEN con' = r /\ UNCHANGED <<ptr, alive, nextId>>
        ELSE IF con.fd = "ok" /\ life.gone
        THEN con' = [r EXCEPT !.bad = "freed"] /\ UNCHANGED <<ptr, alive, nextId>>
        ELSE IF con.fd = "ok"
        THEN con' = [r EXCEPT !.state = "kConnected", !.fd = "handed"] /\ NewConnection
        ELSE con' = Retry(r) /\ UNCHANGED <<ptr, alive, nextId>>
    BY Zenon DEF HandleWrite
  <2> HIDE DEF r
  <2>3. CASE r.bad # "no"
    BY Zenon, <1>2, <2>1, <2>2, <2>3
  <2>4. CASE r.bad = "no" /\ con.fd = "ok" /\ life.gone
    BY <1>2, <2>1, <2>2, <2>4 DEF AnyConnector
  <2>5. CASE r.bad = "no" /\ con.fd = "ok" /\ ~life.gone
    <3>1. con.chan = "added" /\ con.timers = 0 /\ alive = {}
      BY Zenon, <1>2, <2>1, <2>5
    <3>2. con' = [r EXCEPT !.state = "kConnected", !.fd = "handed"] /\ NewConnection
      BY Zenon, <2>2, <2>5
    <3>3. con' \in AnyConnector
      BY Zenon, <2>1, <3>2 DEF AnyConnector
    <3>5. /\ con'.state = "kConnected" /\ con'.chan = r.chan /\ con'.wanted = r.wanted
          /\ con'.overruled = r.overruled /\ con'.bad = r.bad /\ con'.timers = r.timers
      BY Zenon, <2>1, <3>2 DEF AnyConnector
    <3>4. alive' = {nextId} /\ ptr' = nextId /\ nextId' = nextId + 1
      BY Zenon, <3>1, <3>2 DEF NewConnection
    <3> QED
      BY Zenon, <2>1, <2>5, <3>1, <3>3, <3>4, <3>5
  <2>6. CASE r.bad = "no" /\ con.fd # "ok"
    <3>1. con.chan = "added" /\ con.timers = 0 /\ alive = {}
      BY Zenon, <1>2, <2>1, <2>6
    <3>2. con' = Retry(r) /\ UNCHANGED <<ptr, alive, nextId>>
      BY Zenon, <2>2, <2>6
    <3>3. /\ con' \in AnyConnector /\ con'.state = "kDisconnected" /\ con'.chan # "added"
          /\ con'.wanted = con.wanted /\ con'.overruled = con.overruled
          /\ con'.bad = "no" /\ con'.timers = IF con.wanted THEN 1 ELSE 0
      BY <2>1, <2>6, <3>1, <3>2, RetryFields
    <3> QED
      BY Zenon, <3>1, <3>2, <3>3
  <2> QED
    BY Zenon, <2>3, <2>4, <2>5, <2>6
<1>5. /\ ptr' \in Nat /\ alive' \in SUBSET Nat /\ nextId' \in Nat \ {0}
      /\ alive = (IF ptr = 0 THEN {} ELSE {ptr}) => alive' = IF ptr' = 0 THEN {} ELSE {ptr'}
  <2>1. nextId \in Nat /\ nextId # 0 /\ ptr \in Nat /\ alive \subseteq Nat
    BY Zenon DEF Shape
  <2>2. CASE UNCHANGED <<ptr, alive, nextId>>
    BY Zenon, <2>1, <2>2
  <2>3. CASE alive' = {nextId} /\ ptr' = nextId /\ nextId' = nextId + 1
    BY <2>1, <2>3
  <2> QED
    BY Zenon, <1>4, <2>2, <2>3
<1>6. /\ Order(pending, batch)' /\ CallsMade' /\ Outstanding' = Outstanding \cup {"reset"}
      /\ pending' \in Seq(Functors) /\ Elements(pending') = Elements(pending) \cup {"reset"}
  <2>1. "reset" \in Functors /\ calls # 0 /\ cpc # "start"
    BY Zenon, <1>1, <1>2 DEF Functors, Going, OneThing, Starts
  <2>2. /\ pending' \in Seq(Functors) /\ Order(pending', batch)
        /\ Out(pending', batch) = Out(pending, batch) \cup {"reset"}
        /\ Elements(pending') = Elements(pending) \cup {"reset"}
    BY <1>3, <2>1, OrderPush DEF Shape, Going
  <2>3. Outstanding' = Outstanding \cup {"reset"}
    BY Zenon, <1>1, <2>2 DEF Outstanding, Out
  <2>4. CallsMade'
    BY Zenon, <1>1, <2>1, <2>3 DEF Going, CallsMade
  <2> QED
    BY Zenon, <1>1, <2>2, <2>3, <2>4
<1> USE <1>1, <1>2, <1>3, <1>4, <1>5, <1>6
<1>7. Shape'
  BY Zenon DEF Shape
<1>8. Safe'
  BY DEF Safe, Alone, ChannelIsSafe, GoneIsUntouched, StopComes, Going, OneThing, Still,
     ResetsNothing, Gone
<1>9. ASSUME con'.bad = "no"  PROVE Going'
  <2>1. OneThing' /\ LoopAt' /\ ResetsNothing' /\ Stopped'
    BY Zenon, <1>9 DEF Going, OneThing, LoopAt, ResetsNothing, Stopped, Safe, Alone, Still, Starts,
       CallsMade
  <2>2. Whole' /\ Gone'
    BY Zenon, <1>9 DEF Going, Whole, Gone, OneThing, Starts
  <2> QED
    BY Zenon, <2>1, <2>2 DEF Going
<1> QED
  BY Zenon, <1>7, <1>8, <1>9

\* The pending functors become the batch.
LEMMA BatchStep ==
  ASSUME Shape, Safe, Going, con.bad = "no", StartFunctors
  PROVE  Shape' /\ Safe' /\ (con'.bad = "no" => Going')
<1>1. /\ UNCHANGED <<con, revents, ptr, alive, nextId, life, cpc, calls>> /\ lpc # "functors"
      /\ lpc' = "functors" /\ batch' = pending /\ pending' = <<>>
  BY Zenon DEF StartFunctors, client, caller
<1>2. /\ Order(pending, batch)' /\ CallsMade' /\ Outstanding' = Outstanding
      /\ batch' \in Seq(Functors) /\ pending' \in Seq(Functors) /\ Elements(pending') = {}
  <2>1. batch = <<>> /\ Outstanding = Elements(pending)
    BY Zenon, <1>1, AllPending
  <2>2. Order(pending', batch') /\ Outstanding' = Elements(pending)
    BY Zenon, <1>1, <2>1, OrderSwap DEF Shape, Going, Outstanding, Out
  <2>3. CallsMade'
    BY Zenon, <1>1, <2>1, <2>2 DEF Going, CallsMade
  <2> QED
    BY Zenon, <1>1, <2>1, <2>2, <2>3, EmptyQueue DEF Shape
<1> USE <1>1, <1>2
<1>3. Shape'
  BY Zenon DEF Shape
<1>4. Safe'
  BY Zenon DEF Safe, Alone, ChannelIsSafe, GoneIsUntouched, StopComes, Going, OneThing, Still,
     ResetsNothing, Gone
<1>5. ASSUME con'.bad = "no"  PROVE Going'
  <2>1. OneThing' /\ LoopAt' /\ ResetsNothing' /\ Stopped'
    BY Zenon, <1>5 DEF Going, OneThing, LoopAt, ResetsNothing, Stopped, Safe, Alone, Still, Starts,
       CallsMade
  <2>2. Whole' /\ Gone'
    BY Zenon, <1>5 DEF Going, Whole, Gone, OneThing, Starts
  <2> QED
    BY Zenon, <2>1, <2>2 DEF Going
<1> QED
  BY Zenon, <1>3, <1>4, <1>5

\* startInLoop, called by start
LEMMA StartStep ==
  ASSUME Shape, Safe, Going, con.bad = "no", RunStart
  PROVE  Shape' /\ Safe' /\ (con'.bad = "no" => Going')
<1>1. /\ RunNext("start")
      /\ UNCHANGED <<lpc, revents, pending, ptr, alive, nextId, life, cpc, calls>>
      /\ ~life.conGone
  BY Zenon DEF RunStart, RunNext, client, caller
<1>2. /\ lpc = "functors" /\ con.timers = 0 /\ con.chan # "added" /\ con.state # "kConnecting"
      /\ alive = {} /\ "reset" \notin Outstanding /\ Starts
      /\ "reset" \notin Elements(pending)
  BY Zenon, <1>1, TakeFacts DEF Going, OneThing, Starts, Still, Outstanding
<1>3. /\ con' \in AnyConnector /\ con'.wanted = con.wanted
      /\ con'.overruled = con.overruled /\ con'.bad = "no"
      /\ con'.chan = "added" <=> con'.state = "kConnecting"
      /\ con'.timers = 0 \/ (con'.timers = 1 /\ con'.chan # "added")
      /\ con'.chan = "added" => con.wanted
  BY <1>2, StartFields DEF RunStart, Shape
<1>4. /\ Order(pending, batch)' /\ CallsMade' /\ Outstanding = Outstanding' \cup {"start"}
      /\ batch' \in Seq(Functors) /\ Elements(pending') = Elements(pending) /\ calls # 0
      /\ "start" \notin Outstanding' /\ cpc # "start"
  <2>1. /\ batch' \in Seq(Functors) /\ Order(pending, batch') /\ calls # 0 /\ cpc # "start"
        /\ Outstanding = Out(pending, batch') \cup {"start"} /\ "start" \notin Out(pending, batch')
    BY Zenon, <1>1, TakeFacts
  <2>2. Outstanding' = Out(pending, batch')
    BY Zenon, <1>1 DEF Outstanding, Out
  <2>3. CallsMade'
    BY Zenon, <1>1, <1>2, <2>1, <2>2 DEF Going, CallsMade
  <2> QED
    BY Zenon, <1>1, <2>1, <2>2, <2>3
<1> USE <1>1, <1>2, <1>3, <1>4
<1>5. Shape'
  BY Zenon DEF Shape
<1>6. Safe'
  BY DEF Safe, Alone, ChannelIsSafe, GoneIsUntouched, StopComes, Going, OneThing, Still,
     ResetsNothing, Gone
<1>7. ASSUME con'.bad = "no"  PROVE Going'
  <2>1. OneThing' /\ LoopAt' /\ ResetsNothing' /\ Stopped'
    BY Zenon, <1>7 DEF Going, OneThing, LoopAt, ResetsNothing, Stopped, Safe, Alone, Still, Starts,
       CallsMade
  <2>2. Whole' /\ Gone'
    BY Zenon, <1>7 DEF Going, Whole, Gone, OneThing, Starts
  <2> QED
    BY Zenon, <2>1, <2>2 DEF Going
<1> QED
  BY Zenon, <1>5, <1>6, <1>7

\* stopInLoop of a connector that is not connecting
LEMMA StopIdleStep ==
  ASSUME Shape, Safe, Going, con.bad = "no", StopInLoop, con.state # "kConnecting"
  PROVE  Shape' /\ Safe' /\ (con'.bad = "no" => Going')
<1>1. /\ RunNext("stop")
      /\ UNCHANGED <<con, lpc, revents, pending, ptr, alive, nextId, life, cpc, calls>>
  BY Zenon DEF StopInLoop, client, caller
<1>2. lpc = "functors" /\ con.chan # "added"
  BY Zenon, <1>1, TakeFacts DEF Going, OneThing
<1>3. /\ Order(pending, batch)' /\ CallsMade' /\ Outstanding = Outstanding' \cup {"stop"}
      /\ batch' \in Seq(Functors) /\ Elements(pending') = Elements(pending) /\ calls # 0
      /\ "start" \notin Outstanding' /\ cpc # "start"
  <2>1. /\ batch' \in Seq(Functors) /\ Order(pending, batch') /\ calls # 0 /\ cpc # "start"
        /\ Outstanding = Out(pending, batch') \cup {"stop"} /\ "start" \notin Out(pending, batch')
    BY Zenon, <1>1, TakeFacts
  <2>2. Outstanding' = Out(pending, batch')
    BY Zenon, <1>1 DEF Outstanding, Out
  <2>3. CallsMade'
    BY Zenon, <1>1, <1>2, <2>1, <2>2 DEF Going, CallsMade
  <2> QED
    BY Zenon, <1>1, <2>1, <2>2, <2>3
<1> USE <1>1, <1>2, <1>3
<1>4. Shape'
  BY Zenon DEF Shape
<1>5. Safe'
  BY Zenon DEF Safe, Alone, ChannelIsSafe, GoneIsUntouched, StopComes, Going, OneThing, Still,
     ResetsNothing, Gone
<1>6. ASSUME con'.bad = "no"  PROVE Going'
  <2>1. OneThing' /\ LoopAt' /\ ResetsNothing' /\ Stopped'
    BY Zenon, <1>6 DEF Going, OneThing, LoopAt, ResetsNothing, Stopped, Safe, Alone, Still, Starts,
       CallsMade
  <2>2. Whole' /\ Gone'
    BY Zenon, <1>6 DEF Going, Whole, Gone, OneThing, Starts
  <2> QED
    BY Zenon, <2>1, <2>2 DEF Going
<1> QED
  BY Zenon, <1>4, <1>5, <1>6

\* resetChannel
LEMMA ResetStep ==
  ASSUME Shape, Safe, Going, con.bad = "no", ResetChannel
  PROVE  Shape' /\ Safe' /\ (con'.bad = "no" => Going')
<1>1. /\ RunNext("reset")
      /\ UNCHANGED <<lpc, revents, pending, ptr, alive, nextId, life, cpc, calls>>
  BY Zenon DEF ResetChannel, client, caller
<1>2. lpc = "functors" /\ (con.overruled \/ con.chan # "added")
  BY Zenon, <1>1, TakeFacts DEF Going, ResetsNothing
<1>3. /\ con' \in AnyConnector /\ con'.wanted = con.wanted /\ con'.timers = con.timers
      /\ con'.overruled = con.overruled /\ con'.chan = "null" /\ con'.state = con.state
      /\ con'.bad = IF con.chan = "added" THEN "dangling" ELSE "no"
  BY Zenon DEF ResetChannel, Shape, AnyConnector
<1>4. /\ Order(pending, batch)' /\ CallsMade' /\ Outstanding = Outstanding' \cup {"reset"}
      /\ batch' \in Seq(Functors) /\ Elements(pending') = Elements(pending) /\ calls # 0
      /\ "start" \notin Outstanding' /\ cpc # "start"
  <2>1. /\ batch' \in Seq(Functors) /\ Order(pending, batch') /\ calls # 0 /\ cpc # "start"
        /\ Outstanding = Out(pending, batch') \cup {"reset"} /\ "start" \notin Out(pending, batch')
    BY Zenon, <1>1, TakeFacts
  <2>2. Outstanding' = Out(pending, batch')
    BY Zenon, <1>1 DEF Outstanding, Out
  <2>3. CallsMade'
    BY Zenon, <1>1, <1>2, <2>1, <2>2 DEF Going, CallsMade
  <2> QED
    BY Zenon, <1>1, <2>1, <2>2, <2>3
<1> USE <1>1, <1>2, <1>3, <1>4
<1>5. Shape'
  BY Zenon DEF Shape
<1>6. Safe'
  BY Zenon DEF Safe, Alone, ChannelIsSafe, GoneIsUntouched, StopComes, Going, OneThing, Still,
     ResetsNothing, Gone
<1>7. ASSUME con'.bad = "no"  PROVE Going'
  <2>1. OneThing' /\ LoopAt' /\ ResetsNothing' /\ Stopped'
    BY Zenon, <1>7 DEF Going, OneThing, LoopAt, ResetsNothing, Stopped, Safe, Alone, Still, Starts,
       CallsMade
  <2>2. Whole' /\ Gone'
    BY Zenon, <1>7 DEF Going, Whole, Gone, OneThing, Starts
  <2> QED
    BY Zenon, <2>1, <2>2 DEF Going
<1> QED
  BY Zenon, <1>5, <1>6, <1>7

\* setCloseCallback
LEMMA RebindStep ==
  ASSUME Shape, Safe, Going, con.bad = "no", RunRebind
  PROVE  Shape' /\ Safe' /\ (con'.bad = "no" => Going')
<1>1. /\ RunNext("rebind")
      /\ UNCHANGED <<con, lpc, revents, pending, ptr, alive, nextId, cpc, calls>>
  BY Zenon DEF RunRebind, caller
<1>2. /\ life' \in AnyLife /\ life'.gone = life.gone /\ life'.early = life.early
      /\ life'.hold = life.hold /\ life'.conGone = life.conGone /\ life'.rebound
      /\ life'.conn = life.conn
  BY Zenon DEF RunRebind, Shape, AnyLife
<1>3. lpc = "functors"
  BY Zenon, <1>1, TakeFacts
<1>4. /\ Order(pending, batch)' /\ CallsMade' /\ Outstanding = Outstanding' \cup {"rebind"}
      /\ batch' \in Seq(Functors) /\ Elements(pending') = Elements(pending) /\ calls # 0
      /\ "start" \notin Outstanding' /\ cpc # "start"
  <2>1. /\ batch' \in Seq(Functors) /\ Order(pending, batch') /\ calls # 0 /\ cpc # "start"
        /\ Outstanding = Out(pending, batch') \cup {"rebind"} /\ "start" \notin Out(pending, batch')
    BY Zenon, <1>1, TakeFacts
  <2>2. Outstanding' = Out(pending, batch')
    BY Zenon, <1>1 DEF Outstanding, Out
  <2>3. CallsMade'
    BY Zenon, <1>1, <1>2, <2>1, <2>2 DEF Going, CallsMade
  <2> QED
    BY Zenon, <1>1, <2>1, <2>2, <2>3
<1> USE <1>1, <1>2, <1>3, <1>4
<1>5. Shape'
  BY Zenon DEF Shape
<1>6. Safe'
  BY Zenon DEF Safe, Alone, ChannelIsSafe, GoneIsUntouched, StopComes, Going, OneThing, Still,
     ResetsNothing, Gone
<1>7. ASSUME con'.bad = "no"  PROVE Going'
  <2>1. OneThing' /\ LoopAt' /\ ResetsNothing' /\ Stopped'
    BY Zenon, <1>7 DEF Going, OneThing, LoopAt, ResetsNothing, Stopped, Safe, Alone, Still, Starts,
       CallsMade
  <2>2. Whole' /\ Gone'
    BY Zenon, <1>7 DEF Going, Whole, Gone, OneThing, Starts
  <2> QED
    BY Zenon, <2>1, <2>2 DEF Going
<1> QED
  BY Zenon, <1>5, <1>6, <1>7

\* forceCloseInLoop of a connection that the client has let go
LEMMA CloseStep ==
  ASSUME Shape, Safe, Going, con.bad = "no", RunClose
  PROVE  Shape' /\ Safe' /\ (con'.bad = "no" => Going')
<1>1. /\ RunNext("close") /\ alive' \subseteq alive
      /\ UNCHANGED <<con, lpc, revents, pending, ptr, nextId, life, cpc, calls>>
  BY Zenon DEF RunClose, caller
<1>2. lpc = "functors"
  BY Zenon, <1>1, TakeFacts
<1>3. /\ Order(pending, batch)' /\ CallsMade' /\ Outstanding = Outstanding' \cup {"close"}
      /\ batch' \in Seq(Functors) /\ Elements(pending') = Elements(pending) /\ calls # 0
      /\ "start" \notin Outstanding' /\ cpc # "start"
  <2>1. /\ batch' \in Seq(Functors) /\ Order(pending, batch') /\ calls # 0 /\ cpc # "start"
        /\ Outstanding = Out(pending, batch') \cup {"close"} /\ "start" \notin Out(pending, batch')
    BY Zenon, <1>1, TakeFacts
  <2>2. Outstanding' = Out(pending, batch')
    BY Zenon, <1>1 DEF Outstanding, Out
  <2>3. CallsMade'
    BY Zenon, <1>1, <1>2, <2>1, <2>2 DEF Going, CallsMade
  <2> QED
    BY Zenon, <1>1, <2>1, <2>2, <2>3
<1> USE <1>1, <1>2, <1>3
<1>4. Shape'
  BY Zenon DEF Shape
<1>5. Safe'
  BY Zenon DEF Safe, Alone, ChannelIsSafe, GoneIsUntouched, StopComes, Going, OneThing, Still,
     ResetsNothing, Gone
<1>6. ASSUME con'.bad = "no"  PROVE Going'
  <2>1. OneThing' /\ LoopAt' /\ ResetsNothing' /\ Stopped'
    BY Zenon, <1>6 DEF Going, OneThing, LoopAt, ResetsNothing, Stopped, Safe, Alone, Still, Starts,
       CallsMade
  <2>2. Whole' /\ Gone'
    BY Zenon, <1>6 DEF Going, Whole, Gone, OneThing, Starts
  <2> QED
    BY Zenon, <2>1, <2>2 DEF Going
<1> QED
  BY Zenon, <1>4, <1>5, <1>6

\* stopInLoop of a connector that is connecting
LEMMA StopStep ==
  ASSUME Shape, Safe, Going, con.bad = "no", StopInLoop, con.state = "kConnecting"
  PROVE  Shape' /\ Safe' /\ (con'.bad = "no" => Going')
<1>1. /\ RunNext("stop") /\ UNCHANGED <<lpc, revents, ptr, alive, nextId, life, cpc, calls>>
  BY Zenon DEF StopInLoop, client, caller
<1>2. con.chan = "added" /\ lpc = "functors" /\ alive = {} /\ "stop" \in Outstanding
  BY Zenon, <1>1, TakeFacts DEF Going, OneThing, Safe, Alone
<1>3. con' = Retry(RemoveAndResetChannel(con)) /\ pending' = Append(pending, "reset")
  BY Zenon DEF StopInLoop
<1>4. /\ con' \in AnyConnector /\ con'.state = "kDisconnected" /\ con'.chan = "removed"
      /\ con'.fd = "closed" /\ con'.wanted = con.wanted /\ con'.overruled = con.overruled
      /\ con'.bad = "no" /\ con'.timers = IF con.wanted THEN 1 ELSE 0
  <2> DEFINE r == RemoveAndResetChannel(con)
  <2>1. con.timers = 0
    BY <1>2 DEF Shape, AnyConnector, Safe, Alone
  <2>2. /\ r \in AnyConnector /\ r.timers = 0 /\ r.wanted = con.wanted
        /\ r.overruled = con.overruled /\ r.chan = "removed" /\ r.bad = "no"
    BY Zenon, <1>2, <2>1, RemoveFields DEF Shape
  <2> HIDE DEF r
  <2>3. con' = Retry(r)
    BY Zenon, <1>3 DEF r
  <2> QED
    BY <2>2, <2>3, RetryFields
<1>5. /\ Order(pending, batch)' /\ CallsMade' /\ "start" \notin Outstanding' /\ cpc # "start"
      /\ calls # 0
      /\ Outstanding \cup {"reset"} = Outstanding' \cup {"stop"} /\ "reset" \in Outstanding'
      /\ batch' \in Seq(Functors) /\ pending' \in Seq(Functors)
      /\ Elements(pending') = Elements(pending) \cup {"reset"}
  <2>1. /\ batch' \in Seq(Functors) /\ Order(pending, batch') /\ calls # 0 /\ cpc # "start"
        /\ Outstanding = Out(pending, batch') \cup {"stop"} /\ "start" \notin Out(pending, batch')
    BY Zenon, <1>1, TakeFacts
  <2>2. "reset" \in Functors /\ pending \in Seq(Functors)
    BY Zenon DEF Functors, Shape
  <2>3. /\ pending' \in Seq(Functors) /\ Order(pending', batch')
        /\ Out(pending', batch') = Out(pending, batch') \cup {"reset"}
        /\ Elements(pending') = Elements(pending) \cup {"reset"}
    BY <1>3, <2>1, <2>2, OrderPush
  <2>4. Outstanding' = Out(pending', batch')
    BY Zenon DEF Outstanding, Out
  <2>5. CallsMade'
    BY Zenon, <1>1, <2>1, <2>3, <2>4 DEF Going, CallsMade
  <2> QED
    BY Zenon, <1>1, <2>1, <2>3, <2>4, <2>5
<1> USE <1>1, <1>2, <1>3, <1>4, <1>5
<1>6. Shape'
  BY Zenon DEF Shape
<1>7. Safe'
  BY DEF Safe, Alone, ChannelIsSafe, GoneIsUntouched, StopComes, Going, OneThing, Still,
     ResetsNothing, Gone
<1>8. ASSUME con'.bad = "no"  PROVE Going'
  <2>1. OneThing' /\ LoopAt' /\ ResetsNothing' /\ Stopped'
    BY Zenon, <1>8 DEF Going, OneThing, LoopAt, ResetsNothing, Stopped, Safe, Alone, Still, Starts,
       CallsMade
  <2>2. Whole' /\ Gone'
    BY Zenon, <1>8 DEF Going, Whole, Gone, OneThing, Starts
  <2> QED
    BY Zenon, <2>1, <2>2 DEF Going
<1> QED
  BY Zenon, <1>6, <1>7, <1>8

\* ~TcpClient in the loop
LEMMA DestroyStep ==
  ASSUME Shape, Safe, Going, con.bad = "no", RunDestroy
  PROVE  Shape' /\ Safe' /\ (con'.bad = "no" => Going')
<1>1. /\ RunNext("destroy") /\ UNCHANGED <<lpc, revents, ptr, alive, nextId, cpc, calls>>
  BY Zenon DEF RunDestroy, caller
<1>2. /\ lpc = "functors" /\ calls = MaxCalls /\ calls # 0 /\ cpc = "idle"
      /\ ~life.gone /\ ~life.early /\ ~Starts
      /\ alive = (IF ptr = 0 THEN {} ELSE {ptr})
      /\ ptr # 0 => con.timers = 0 /\ con.chan # "added"
  <2>1. /\ lpc = "functors" /\ "destroy" \in Outstanding /\ calls # 0 /\ ~Starts
    BY <1>1, TakeFacts
  <2>2. /\ calls = MaxCalls /\ cpc \in {"idle", "destroy"} /\ cpc # "destroy" /\ ~life.gone
        /\ ~life.early
    BY Zenon, <2>1 DEF Going, CallsMade
  <2>3. alive = (IF ptr = 0 THEN {} ELSE {ptr})
    BY Zenon, <2>2 DEF Going, Whole
  <2>4. ptr # 0 => con.timers = 0 /\ con.chan # "added"
    BY <2>3 DEF Shape, AnyConnector, Safe, Alone
  <2> QED
    BY Zenon, <2>1, <2>2, <2>3, <2>4
<1>3. PICK unique \in BOOLEAN :
        /\ life' = Release([life EXCEPT !.gone = TRUE, !.conn = ptr, !.unique = unique,
                    !.rebound = ptr # 0, !.hold = ptr = 0,
                    !.early = con.state = "kConnecting" \/ "reset" \in Outstanding], con.timers)
        /\ pending' = IF ptr = 0 THEN Append(pending, "stop")
                      ELSE IF unique THEN Append(pending, "close") ELSE pending
  BY Zenon DEF RunDestroy
<1>4. /\ life' \in AnyLife /\ life'.gone /\ life'.conn = ptr
      /\ life'.rebound <=> ptr # 0
      /\ life'.hold <=> ptr = 0
      /\ life'.early <=> con.state = "kConnecting" \/ "reset" \in Outstanding
      /\ life'.conGone <=> ptr # 0 /\ con.timers = 0
  <2> DEFINE e == con.state = "kConnecting" \/ "reset" \in Outstanding
             l == [life EXCEPT !.gone = TRUE, !.conn = ptr, !.unique = unique,
                    !.rebound = ptr # 0, !.hold = ptr = 0, !.early = e]
  <2>1. life \in AnyLife
    BY Zenon DEF Shape
  <2>2. e \in BOOLEAN /\ (ptr = 0) \in BOOLEAN /\ (ptr # 0) \in BOOLEAN /\ ptr \in Nat
    BY Zenon DEF Shape
  <2> HIDE DEF e
  <2>3. l \in AnyLife
    BY Zenon, <2>1, <2>2 DEF AnyLife
  <2>4. l.gone = TRUE /\ l.rebound = (ptr # 0) /\ l.hold = (ptr = 0) /\ l.early = e
        /\ l.conn = ptr
    BY Zenon, <2>1 DEF AnyLife
  <2>5. life' = Release(l, con.timers)
    BY Zenon, <1>3 DEF e
  <2> HIDE DEF l
  <2>6. /\ life' \in AnyLife /\ life'.gone = l.gone /\ life'.rebound = l.rebound
        /\ life'.hold = l.hold /\ life'.early = l.early /\ life'.conn = l.conn
        /\ life'.conGone <=> l.gone /\ ~l.hold /\ con.timers = 0
    BY Zenon, <2>3, <2>5, ReleaseFields
  <2> QED
    BY Zenon, <2>4, <2>6 DEF e
<1>5. /\ con' \in AnyConnector /\ con'.state = con.state /\ con'.chan = con.chan
      /\ con'.fd = con.fd /\ con'.timers = con.timers /\ con'.overruled = con.overruled
      /\ con'.bad = "no"
      /\ con'.wanted <=> con.wanted /\ ptr # 0
  BY Zenon DEF RunDestroy, Shape, AnyConnector
<1>6. /\ Order(pending, batch)' /\ CallsMade' /\ "start" \notin Outstanding'
      /\ "destroy" \notin Outstanding'
      /\ batch' \in Seq(Functors) /\ pending' \in Seq(Functors)
      /\ Outstanding' \subseteq {"reset", "stop", "close"}
      /\ "reset" \in Outstanding' <=> "reset" \in Outstanding
      /\ "reset" \in Elements(pending') <=> "reset" \in Elements(pending)
      /\ "stop" \in Outstanding' <=> ptr = 0
      /\ "stop" \in Outstanding' \/ "close" \in Outstanding' => ptr = 0 \/ life'.rebound
  <2>1. /\ batch' \in Seq(Functors) /\ Order(pending, batch')
        /\ Outstanding = Out(pending, batch') \cup {"destroy"}
        /\ Out(pending, batch') \subseteq {"reset"}
    BY Zenon, <1>1, TakeFacts
  <2>2. {"stop", "close"} \subseteq Functors /\ pending \in Seq(Functors)
    BY Zenon DEF Functors, Shape
  <2>3. Outstanding' = Out(pending', batch')
    BY Zenon DEF Outstanding, Out
  <2>4. ASSUME NEW f \in {"stop", "close"}, pending' = Append(pending, f)
        PROVE  /\ pending' \in Seq(Functors) /\ Order(pending', batch')
               /\ Outstanding' = Out(pending, batch') \cup {f}
               /\ Elements(pending') = Elements(pending) \cup {f}
    BY <2>1, <2>2, <2>3, <2>4, OrderPush
  <2>5. /\ pending' \in Seq(Functors) /\ Order(pending', batch')
        /\ Outstanding' \subseteq {"reset", "stop", "close"}
        /\ "reset" \in Outstanding' <=> "reset" \in Outstanding
        /\ "reset" \in Elements(pending') <=> "reset" \in Elements(pending)
        /\ "stop" \in Outstanding' <=> ptr = 0
    <3>1. CASE ptr = 0
      <4>1. pending' = Append(pending, "stop")
        BY Zenon, <1>3, <3>1
      <4>2. /\ pending' \in Seq(Functors) /\ Order(pending', batch')
            /\ Outstanding' = Out(pending, batch') \cup {"stop"}
            /\ Elements(pending') = Elements(pending) \cup {"stop"}
        BY Zenon, <2>4, <4>1
      <4> QED
        BY Zenon, <2>1, <3>1, <4>2
    <3>2. CASE ptr # 0 /\ unique
      <4>1. pending' = Append(pending, "close")
        BY Zenon, <1>3, <3>2
      <4>2. /\ pending' \in Seq(Functors) /\ Order(pending', batch')
            /\ Outstanding' = Out(pending, batch') \cup {"close"}
            /\ Elements(pending') = Elements(pending) \cup {"close"}
        BY Zenon, <2>4, <4>1
      <4> QED
        BY Zenon, <2>1, <3>2, <4>2
    <3>3. CASE ptr # 0 /\ ~unique
      <4>1. pending' = pending
        BY Zenon, <1>3, <3>3
      <4> QED
        BY Zenon, <2>1, <2>2, <2>3, <3>3, <4>1
    <3> QED
      BY Zenon, <3>1, <3>2, <3>3
  <2>6. "start" \notin Outstanding' /\ "destroy" \notin Outstanding'
    BY Zenon, <2>5
  <2>7. CallsMade'
    BY Zenon, <1>1, <1>2, <1>4, <2>6, ClientAssumption DEF CallsMade, Shape
  <2> QED
    BY Zenon, <1>4, <2>1, <2>5, <2>6, <2>7
<1> USE <1>1, <1>2, <1>3, <1>4, <1>5, <1>6
<1>7. Shape'
  BY Zenon DEF Shape
<1>8. Safe'
  BY Zenon DEF Safe, Alone, ChannelIsSafe, GoneIsUntouched, StopComes, Going, OneThing, Still,
     ResetsNothing, Gone, Starts
<1>9. ASSUME con'.bad = "no"  PROVE Going'
  <2>1. OneThing' /\ LoopAt' /\ ResetsNothing' /\ Stopped'
    BY Zenon, <1>9 DEF Going, OneThing, LoopAt, ResetsNothing, Stopped, Safe, Alone, Still, Starts,
       CallsMade
  <2>2. Whole' /\ Gone'
    BY <1>9 DEF Going, Whole, Gone, OneThing, Starts
  <2> QED
    BY Zenon, <2>1, <2>2 DEF Going
<1> QED
  BY Zenon, <1>7, <1>8, <1>9

\* connect
LEMMA ConnectStep ==
  ASSUME Shape, Safe, Going, con.bad = "no", CallConnect, ~crossed'
  PROVE  Shape' /\ Safe' /\ (con'.bad = "no" => Going')
<1>1. /\ UNCHANGED <<lpc, revents, pending, batch, ptr, alive, nextId, life>>
      /\ cpc = "idle" /\ ~life.gone /\ ~life.early /\ "destroy" \notin Outstanding
      /\ calls' \in 1 .. MaxCalls
      /\ cpc' = "start"
  BY ClientAssumption DEF CallConnect, Call, MayCall, loop, Shape, Going, CallsMade
<1>0. AtRest
  BY Zenon DEF CallConnect
<1>2. /\ con' \in AnyConnector /\ con'.wanted /\ con'.state = con.state /\ con'.chan = con.chan
      /\ con'.fd = con.fd
      /\ con'.timers = con.timers /\ con'.overruled = con.overruled /\ con'.bad = "no"
  BY Zenon DEF CallConnect, Shape, AnyConnector
<1>3. /\ pending = <<>> /\ batch = <<>> /\ Outstanding = {} /\ Elements(pending) = {}
      /\ Still /\ lpc # "event"
  BY Zenon, <1>0, EmptyQueue DEF AtRest, Outstanding, Still
<1>4. /\ Order(pending, batch)' /\ CallsMade' /\ Outstanding' = Outstanding
  <2>1. Outstanding' = Outstanding /\ Order(pending, batch)'
    BY Zenon, <1>1 DEF Outstanding, Going
  <2>2. CallsMade'
    BY <1>1, <1>2, <1>3, <2>1 DEF Going, CallsMade
  <2> QED
    BY Zenon, <2>1, <2>2
<1> USE <1>1, <1>2, <1>3, <1>4
<1>5. Shape'
  BY DEF Shape, PCs
<1>6. Safe'
  BY Zenon DEF Safe, Alone, ChannelIsSafe, GoneIsUntouched, StopComes, Going, OneThing, Still,
     ResetsNothing, Gone
<1>7. ASSUME con'.bad = "no"  PROVE Going'
  <2>1. OneThing' /\ LoopAt' /\ ResetsNothing' /\ Stopped'
    BY Zenon, <1>7 DEF Going, OneThing, LoopAt, ResetsNothing, Stopped, Safe, Alone, Still, Starts,
       CallsMade
  <2>2. Whole' /\ Gone'
    BY Zenon, <1>7 DEF Going, Whole, Gone, OneThing, Starts
  <2> QED
    BY Zenon, <2>1, <2>2 DEF Going
<1> QED
  BY Zenon, <1>5, <1>6, <1>7

\* stop
LEMMA StopCallStep ==
  ASSUME Shape, Safe, Going, con.bad = "no", CallStop
  PROVE  Shape' /\ Safe' /\ (con'.bad = "no" => Going')
<1>1. /\ UNCHANGED <<lpc, revents, pending, batch, ptr, alive, nextId, life>>
      /\ cpc = "idle" /\ ~life.gone /\ ~life.early /\ "destroy" \notin Outstanding
      /\ calls' \in 1 .. MaxCalls
      /\ cpc' = "stop"
  BY ClientAssumption DEF CallStop, Call, MayCall, loop, Shape, Going, CallsMade
<1>2. /\ con' \in AnyConnector /\ ~con'.wanted /\ con'.state = con.state
      /\ con'.chan = con.chan /\ con'.fd = con.fd
      /\ con'.timers = con.timers /\ con'.overruled = con.overruled /\ con'.bad = "no"
  BY Zenon DEF CallStop, Shape, AnyConnector
<1>3. /\ Order(pending, batch)' /\ CallsMade' /\ Outstanding' = Outstanding
  <2>1. Outstanding' = Outstanding /\ Order(pending, batch)'
    BY Zenon, <1>1 DEF Outstanding, Going
  <2>2. CallsMade'
    BY <1>1, <1>2, <2>1 DEF Going, CallsMade
  <2> QED
    BY Zenon, <2>1, <2>2
<1> USE <1>1, <1>2, <1>3
<1>4. Shape'
  BY DEF Shape, PCs
<1>5. Safe'
  BY Zenon DEF Safe, Alone, ChannelIsSafe, GoneIsUntouched, StopComes, Going, OneThing, Still,
     ResetsNothing, Gone
<1>6. ASSUME con'.bad = "no"  PROVE Going'
  <2>1. OneThing' /\ LoopAt' /\ ResetsNothing' /\ Stopped'
    BY Zenon, <1>6 DEF Going, OneThing, LoopAt, ResetsNothing, Stopped, Safe, Alone, Still, Starts,
       CallsMade
  <2>2. Whole' /\ Gone'
    BY Zenon, <1>6 DEF Going, Whole, Gone, OneThing, Starts
  <2> QED
    BY Zenon, <2>1, <2>2 DEF Going
<1> QED
  BY Zenon, <1>4, <1>5, <1>6

\* disconnect
LEMMA DisconnectStep ==
  ASSUME Shape, Safe, Going, con.bad = "no", CallDisconnect
  PROVE  Shape' /\ Safe' /\ (con'.bad = "no" => Going')
<1>1. /\ UNCHANGED <<lpc, revents, pending, batch, ptr, alive, nextId, life>>
      /\ cpc = "idle" /\ ~life.gone /\ ~life.early /\ "destroy" \notin Outstanding
      /\ calls' \in 1 .. MaxCalls
      /\ UNCHANGED <<con, cpc>>
  BY ClientAssumption DEF CallDisconnect, Call, MayCall, loop, Shape, Going, CallsMade
<1>2. /\ Order(pending, batch)' /\ CallsMade' /\ Outstanding' = Outstanding
  <2>1. Outstanding' = Outstanding /\ Order(pending, batch)'
    BY Zenon, <1>1 DEF Outstanding, Going
  <2>2. CallsMade'
    BY <1>1, <2>1 DEF Going, CallsMade
  <2> QED
    BY Zenon, <2>1, <2>2
<1> USE <1>1, <1>2
<1>3. Shape'
  BY DEF Shape, PCs
<1>4. Safe'
  BY Zenon DEF Safe, Alone, ChannelIsSafe, GoneIsUntouched, StopComes, Going, OneThing, Still,
     ResetsNothing, Gone
<1>5. ASSUME con'.bad = "no"  PROVE Going'
  <2>1. OneThing' /\ LoopAt' /\ ResetsNothing' /\ Stopped'
    BY <1>5 DEF Going, OneThing, LoopAt, ResetsNothing, Stopped, Safe, Alone, Still, Starts,
       CallsMade
  <2>2. Whole' /\ Gone'
    BY Zenon, <1>5 DEF Going, Whole, Gone, OneThing, Starts
  <2> QED
    BY Zenon, <2>1, <2>2 DEF Going
<1> QED
  BY Zenon, <1>3, <1>4, <1>5

\* The client is to be destroyed in its loop.
LEMMA DestroyCallStep ==
  ASSUME Shape, Safe, Going, con.bad = "no", CallDestroy
  PROVE  Shape' /\ Safe' /\ (con'.bad = "no" => Going')
<1>1. /\ UNCHANGED <<lpc, revents, pending, batch, ptr, alive, nextId, life>>
      /\ cpc = "idle" /\ ~life.gone /\ ~life.early /\ "destroy" \notin Outstanding
      /\ calls' \in 1 .. MaxCalls
      /\ calls' = MaxCalls /\ cpc' = "destroy" /\ con' = con
  BY ClientAssumption DEF CallDestroy, MayCall, loop, client, Shape, Going, CallsMade
<1>2. /\ Order(pending, batch)' /\ CallsMade' /\ Outstanding' = Outstanding
  <2>1. Outstanding' = Outstanding /\ Order(pending, batch)'
    BY Zenon, <1>1 DEF Outstanding, Going
  <2>2. CallsMade'
    BY <1>1, <2>1 DEF Going, CallsMade
  <2> QED
    BY Zenon, <2>1, <2>2
<1> USE <1>1, <1>2
<1>3. Shape'
  BY DEF Shape, PCs
<1>4. Safe'
  BY Zenon DEF Safe, Alone, ChannelIsSafe, GoneIsUntouched, StopComes, Going, OneThing, Still,
     ResetsNothing, Gone
<1>5. ASSUME con'.bad = "no"  PROVE Going'
  <2>1. OneThing' /\ LoopAt' /\ ResetsNothing' /\ Stopped'
    BY Zenon, <1>5 DEF Going, OneThing, LoopAt, ResetsNothing, Stopped, Safe, Alone, Still, Starts,
       CallsMade
  <2>2. Whole' /\ Gone'
    BY Zenon, <1>5 DEF Going, Whole, Gone, OneThing, Starts
  <2> QED
    BY Zenon, <2>1, <2>2 DEF Going
<1> QED
  BY Zenon, <1>3, <1>4, <1>5

\* ~TcpClient in another thread: the copy of the connection
LEMMA CopyStep ==
  ASSUME Shape, Safe, Going, con.bad = "no", DtorCopy
  PROVE  Shape' /\ Safe' /\ (con'.bad = "no" => Going')
<1>1. /\ UNCHANGED <<lpc, revents, pending, batch, ptr, alive, nextId>>
      /\ cpc = "idle" /\ ~life.gone /\ ~life.early /\ "destroy" \notin Outstanding
      /\ calls' \in 1 .. MaxCalls
      /\ calls' = MaxCalls /\ cpc' = "copied" /\ con' = con
  BY ClientAssumption DEF DtorCopy, MayCall, loop, Shape, Going, CallsMade
<1>2. /\ life' \in AnyLife /\ life'.early
  <2>1. PICK unique \in BOOLEAN :
          life' = [life EXCEPT !.conn = ptr, !.unique = unique, !.early = TRUE]
    BY Zenon DEF DtorCopy
  <2>2. ptr \in Nat /\ life \in AnyLife
    BY Zenon DEF Shape
  <2>3. life' \in AnyLife
    BY Zenon, <2>1, <2>2 DEF AnyLife
  <2>4. life'.early
    BY Zenon, <2>1, <2>2 DEF AnyLife
  <2> QED
    BY Zenon, <2>3, <2>4
<1>3. /\ Order(pending, batch)' /\ CallsMade' /\ Outstanding' = Outstanding
  <2>1. Outstanding' = Outstanding /\ Order(pending, batch)'
    BY Zenon, <1>1 DEF Outstanding, Going
  <2>2. CallsMade'
    BY <1>1, <1>2, <2>1 DEF Going, CallsMade
  <2> QED
    BY Zenon, <2>1, <2>2
<1> USE <1>1, <1>2, <1>3
<1>4. Shape'
  BY DEF Shape, PCs
<1>5. Safe'
  BY Zenon DEF Safe, Alone, ChannelIsSafe, GoneIsUntouched, StopComes, Going, OneThing, Still,
     ResetsNothing, Gone
<1>6. ASSUME con'.bad = "no"  PROVE Going'
  <2>1. OneThing' /\ LoopAt' /\ ResetsNothing' /\ Stopped'
    BY Zenon, <1>6 DEF Going, OneThing, LoopAt, ResetsNothing, Stopped, Safe, Alone, Still, Starts,
       CallsMade
  <2>2. Whole' /\ Gone'
    BY Zenon, <1>6 DEF Going, Whole, Gone, OneThing, Starts
  <2> QED
    BY Zenon, <2>1, <2>2 DEF Going
<1> QED
  BY Zenon, <1>4, <1>5, <1>6

\* and the members
LEMMA FreeStep ==
  ASSUME Shape, Safe, Going, con.bad = "no", DtorFree
  PROVE  Shape' /\ Safe' /\ (con'.bad = "no" => Going')
<1>1. /\ UNCHANGED <<con, lpc, revents, pending, batch, ptr, alive, nextId, calls>>
      /\ cpc = "free" /\ cpc' = "idle" /\ life.early
  BY Zenon DEF DtorFree, loop, Going, Whole, Gone
<1>2. [life EXCEPT !.gone = TRUE] \in AnyLife /\ [life EXCEPT !.gone = TRUE].early = life.early
  BY Zenon DEF Shape, AnyLife
<1>3. /\ life' \in AnyLife /\ life'.early
  BY Zenon, <1>1, <1>2, ReleaseFields DEF DtorFree
<1>4. /\ Order(pending, batch)' /\ CallsMade' /\ Outstanding' = Outstanding
  <2>1. Outstanding' = Outstanding /\ Order(pending, batch)'
    BY Zenon, <1>1 DEF Outstanding, Going
  <2>2. CallsMade'
    BY Zenon, <1>1, <1>2, <1>3, <2>1 DEF Going, CallsMade
  <2> QED
    BY Zenon, <2>1, <2>2
<1> USE <1>1, <1>2, <1>3, <1>4
<1>5. Shape'
  BY Zenon DEF Shape, PCs
<1>6. Safe'
  BY Zenon DEF Safe, Alone, ChannelIsSafe, GoneIsUntouched, StopComes, Going, OneThing, Still,
     ResetsNothing, Gone
<1>7. ASSUME con'.bad = "no"  PROVE Going'
  <2>1. OneThing' /\ LoopAt' /\ ResetsNothing' /\ Stopped'
    BY Zenon, <1>7 DEF Going, OneThing, LoopAt, ResetsNothing, Stopped, Safe, Alone, Still, Starts,
       CallsMade
  <2>2. Whole' /\ Gone'
    BY Zenon, <1>7 DEF Going, Whole, Gone, OneThing, Starts
  <2> QED
    BY Zenon, <2>1, <2>2 DEF Going
<1> QED
  BY Zenon, <1>5, <1>6, <1>7

\* The functor of a call is queued.
LEMMA QueueStep ==
  ASSUME Shape, Safe, Going, con.bad = "no", Queue
  PROVE  Shape' /\ Safe' /\ (con'.bad = "no" => Going')
<1>1. /\ UNCHANGED <<con, lpc, revents, batch, ptr, alive, nextId, life, calls>> /\ cpc' = "idle"
  BY Zenon DEF Queue, client
<1>2. cpc \in {"start", "stop", "destroy"} /\ pending' = Append(pending, cpc)
  BY Zenon DEF Queue
<1>3. /\ Order(pending, batch)' /\ CallsMade' /\ Outstanding' = Outstanding \cup {cpc}
      /\ pending' \in Seq(Functors) /\ Elements(pending') = Elements(pending) \cup {cpc}
  <2>1. cpc \in Functors /\ (cpc = "start" => pending = <<>> /\ batch = <<>>)
        /\ "destroy" \notin Out(pending, batch) /\ calls # 0
    BY Zenon, <1>1, <1>2 DEF Functors, Going, CallsMade, Out, Outstanding
  <2>2. /\ pending' \in Seq(Functors) /\ Order(pending', batch)
        /\ Out(pending', batch) = Out(pending, batch) \cup {cpc}
        /\ Elements(pending') = Elements(pending) \cup {cpc}
    BY <1>1, <1>2, <2>1, OrderPush DEF Shape, Going
  <2>3. Outstanding' = Outstanding \cup {cpc}
    BY Zenon, <1>1, <2>2 DEF Outstanding, Out
  <2>4. CallsMade'
    BY Zenon, <1>1, <1>2, <2>1, <2>3 DEF Going, CallsMade
  <2> QED
    BY Zenon, <1>1, <2>2, <2>3, <2>4
<1> USE <1>1, <1>2, <1>3
<1>4. Shape'
  BY Zenon DEF Shape, PCs
<1>5. Safe'
  BY Zenon DEF Safe, Alone, ChannelIsSafe, GoneIsUntouched, StopComes, Going, OneThing, Still,
     ResetsNothing, Gone
<1>6. ASSUME con'.bad = "no"  PROVE Going'
  <2>1. OneThing' /\ LoopAt' /\ ResetsNothing' /\ Stopped'
    BY Zenon, <1>6 DEF Going, OneThing, LoopAt, ResetsNothing, Stopped, Safe, Alone, Still, Starts,
       CallsMade
  <2>2. Whole' /\ Gone'
    BY Zenon, <1>6 DEF Going, Whole, Gone, OneThing, Starts
  <2> QED
    BY Zenon, <2>1, <2>2 DEF Going
<1> QED
  BY Zenon, <1>4, <1>5, <1>6

\* setCloseCallback for a connection,
LEMMA AskRebindStep ==
  ASSUME Shape, Safe, Going, con.bad = "no", DtorAsk, life.conn # 0
  PROVE  Shape' /\ Safe' /\ (con'.bad = "no" => Going')
<1>1. /\ UNCHANGED <<con, lpc, revents, batch, ptr, alive, nextId, life, calls>>
      /\ cpc = "copied" /\ cpc' = "force"
  BY Zenon DEF DtorAsk, client
<1>2. life.early /\ pending' = Append(pending, "rebind")
  BY Zenon DEF DtorAsk, Going, Whole, Gone
<1>3. /\ Order(pending, batch)' /\ CallsMade' /\ Outstanding' = Outstanding \cup {"rebind"}
      /\ pending' \in Seq(Functors) /\ Elements(pending') = Elements(pending) \cup {"rebind"}
  <2>1. "rebind" \in Functors /\ ("rebind" = "start" => pending = <<>> /\ batch = <<>>)
        /\ "destroy" \notin Out(pending, batch) /\ calls # 0
    BY Zenon, <1>1, <1>2 DEF Functors, Going, CallsMade, Out, Outstanding
  <2>2. /\ pending' \in Seq(Functors) /\ Order(pending', batch)
        /\ Out(pending', batch) = Out(pending, batch) \cup {"rebind"}
        /\ Elements(pending') = Elements(pending) \cup {"rebind"}
    BY <1>1, <1>2, <2>1, OrderPush DEF Shape, Going
  <2>3. Outstanding' = Outstanding \cup {"rebind"}
    BY Zenon, <1>1, <2>2 DEF Outstanding, Out
  <2>4. CallsMade'
    BY Zenon, <1>1, <1>2, <2>1, <2>3 DEF Going, CallsMade
  <2> QED
    BY Zenon, <1>1, <2>2, <2>3, <2>4
<1> USE <1>1, <1>2, <1>3
<1>4. Shape'
  BY Zenon DEF Shape, PCs
<1>5. Safe'
  BY Zenon DEF Safe, Alone, ChannelIsSafe, GoneIsUntouched, StopComes, Going, OneThing, Still,
     ResetsNothing, Gone
<1>6. ASSUME con'.bad = "no"  PROVE Going'
  <2>1. OneThing' /\ LoopAt' /\ ResetsNothing' /\ Stopped'
    BY Zenon, <1>6 DEF Going, OneThing, LoopAt, ResetsNothing, Stopped, Safe, Alone, Still, Starts,
       CallsMade
  <2>2. Whole' /\ Gone'
    BY Zenon, <1>6 DEF Going, Whole, Gone, OneThing, Starts
  <2> QED
    BY Zenon, <2>1, <2>2 DEF Going
<1> QED
  BY Zenon, <1>4, <1>5, <1>6

\* and the first half of stop for none
LEMMA AskStopStep ==
  ASSUME Shape, Safe, Going, con.bad = "no", DtorAsk, life.conn = 0
  PROVE  Shape' /\ Safe' /\ (con'.bad = "no" => Going')
<1>1. /\ UNCHANGED <<pending, lpc, revents, batch, ptr, alive, nextId, life, calls>>
      /\ cpc = "copied" /\ cpc' = "stopping" /\ life.early
  BY Zenon DEF DtorAsk, client, Going, Whole, Gone
<1>2. /\ con' \in AnyConnector /\ ~con'.wanted /\ con'.state = con.state
      /\ con'.chan = con.chan /\ con'.fd = con.fd
      /\ con'.timers = con.timers /\ con'.overruled = con.overruled /\ con'.bad = "no"
  <2>1. con' = [con EXCEPT !.wanted = FALSE]
    BY Zenon DEF DtorAsk
  <2> QED
    BY Zenon, <2>1 DEF Shape, AnyConnector
<1>3. /\ Order(pending, batch)' /\ CallsMade' /\ Outstanding' = Outstanding
  <2>1. Outstanding' = Outstanding /\ Order(pending, batch)'
    BY Zenon, <1>1 DEF Outstanding, Going
  <2>2. CallsMade'
    BY Zenon, <1>1, <1>2, <2>1 DEF Going, CallsMade
  <2> QED
    BY Zenon, <2>1, <2>2
<1> USE <1>1, <1>2, <1>3
<1>4. Shape'
  BY Zenon DEF Shape, PCs
<1>5. Safe'
  BY Zenon DEF Safe, Alone, ChannelIsSafe, GoneIsUntouched, StopComes, Going, OneThing, Still,
     ResetsNothing, Gone
<1>6. ASSUME con'.bad = "no"  PROVE Going'
  <2>1. OneThing' /\ LoopAt' /\ ResetsNothing' /\ Stopped'
    BY Zenon, <1>6 DEF Going, OneThing, LoopAt, ResetsNothing, Stopped, Safe, Alone, Still, Starts,
       CallsMade
  <2>2. Whole' /\ Gone'
    BY Zenon, <1>6 DEF Going, Whole, Gone, OneThing, Starts
  <2> QED
    BY Zenon, <2>1, <2>2 DEF Going
<1> QED
  BY Zenon, <1>4, <1>5, <1>6

\* The rest of stop,
LEMMA CloseStopStep ==
  ASSUME Shape, Safe, Going, con.bad = "no", DtorClose, cpc = "stopping"
  PROVE  Shape' /\ Safe' /\ (con'.bad = "no" => Going')
<1>1. /\ UNCHANGED <<con, lpc, revents, batch, ptr, alive, nextId, calls>>
      /\ cpc' = "free" /\ life' \in AnyLife /\ life'.early /\ life.early
  <2>1. cpc \in {"force", "stopping"} /\ life.early
    BY Zenon DEF DtorClose, Going, Whole, Gone
  <2>2. (cpc = "stopping") \in BOOLEAN
    BY Zenon
  <2>3. life' = [life EXCEPT !.hold = cpc = "stopping"]
    BY Zenon DEF DtorClose
  <2>4. life' \in AnyLife /\ life'.early = life.early
    BY Zenon, <2>2, <2>3 DEF Shape, AnyLife
  <2> QED
    BY Zenon, <2>1, <2>4 DEF DtorClose
<1>2. pending' = Append(pending, "stop")
  BY Zenon DEF DtorClose
<1>3. /\ Order(pending, batch)' /\ CallsMade' /\ Outstanding' = Outstanding \cup {"stop"}
      /\ pending' \in Seq(Functors) /\ Elements(pending') = Elements(pending) \cup {"stop"}
  <2>1. "stop" \in Functors /\ ("stop" = "start" => pending = <<>> /\ batch = <<>>)
        /\ "destroy" \notin Out(pending, batch) /\ calls # 0
    BY Zenon, <1>1, <1>2 DEF Functors, Going, CallsMade, Out, Outstanding
  <2>2. /\ pending' \in Seq(Functors) /\ Order(pending', batch)
        /\ Out(pending', batch) = Out(pending, batch) \cup {"stop"}
        /\ Elements(pending') = Elements(pending) \cup {"stop"}
    BY <1>1, <1>2, <2>1, OrderPush DEF Shape, Going
  <2>3. Outstanding' = Outstanding \cup {"stop"}
    BY Zenon, <1>1, <2>2 DEF Outstanding, Out
  <2>4. CallsMade'
    BY Zenon, <1>1, <1>2, <2>1, <2>3 DEF Going, CallsMade
  <2> QED
    BY Zenon, <1>1, <2>2, <2>3, <2>4
<1> USE <1>1, <1>2, <1>3
<1>4. Shape'
  BY Zenon DEF Shape, PCs
<1>5. Safe'
  BY Zenon DEF Safe, Alone, ChannelIsSafe, GoneIsUntouched, StopComes, Going, OneThing, Still,
     ResetsNothing, Gone
<1>6. ASSUME con'.bad = "no"  PROVE Going'
  <2>1. OneThing' /\ LoopAt' /\ ResetsNothing' /\ Stopped'
    BY Zenon, <1>6 DEF Going, OneThing, LoopAt, ResetsNothing, Stopped, Safe, Alone, Still, Starts,
       CallsMade
  <2>2. Whole' /\ Gone'
    BY Zenon, <1>6 DEF Going, Whole, Gone, OneThing, Starts
  <2> QED
    BY Zenon, <2>1, <2>2 DEF Going
<1> QED
  BY Zenon, <1>4, <1>5, <1>6

\* or forceClose of a connection that nobody else has
LEMMA CloseForceStep ==
  ASSUME Shape, Safe, Going, con.bad = "no", DtorClose,
         cpc = "force", life.unique /\ life.conn \in alive
  PROVE  Shape' /\ Safe' /\ (con'.bad = "no" => Going')
<1>1. /\ UNCHANGED <<con, lpc, revents, batch, ptr, alive, nextId, calls>>
      /\ cpc' = "free" /\ life' \in AnyLife /\ life'.early /\ life.early
  <2>1. cpc \in {"force", "stopping"} /\ life.early
    BY Zenon DEF DtorClose, Going, Whole, Gone
  <2>2. (cpc = "stopping") \in BOOLEAN
    BY Zenon
  <2>3. life' = [life EXCEPT !.hold = cpc = "stopping"]
    BY Zenon DEF DtorClose
  <2>4. life' \in AnyLife /\ life'.early = life.early
    BY Zenon, <2>2, <2>3 DEF Shape, AnyLife
  <2> QED
    BY Zenon, <2>1, <2>4 DEF DtorClose
<1>2. pending' = Append(pending, "close")
  BY Zenon DEF DtorClose
<1>3. /\ Order(pending, batch)' /\ CallsMade' /\ Outstanding' = Outstanding \cup {"close"}
      /\ pending' \in Seq(Functors) /\ Elements(pending') = Elements(pending) \cup {"close"}
  <2>1. "close" \in Functors /\ ("close" = "start" => pending = <<>> /\ batch = <<>>)
        /\ "destroy" \notin Out(pending, batch) /\ calls # 0
    BY Zenon, <1>1, <1>2 DEF Functors, Going, CallsMade, Out, Outstanding
  <2>2. /\ pending' \in Seq(Functors) /\ Order(pending', batch)
        /\ Out(pending', batch) = Out(pending, batch) \cup {"close"}
        /\ Elements(pending') = Elements(pending) \cup {"close"}
    BY <1>1, <1>2, <2>1, OrderPush DEF Shape, Going
  <2>3. Outstanding' = Outstanding \cup {"close"}
    BY Zenon, <1>1, <2>2 DEF Outstanding, Out
  <2>4. CallsMade'
    BY Zenon, <1>1, <1>2, <2>1, <2>3 DEF Going, CallsMade
  <2> QED
    BY Zenon, <1>1, <2>2, <2>3, <2>4
<1> USE <1>1, <1>2, <1>3
<1>4. Shape'
  BY Zenon DEF Shape, PCs
<1>5. Safe'
  BY Zenon DEF Safe, Alone, ChannelIsSafe, GoneIsUntouched, StopComes, Going, OneThing, Still,
     ResetsNothing, Gone
<1>6. ASSUME con'.bad = "no"  PROVE Going'
  <2>1. OneThing' /\ LoopAt' /\ ResetsNothing' /\ Stopped'
    BY Zenon, <1>6 DEF Going, OneThing, LoopAt, ResetsNothing, Stopped, Safe, Alone, Still, Starts,
       CallsMade
  <2>2. Whole' /\ Gone'
    BY Zenon, <1>6 DEF Going, Whole, Gone, OneThing, Starts
  <2> QED
    BY Zenon, <2>1, <2>2 DEF Going
<1> QED
  BY Zenon, <1>4, <1>5, <1>6

\* and of one that others have
LEMMA CloseNoneStep ==
  ASSUME Shape, Safe, Going, con.bad = "no", DtorClose,
         cpc = "force", ~(life.unique /\ life.conn \in alive)
  PROVE  Shape' /\ Safe' /\ (con'.bad = "no" => Going')
<1>1. /\ UNCHANGED <<con, lpc, revents, batch, ptr, alive, nextId, calls>>
      /\ cpc' = "free" /\ life' \in AnyLife /\ life'.early /\ life.early
  <2>1. cpc \in {"force", "stopping"} /\ life.early
    BY Zenon DEF DtorClose, Going, Whole, Gone
  <2>2. (cpc = "stopping") \in BOOLEAN
    BY Zenon
  <2>3. life' = [life EXCEPT !.hold = cpc = "stopping"]
    BY Zenon DEF DtorClose
  <2>4. life' \in AnyLife /\ life'.early = life.early
    BY Zenon, <2>2, <2>3 DEF Shape, AnyLife
  <2> QED
    BY Zenon, <2>1, <2>4 DEF DtorClose
<1>2. pending' = pending
  BY Zenon DEF DtorClose
<1>3. /\ Order(pending, batch)' /\ CallsMade' /\ Outstanding' = Outstanding
  <2>1. Outstanding' = Outstanding /\ Order(pending, batch)'
    BY Zenon, <1>1, <1>2 DEF Outstanding, Going
  <2>2. CallsMade'
    BY Zenon, <1>1, <1>2, <2>1 DEF Going, CallsMade
  <2> QED
    BY Zenon, <2>1, <2>2
<1> USE <1>1, <1>2, <1>3
<1>4. Shape'
  BY Zenon DEF Shape, PCs
<1>5. Safe'
  BY Zenon DEF Safe, Alone, ChannelIsSafe, GoneIsUntouched, StopComes, Going, OneThing, Still,
     ResetsNothing, Gone
<1>6. ASSUME con'.bad = "no"  PROVE Going'
  <2>1. OneThing' /\ LoopAt' /\ ResetsNothing' /\ Stopped'
    BY Zenon, <1>6 DEF Going, OneThing, LoopAt, ResetsNothing, Stopped, Safe, Alone, Still, Starts,
       CallsMade
  <2>2. Whole' /\ Gone'
    BY Zenon, <1>6 DEF Going, Whole, Gone, OneThing, Starts
  <2> QED
    BY Zenon, <2>1, <2>2 DEF Going
<1> QED
  BY Zenon, <1>4, <1>5, <1>6
-----------------------------------------------------------------------------
(* The theorems                                                            *)

\* Nothing happens after the process has ended.
LEMMA NextRuns ==
  ASSUME Next
  PROVE  con.bad = "no"
<1>1. Loop => con.bad = "no"
  BY Zenon DEF Loop, Poll, HandleError, HandleWrite, StartFunctors, FunctorsDone, RunStart,
     StopInLoop,
         ResetChannel, Restart, RunOnGone, RunDestroy, RunRebind, RunClose, RunNext, Runs
<1>2. Caller \/ SocketResult => con.bad = "no"
  BY Zenon DEF Caller, Queue, DtorAsk, DtorClose, DtorFree, SocketResult, Runs
<1>3. CallConnect \/ CallStop \/ CallDisconnect \/ CallDestroy \/ DtorCopy => con.bad = "no"
  BY Zenon DEF CallConnect, CallStop, CallDisconnect, CallDestroy, DtorCopy, Call, MayCall, Runs
<1>4. TimerFires \/ (\E i \in alive : RemoveConnection(i)) \/ RemoveRebound \/ RemoveConnector
        => con.bad = "no"
  BY Zenon DEF TimerFires, RemoveConnection, RemoveRebound, RemoveConnector, Runs
<1> QED
  BY Zenon, <1>1, <1>2, <1>3, <1>4 DEF Next

\* A step of the loop
LEMMA LoopStep ==
  ASSUME Shape, Safe, Going, con.bad = "no", Loop
  PROVE  Shape' /\ Safe' /\ (con'.bad = "no" => Going')
<1>1. CASE Poll
  BY Zenon, <1>1, PollStep
<1>2. CASE HandleError
  BY Zenon, <1>2, ErrorStep
<1>3. CASE HandleWrite
  BY Zenon, <1>3, WriteStep
<1>4. CASE StartFunctors
  BY Zenon, <1>4, BatchStep
<1>5. CASE FunctorsDone
  BY Zenon, <1>5, DoneStep
<1>6. CASE RunStart
  BY Zenon, <1>6, StartStep
<1>7. CASE StopInLoop
  BY Zenon, <1>7, StopStep, StopIdleStep
<1>8. CASE ResetChannel
  BY Zenon, <1>8, ResetStep
<1>9. CASE Restart
  BY Zenon, <1>9, RestartStep
<1>10. CASE RunOnGone
  BY Zenon, <1>10, GoneStep
<1>11. CASE RunDestroy
  BY Zenon, <1>11, DestroyStep
<1>12. CASE RunRebind
  BY Zenon, <1>12, RebindStep
<1>13. CASE RunClose
  BY Zenon, <1>13, CloseStep
<1> QED
  BY Zenon, <1>1, <1>2, <1>3, <1>4, <1>5, <1>6, <1>7, <1>8, <1>9, <1>10, <1>11, <1>12, <1>13
     DEF Loop

\* A step of the other thread
LEMMA CallerStep ==
  ASSUME Shape, Safe, Going, con.bad = "no", Caller
  PROVE  Shape' /\ Safe' /\ (con'.bad = "no" => Going')
<1>1. CASE Queue
  BY Zenon, <1>1, QueueStep
<1>2. CASE DtorAsk
  BY Zenon, <1>2, AskRebindStep, AskStopStep
<1>3. CASE DtorClose
  <2>1. cpc = "force" \/ cpc = "stopping"
    BY Zenon, <1>3 DEF DtorClose
  <2> QED
    BY Zenon, <1>3, <2>1, CloseStopStep, CloseForceStep, CloseNoneStep
<1>4. CASE DtorFree
  BY Zenon, <1>4, FreeStep
<1> QED
  BY Zenon, <1>1, <1>2, <1>3, <1>4 DEF Caller

\* That a connect was called too soon is not forgotten.
LEMMA CrossedStays ==
  ASSUME crossed, [Next]_vars
  PROVE  crossed'
<1>1. CASE UNCHANGED vars
  BY Zenon, <1>1 DEF vars, caller
<1>2. Loop => UNCHANGED crossed
  BY Zenon DEF Loop, Poll, HandleError, HandleWrite, StartFunctors, FunctorsDone, RunStart,
     StopInLoop, ResetChannel, Restart, RunOnGone, RunDestroy, RunRebind, RunClose, caller
<1>3. Caller \/ SocketResult => UNCHANGED crossed
  BY Zenon DEF Caller, Queue, DtorAsk, DtorClose, DtorFree, SocketResult, caller
<1>4. CallConnect => crossed'
  BY Zenon DEF CallConnect
<1>5. CallStop \/ CallDisconnect \/ CallDestroy \/ DtorCopy => UNCHANGED crossed
  BY Zenon DEF CallStop, CallDisconnect, CallDestroy, DtorCopy
<1>6. TimerFires \/ (\E i \in alive : RemoveConnection(i)) \/ RemoveRebound \/ RemoveConnector
        => UNCHANGED crossed
  BY Zenon DEF TimerFires, RemoveConnection, RemoveRebound, RemoveConnector, caller
<1> QED
  BY Zenon, <1>1, <1>2, <1>3, <1>4, <1>5, <1>6 DEF Next

\* Any step
LEMMA NextStep ==
  ASSUME ClientInv, [Next]_vars
  PROVE  ClientInv'
<1> SUFFICES ASSUME ~crossed'  PROVE ClientInv'
  BY Zenon DEF ClientInv
<1>0. ~crossed
  BY Zenon, CrossedStays
<1>1. CASE UNCHANGED vars
  <2>1. UNCHANGED <<con, lpc, revents, pending, batch, ptr, alive, nextId, life, cpc, calls>>
    BY Zenon, <1>1 DEF vars, loop, client, caller
  <2> USE <1>0
  <2>2. Shape' /\ Safe'
    BY Zenon, <2>1 DEF ClientInv, Shape, Safe, Alone, ChannelIsSafe, GoneIsUntouched, StopComes,
       Outstanding
  <2>3. ASSUME con'.bad = "no"  PROVE Going'
    <3>1. Going /\ Outstanding' = Outstanding
      BY Zenon, <2>1, <2>3 DEF ClientInv, Outstanding
    <3>2. Order(pending, batch)' /\ CallsMade' /\ LoopAt' /\ Stopped'
      BY Zenon, <2>1, <3>1 DEF Going, CallsMade, LoopAt, Stopped
    <3>3. OneThing' /\ ResetsNothing'
      BY Zenon, <2>1, <3>1 DEF Going, OneThing, ResetsNothing, Still, Starts
    <3>4. Whole' /\ Gone'
      BY Zenon, <2>1, <3>1 DEF Going, Whole, Gone, Starts
    <3> QED
      BY Zenon, <3>2, <3>3, <3>4 DEF Going
  <2> QED
    BY Zenon, <2>2, <2>3 DEF ClientInv
<1>2. CASE Next
  <2>1. con.bad = "no" /\ Shape /\ Safe /\ Going
    BY Zenon, <1>0, <1>2, NextRuns DEF ClientInv
  <2>2. SUFFICES Shape' /\ Safe' /\ (con'.bad = "no" => Going')
    BY Zenon DEF ClientInv
  <2>3. CASE Loop
    BY Zenon, <2>1, <2>3, LoopStep
  <2>4. CASE Caller
    BY Zenon, <2>1, <2>4, CallerStep
  <2>5. CASE TimerFires
    BY Zenon, <2>1, <2>5, TimerStep
  <2>6. CASE \E i \in alive : RemoveConnection(i)
    BY Zenon, <2>1, <2>6, DownStep
  <2>7. CASE RemoveRebound
    BY Zenon, <2>1, <2>7, ReboundStep
  <2>8. CASE RemoveConnector
    BY Zenon, <2>1, <2>8, ConnectorStep
  <2>9. CASE CallConnect
    BY Zenon, <2>1, <2>9, ConnectStep
  <2>10. CASE CallStop
    BY Zenon, <2>1, <2>10, StopCallStep
  <2>11. CASE CallDisconnect
    BY Zenon, <2>1, <2>11, DisconnectStep
  <2>12. CASE CallDestroy
    BY Zenon, <2>1, <2>12, DestroyCallStep
  <2>13. CASE DtorCopy
    BY Zenon, <2>1, <2>13, CopyStep
  <2>14. CASE SocketResult
    BY Zenon, <2>1, <2>14, SocketStep
  <2> QED
    BY Zenon, <1>2, <2>3, <2>4, <2>5, <2>6, <2>7, <2>8, <2>9, <2>10, <2>11, <2>12, <2>13, <2>14
       DEF Next
<1> QED
  BY Zenon, <1>1, <1>2

\* A client that has just been made
LEMMA InitClient ==
  ASSUME Init
  PROVE  ClientInv
<1>1. /\ con.state = "kDisconnected" /\ con.chan = "null" /\ con.timers = 0 /\ con.bad = "no"
      /\ ~life.gone /\ ~life.conGone /\ ~life.hold /\ ~life.rebound /\ ~life.early
      /\ pending = <<>> /\ batch = <<>> /\ lpc = "poll" /\ alive = {} /\ ptr = 0
      /\ cpc = "idle" /\ calls = 0 /\ revents = {} /\ nextId = 1
  BY Zenon DEF Init
<1>2. Outstanding = {} /\ Elements(pending) = {} /\ Order(pending, batch)
  BY Zenon, <1>1, EmptyQueue DEF Outstanding, Order
<1>3. life \in AnyLife
  BY Zenon DEF Init, AnyLife
<1>4. con \in AnyConnector
  BY DEF Init, AnyConnector, kInitRetryDelayMs
<1>5. Shape
  BY <1>1, <1>3, <1>4, EmptyQueue, ClientAssumption DEF Shape, PCs
<1>6. Safe
  BY <1>1 DEF Safe, Alone, ChannelIsSafe, GoneIsUntouched, StopComes
<1>7. Going
  BY Zenon, <1>1, <1>2 DEF Going, CallsMade, OneThing, LoopAt, ResetsNothing, Stopped, Whole, Gone,
                    Still, Starts
<1> QED
  BY Zenon, <1>5, <1>6, <1>7 DEF ClientInv

\* The invariant holds.
LEMMA ClientInvariant == FairSpec => []ClientInv
<1>1. Init => ClientInv
  BY Zenon, InitClient
<1>2. ClientInv /\ [Next]_vars => ClientInv'
  BY NextStep
<1> QED
  BY <1>1, <1>2, PTL DEF FairSpec, Spec

(***************************************************************************)
(* However connect, retry, stop, restart and the destruction of the client *)
(* interleave, Connector never has two attempts, does not free a channel   *)
(* that epoll holds (but for a restart that overrules a stop), and nothing *)
(* touches the client after it was destroyed in its loop, connected or at  *)
(* rest.  This is for a connect that is called, first or again, when       *)
(* nothing of an earlier one is left, no retry timer either: none of it    *)
(* holds after one that is called too soon.                                *)
(***************************************************************************)
THEOREM ConnectorIsSafe == FairSpec => []OneSafeAttempt
<1>1. ClientInv => OneSafeAttempt
  BY DEF ClientInv, Shape, AnyConnector, Safe, Alone, OneSafeAttempt, OneAttempt
<1> QED
  BY <1>1, ClientInvariant, PTL

(***************************************************************************)
(* Once stopInLoop has run, no attempt is in epoll unless restart has set  *)
(* m_connect of the Connector again, or a connect was called too soon.     *)
(***************************************************************************)
THEOREM StopEndsAttempts == FairSpec => []StopIsFinal
<1>1. ASSUME ClientInv  PROVE StopIsFinal
  <2>1. "stop" \in Outstanding =>
          \/ \E i \in DOMAIN pending : pending[i] = "stop"
          \/ \E i \in DOMAIN batch : batch[i] = "stop"
    BY Zenon DEF Outstanding, Elements
  <2> QED
    BY Zenon, <1>1, <2>1 DEF ClientInv, Safe, StopComes, StopIsFinal
<1> QED
  BY <1>1, ClientInvariant, PTL
=============================================================================
