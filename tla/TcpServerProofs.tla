--------------------------- MODULE TcpServerProofs --------------------------
(***************************************************************************)
(* Proofs about TcpServer: a removal finds its connection, and a           *)
(* connection is freed only when it is disconnected and out of epoll, for  *)
(* any number of io threads, connections and descriptors.                  *)
(***************************************************************************)
EXTENDS TcpServer, TLAPS

States == {"kConnecting", "kConnected", "kDisconnected"}
Connection == [name : Nat, loop : Loops, registered : BOOLEAN, state : States]
AnyFunctor == [op : {"established", "remove", "destroyed"}, conn : Nat]

LoopPCs == {"none", "poll", "dispatch", "run", "ended"}
Queues == [Loops -> Seq(AnyFunctor)]

\* The types that the proofs use
Shape ==
  /\ started \in BOOLEAN /\ listening \in BOOLEAN
  /\ numThreads \in 0 .. MaxThreads /\ next \in Nat
  /\ conns \in Seq(Connection)
  /\ lpc \in [Loops -> LoopPCs] /\ quit \in [Loops -> BOOLEAN]
  /\ active \in [Loops -> SUBSET Nat]
  /\ pending \in Queues /\ batch \in Queues

\* The functors of loop l that are still to run, of p pending and b in batches
ToRun(p, b, l) == Elements(p[l]) \cup Elements(b[l])
Queued(l) == ToRun(pending, batch, l)

\* A functor that is twice in a sequence is a connectDestroyed.
Distinct(s) == \A i, j \in DOMAIN s : s[i] = s[j] /\ i # j => s[i].op = "destroyed"

Once(p, b) ==
  \A l \in Loops :
    /\ Distinct(p[l]) /\ Distinct(b[l])
    /\ \A f \in Elements(p[l]) \cap Elements(b[l]) : f.op = "destroyed"
QueuedOnce == Once(pending, batch)

\* Names are numbers in the order of accept, and the map is by name.
Named ==
  /\ nextConnId = Len(conns) + 1
  /\ \A c \in Conns : conns[c].name = c
  /\ \A n \in DOMAIN connMap : n \in Conns /\ connMap[n] = n

\* Nothing is accepted before start, which fixes the number of threads.
Threads ==
  /\ listening \/ Conns # {} \/ Listener \in active[Base] => started
  /\ started \/ \A l \in Loops \ {Base} : lpc[l] = "none"
  /\ next = 0 \/ (started /\ next < numThreads)
  /\ \A c \in Conns : conns[c].loop = Base <=> numThreads = 0

\* Where the loops are when the destructor runs
LoopsOk ==
  /\ \A l \in Loops : /\ lpc[l] # "dispatch" => active[l] = {}
                      /\ lpc[l] # "run" => batch[l] = <<>>
  /\ server \in {"alive", "destroyed"} \/ lpc[Base] \in {"run", "ended"}
  /\ server = "alive" => \A l \in Loops \ {Base} : ~quit[l]

\* A channel that waits for its turn is that of a connection in the same loop.
OpenIn(l, c) == c \in Conns /\ conns[c].loop = l /\ conns[c].state = "kConnected"

ActiveOk ==
  /\ peerClosed \subseteq Conns
  /\ \A l \in Loops : \A c \in active[l] \ {Listener} : OpenIn(l, c)

\* Removals are queued on the acceptor's loop, all else on the connection's.
PlacedAt(l, f) ==
  /\ f.conn \in Conns
  /\ IF f.op = "remove" THEN l = Base /\ conns[f.conn].loop # Base
                        ELSE l = conns[f.conn].loop
  /\ f.op = "established" => conns[f.conn].state = "kConnecting"
  /\ f.op = "remove" => conns[f.conn].state = "kDisconnected"

Placed == \A l \in Loops : \A f \in Queued(l) : PlacedAt(l, f)

\* The server's connections: all but those that the destructor has let go.
Mine(c) == server = "alive" \/ conns[c].loop = Base

\* A connection that has not closed is in the map, and so is one whose
\* removal is queued; one that has left it leaves epoll with connectDestroyed.
KeptUntilClosed(c) ==
  /\ conns[c].loop = Base => conns[c].state # "kConnecting"
  /\ Mine(c) /\ conns[c].state # "kDisconnected" => c \in DOMAIN connMap
  /\ Mine(c) /\ conns[c].registered /\ c \notin DOMAIN connMap =>
       \E l \in Loops : Functor("destroyed", c) \in Queued(l)

Mapped ==
  /\ \A c \in Conns : KeptUntilClosed(c)
  /\ server = "alive" =>
       \A f \in Queued(Base) : f.op = "remove" => f.conn \in DOMAIN connMap

Unmisused ==
  /\ "absent" \notin misuse
  /\ "freed" \in misuse => started /\ numThreads # 0

\* The inductive invariant
ServerInv ==
  Shape /\ QueuedOnce /\ Named /\ Threads /\ LoopsOk /\ ActiveOk /\ Placed /\ Mapped
    /\ Unmisused

-----------------------------------------------------------------------------
(* Sequences of functors                                                   *)

\* What Append adds
LEMMA Appended ==
  ASSUME NEW s \in Seq(AnyFunctor), NEW f \in AnyFunctor
  PROVE  /\ Append(s, f) \in Seq(AnyFunctor)
         /\ Elements(Append(s, f)) = Elements(s) \cup {f}
         /\ Distinct(s) /\ (f \notin Elements(s) \/ f.op = "destroyed") =>
              Distinct(Append(s, f))
<1> DEFINE t == Append(s, f)
<1>1. /\ t \in Seq(AnyFunctor) /\ DOMAIN t = 1 .. Len(s) + 1 /\ DOMAIN s = 1 .. Len(s)
      /\ Len(s) \in Nat /\ t[Len(s) + 1] = f /\ \A i \in 1 .. Len(s) : t[i] = s[i]
  OBVIOUS
<1> HIDE DEF t
<1>2. Elements(t) = Elements(s) \cup {f}
  <2>1. \A x \in Elements(t) : x \in Elements(s) \cup {f}
    BY <1>1 DEF Elements
  <2>2. \A x \in Elements(s) : x \in Elements(t)
    BY <1>1 DEF Elements
  <2>3. f \in Elements(t)
    BY <1>1 DEF Elements
  <2> QED
    BY <2>1, <2>2, <2>3
<1>3. ASSUME Distinct(s), f \notin Elements(s) \/ f.op = "destroyed" PROVE Distinct(t)
  <2> SUFFICES ASSUME NEW i \in DOMAIN t, NEW j \in DOMAIN t, t[i] = t[j], i # j
               PROVE  t[i].op = "destroyed"
    BY DEF Distinct
  <2>1. CASE i \in 1 .. Len(s) /\ j \in 1 .. Len(s)
    BY <1>1, <1>3, <2>1 DEF Distinct
  <2>2. CASE i = Len(s) + 1 \/ j = Len(s) + 1
    BY <1>1, <1>3, <2>2 DEF Elements
  <2> QED
    BY <1>1, <2>1, <2>2
<1> QED
  BY <1>1, <1>2, <1>3 DEF t

\* What Tail leaves
LEMMA Popped ==
  ASSUME NEW s \in Seq(AnyFunctor), s # <<>>
  PROVE  /\ Tail(s) \in Seq(AnyFunctor) /\ Head(s) \in AnyFunctor /\ Head(s) \in Elements(s)
         /\ Elements(Tail(s)) \subseteq Elements(s)
         /\ \A f \in Elements(s) : f = Head(s) \/ f \in Elements(Tail(s))
         /\ Distinct(s) =>
              Distinct(Tail(s)) /\ (Head(s).op = "destroyed" \/ Head(s) \notin Elements(Tail(s)))
<1> DEFINE t == Tail(s)
<1>1. /\ t \in Seq(AnyFunctor) /\ Len(s) \in Nat \ {0} /\ DOMAIN t = 1 .. Len(s) - 1
      /\ DOMAIN s = 1 .. Len(s) /\ \A i \in 1 .. Len(s) - 1 : t[i] = s[i + 1]
      /\ Head(s) = s[1] /\ s[1] \in AnyFunctor
  OBVIOUS
<1> HIDE DEF t
<1>2. Head(s) \in Elements(s) /\ Elements(t) \subseteq Elements(s)
  BY <1>1 DEF Elements
<1>3. ASSUME NEW f \in Elements(s) PROVE f = Head(s) \/ f \in Elements(t)
  <2>1. PICK i \in 1 .. Len(s) : f = s[i]
    BY <1>1 DEF Elements
  <2>2. CASE i = 1
    BY <1>1, <2>1, <2>2
  <2>3. CASE i # 1
    <3>1. i - 1 \in 1 .. Len(s) - 1 /\ t[i - 1] = s[i]
      BY <1>1, <2>3
    <3> QED
      BY <1>1, <2>1, <3>1 DEF Elements
  <2> QED
    BY <2>2, <2>3
<1>4. ASSUME Distinct(s)
      PROVE  Distinct(t) /\ (Head(s).op = "destroyed" \/ Head(s) \notin Elements(t))
  <2>1. \A i \in DOMAIN t : i + 1 \in DOMAIN s /\ 1 \in DOMAIN s /\ i + 1 # 1 /\ t[i] = s[i + 1]
    BY <1>1
  <2>2. \A i, j \in DOMAIN t : i # j => i + 1 # j + 1
    BY <1>1
  <2>3. Distinct(t)
    BY <1>4, <2>1, <2>2 DEF Distinct
  <2>4. ASSUME Head(s) \in Elements(t) PROVE Head(s).op = "destroyed"
    <3>1. PICK i \in DOMAIN t : Head(s) = t[i]
      BY <2>4 DEF Elements
    <3> QED
      BY <1>1, <1>4, <2>1, <3>1 DEF Distinct
  <2> QED
    BY <2>3, <2>4
<1> QED
  BY <1>1, <1>2, <1>3, <1>4 DEF t

\* Queueing a functor on one loop
LEMMA PushAdds ==
  ASSUME NEW p \in Queues, NEW b \in Queues, NEW l \in Loops, NEW f \in AnyFunctor, Once(p, b),
         f \notin ToRun(p, b, l) \/ f.op = "destroyed"
  PROVE  /\ Push(p, l, f) \in Queues /\ Once(Push(p, l, f), b)
         /\ \A k \in Loops : ToRun(Push(p, l, f), b, k) =
              IF k = l THEN ToRun(p, b, k) \cup {f} ELSE ToRun(p, b, k)
<1> DEFINE q == Push(p, l, f)
<1>1. /\ p[l] \in Seq(AnyFunctor) /\ q[l] = Append(p[l], f)
      /\ \A k \in Loops \ {l} : q[k] = p[k]
  BY DEF Push, Queues
<1>2. q \in Queues
  <2>1. Append(p[l], f) \in Seq(AnyFunctor)
    BY <1>1, Appended
  <2> QED
    BY <2>1 DEF Push, Queues
<1> HIDE DEF q
<1>3. ToRun(q, b, l) = ToRun(p, b, l) \cup {f}
  BY <1>1, Appended DEF ToRun
<1>4. \A k \in Loops \ {l} : ToRun(q, b, k) = ToRun(p, b, k)
  BY <1>1 DEF ToRun
<1>5. Once(q, b)
  <2> SUFFICES ASSUME NEW k \in Loops
               PROVE  /\ Distinct(q[k]) /\ Distinct(b[k])
                      /\ \A g \in Elements(q[k]) \cap Elements(b[k]) : g.op = "destroyed"
    BY DEF Once
  <2>1. CASE k # l
    BY <1>1, <2>1 DEF Once
  <2>2. CASE k = l
    <3>1. Elements(q[l]) = Elements(p[l]) \cup {f}
      BY <1>1, Appended
    <3>2. Distinct(q[l])
      BY <1>1, Appended DEF Once, ToRun
    <3> QED
      BY <2>2, <3>1, <3>2 DEF Once, ToRun
  <2> QED
    BY <2>1, <2>2
<1> QED
  BY <1>2, <1>3, <1>4, <1>5 DEF q

\* The first functor of a batch, and the batches without it
First(b, l) == Head(b[l])
Pop(b, l) == [b EXCEPT ![l] = Tail(@)]

\* Taking the first functor of a batch leaves the others where they are.
LEMMA PopTakes ==
  ASSUME NEW p \in Queues, NEW b \in Queues, NEW l \in Loops, b[l] # <<>>, Once(p, b)
  PROVE  /\ Pop(b, l) \in Queues /\ Once(p, Pop(b, l))
         /\ First(b, l) \in AnyFunctor /\ First(b, l) \in ToRun(p, b, l)
         /\ First(b, l).op = "destroyed" \/ First(b, l) \notin ToRun(p, Pop(b, l), l)
         /\ \A k \in Loops : /\ ToRun(p, Pop(b, l), k) \subseteq ToRun(p, b, k)
                           /\ ToRun(p, b, k) \subseteq ToRun(p, Pop(b, l), k) \cup {First(b, l)}
<1> DEFINE d == Pop(b, l)
           f == First(b, l)
<1>1. b[l] \in Seq(AnyFunctor)
  BY DEF Queues
<1>2. /\ Tail(b[l]) \in Seq(AnyFunctor) /\ f \in AnyFunctor /\ f \in Elements(b[l])
      /\ Elements(Tail(b[l])) \subseteq Elements(b[l])
      /\ \A g \in Elements(b[l]) : g = f \/ g \in Elements(Tail(b[l]))
      /\ Distinct(b[l]) =>
           Distinct(Tail(b[l])) /\ (f.op = "destroyed" \/ f \notin Elements(Tail(b[l])))
  BY <1>1, Popped DEF First
<1>3. d \in Queues /\ d[l] = Tail(b[l]) /\ \A k \in Loops \ {l} : d[k] = b[k]
  BY <1>2 DEF Queues, Pop
<1> HIDE DEF d, f
<1>4. Once(p, d)
  <2> SUFFICES ASSUME NEW k \in Loops
               PROVE  /\ Distinct(p[k]) /\ Distinct(d[k])
                      /\ \A g \in Elements(p[k]) \cap Elements(d[k]) : g.op = "destroyed"
    BY DEF Once
  <2>1. CASE k # l
    BY <1>3, <2>1 DEF Once
  <2>2. CASE k = l
    BY <1>2, <1>3, <2>2 DEF Once
  <2> QED
    BY <2>1, <2>2
<1>5. f.op = "destroyed" \/ f \notin ToRun(p, d, l)
  BY <1>2, <1>3 DEF Once, ToRun
<1>6. f \in ToRun(p, b, l)
  BY <1>2 DEF ToRun
<1>7. ASSUME NEW k \in Loops
      PROVE  /\ ToRun(p, d, k) \subseteq ToRun(p, b, k)
             /\ ToRun(p, b, k) \subseteq ToRun(p, d, k) \cup {f}
  <2>1. CASE k # l
    BY <1>3, <2>1 DEF ToRun
  <2>2. CASE k = l
    BY <1>2, <1>3, <2>2 DEF ToRun
  <2> QED
    BY <2>1, <2>2
<1> QED
  BY <1>2, <1>3, <1>4, <1>5, <1>6, <1>7 DEF d, f

-----------------------------------------------------------------------------
(* Connections                                                             *)

\* ds is cs with another state or registration of c.
Changed(cs, ds, c) ==
  /\ ds \in Seq(Connection) /\ Len(ds) = Len(cs) /\ DOMAIN ds = DOMAIN cs
  /\ \A d \in DOMAIN cs \ {c} : ds[d] = cs[d]
  /\ ds[c].name = cs[c].name /\ ds[c].loop = cs[c].loop

\* What the three operators on connections do
LEMMA ConnectionChanges ==
  ASSUME NEW cs \in Seq(Connection), NEW c \in DOMAIN cs
  PROVE  /\ Changed(cs, Established(cs, c), c)
         /\ Established(cs, c)[c].state = "kConnected"
         /\ Changed(cs, Destroyed(cs, c), c)
         /\ Destroyed(cs, c)[c].state =
              (IF cs[c].state = "kConnected" THEN "kDisconnected" ELSE cs[c].state)
         /\ Destroyed(cs, c)[c].registered = FALSE
         /\ Changed(cs, Closed(cs, c), c)
         /\ Closed(cs, c)[c].state = "kDisconnected"
         /\ Closed(cs, c)[c].registered = cs[c].registered
<1>1. ASSUME NEW r \in Connection, NEW ds, ds = [cs EXCEPT ![c] = r],
             r.name = cs[c].name, r.loop = cs[c].loop
      PROVE  Changed(cs, ds, c) /\ ds[c] = r
  BY <1>1 DEF Changed
<1>2. cs[c] \in Connection
  OBVIOUS
<1> DEFINE e == [[cs[c] EXCEPT !.state = "kConnected"] EXCEPT !.registered = TRUE]
           d == [[cs[c] EXCEPT !.state = IF cs[c].state = "kConnected" THEN "kDisconnected"
                                         ELSE cs[c].state] EXCEPT !.registered = FALSE]
           x == [cs[c] EXCEPT !.state = "kDisconnected"]
<1>3. e \in Connection /\ e.name = cs[c].name /\ e.loop = cs[c].loop /\ e.state = "kConnected"
  BY Zenon, <1>2 DEF Connection, States
<1>4. /\ d \in Connection /\ d.name = cs[c].name /\ d.loop = cs[c].loop /\ d.registered = FALSE
      /\ d.state = (IF cs[c].state = "kConnected" THEN "kDisconnected" ELSE cs[c].state)
  BY Zenon, <1>2 DEF Connection, States
<1>5. /\ x \in Connection /\ x.name = cs[c].name /\ x.loop = cs[c].loop
      /\ x.state = "kDisconnected" /\ x.registered = cs[c].registered
  BY Zenon, <1>2 DEF Connection, States
<1>6. Established(cs, c) = [cs EXCEPT ![c] = e]
  BY Zenon, <1>2 DEF Established, Connection
<1>7. Destroyed(cs, c) = [cs EXCEPT ![c] = d]
  BY Zenon, <1>2 DEF Destroyed, Connection
<1>8. Closed(cs, c) = [cs EXCEPT ![c] = x]
  BY <1>2 DEF Closed, Connection
<1> HIDE DEF e, d, x
<1> QED
  BY Zenon, <1>1, <1>3, <1>4, <1>5, <1>6, <1>7, <1>8

-----------------------------------------------------------------------------
(* The steps that leave the connections and the functors alone             *)

\* The invariant holds at the start.
LEMMA ServerInitInv == Init => ServerInv
<1> SUFFICES ASSUME Init PROVE ServerInv
  OBVIOUS
<1>1. Conns = {} /\ Len(conns) = 0 /\ DOMAIN connMap = {}
  BY DEF Init, Conns
<1>2. \A l \in Loops : Elements(pending[l]) = {} /\ Elements(batch[l]) = {}
  BY DEF Init, Elements
<1>3. Base \in Loops
  BY ServerAssumption DEF Base, Loops
<1>4. Shape
  BY <1>3, ServerAssumption DEF Init, Shape, Queues, Base, LoopPCs
<1>5. QueuedOnce
  BY <1>2 DEF Init, QueuedOnce, Once, Distinct
<1>6. Named
  BY <1>1 DEF Init, Named
<1>7. Threads
  BY <1>1, <1>3 DEF Init, Threads
<1>8. LoopsOk /\ ActiveOk
  BY <1>1, <1>3 DEF Init, LoopsOk, ActiveOk, OpenIn
<1>9. Placed /\ Mapped
  BY Zenon, <1>1, <1>2, <1>3 DEF Placed, PlacedAt, Mapped, KeptUntilClosed, Queued, ToRun
<1> QED
  BY <1>4, <1>5, <1>6, <1>7, <1>8, <1>9 DEF ServerInv, Unmisused, Init

\* The acceptor's loop is one, and every connection has one.
LEMMA LoopsExist ==
  ASSUME ServerInv
  PROVE  Base \in Loops /\ \A c \in Conns : conns[c] \in Connection /\ conns[c].loop \in Loops
<1>1. Base \in Loops
  BY ServerAssumption DEF Base, Loops
<1>2. ASSUME NEW c \in Conns PROVE conns[c] \in Connection
  BY DEF ServerInv, Shape, Conns
<1>3. ASSUME NEW c \in Conns PROVE conns[c].loop \in Loops
  BY <1>2 DEF Connection
<1> QED
  BY <1>1, <1>2, <1>3

\* What such a step cannot disturb
LEMMA Quiet ==
  ASSUME ServerInv, UNCHANGED <<mapVars, pending, batch>>, server' = "alive" => server = "alive"
  PROVE  QueuedOnce' /\ Named' /\ Placed' /\ Mapped'
<1>1. UNCHANGED <<nextConnId, connMap, conns, pending, batch>>
  BY DEF mapVars
<1>2. Conns' = Conns /\ \A l \in Loops : Queued(l)' = Queued(l)
  BY <1>1 DEF Conns, Queued
<1>3. QueuedOnce'
  BY <1>1 DEF ServerInv, QueuedOnce
<1>4. Named'
  BY <1>1, <1>2 DEF ServerInv, Named
<1>5. Placed'
  BY <1>1, <1>2 DEF ServerInv, Placed, PlacedAt
<1>7. Mapped'
  BY <1>1, <1>2, LoopsExist DEF ServerInv, Mapped, KeptUntilClosed, Mine
<1> QED
  BY <1>3, <1>4, <1>5, <1>7

\* setThreadNum and start
LEMMA StartKeeps ==
  ASSUME ServerInv, Start \/ \E n \in 0 .. MaxThreads : SetThreadNum(n)
  PROVE  ServerInv'
<1>1. QueuedOnce' /\ Named' /\ Placed' /\ Mapped'
  BY Quiet DEF Start, SetThreadNum, mapVars, loopVars
<1>2. /\ ~started
      /\ UNCHANGED <<conns, active, quit, server, misuse, pending, batch, next, peerClosed>>
  BY DEF Start, SetThreadNum, mapVars, loopVars
<1>3. Conns = {} /\ ~listening /\ Listener \notin active[Base] /\ next = 0 /\ "freed" \notin misuse
  BY <1>2 DEF ServerInv, Threads, Unmisused
<1>4. CASE Start
  <2>1. lpc' \in [Loops -> LoopPCs] /\ \A l \in Loops : lpc'[l] # lpc[l] => l # Base
    <3>1. /\ lpc' = [l \in Loops |-> IF l \in IoLoops THEN "poll" ELSE lpc[l]]
          /\ lpc \in [Loops -> LoopPCs] /\ numThreads \in Nat
      BY <1>4, ServerAssumption DEF Start, ServerInv, Shape
    <3>2. Base \notin IoLoops
      BY <3>1 DEF Base, IoLoops
    <3>3. \A l \in Loops : lpc'[l] \in LoopPCs /\ (lpc'[l] # lpc[l] => l \in IoLoops)
      BY <3>1 DEF LoopPCs
    <3> QED
      BY <3>1, <3>2, <3>3
  <2>2. Base \in Loops /\ server = "alive"
    BY <1>4, ServerAssumption DEF Start, Base, Loops
  <2>3. Shape'
    BY <1>2, <1>4, <2>1 DEF Start, ServerInv, Shape
  <2>4. Threads'
    BY <1>2, <1>3, <1>4 DEF Start, Threads, Conns
  <2>5. \A l \in Loops : (active[l] = {} /\ batch[l] = <<>>) \/ lpc'[l] = lpc[l]
    BY <1>2, <2>1, <2>2 DEF ServerInv, LoopsOk, Threads
  <2>6. LoopsOk'
    BY Zenon, <1>2, <2>2, <2>5 DEF ServerInv, LoopsOk
  <2>7. ActiveOk'
    BY <1>2 DEF ServerInv, ActiveOk, OpenIn, Conns
  <2>8. Unmisused'
    BY <1>2, <1>3 DEF ServerInv, Unmisused
  <2> QED
    BY <1>1, <2>3, <2>4, <2>6, <2>7, <2>8 DEF ServerInv
<1>5. ASSUME NEW n \in 0 .. MaxThreads, SetThreadNum(n) PROVE ServerInv'
  <2>1. numThreads' = n /\ UNCHANGED <<started, listening, lpc>>
    BY <1>5 DEF SetThreadNum, loopVars
  <2>2. Shape'
    BY <1>2, <2>1 DEF ServerInv, Shape
  <2>3. Threads'
    BY <1>2, <1>3, <2>1 DEF ServerInv, Threads, Conns
  <2>4. LoopsOk'
    BY <1>2, <2>1 DEF ServerInv, LoopsOk
  <2>5. ActiveOk'
    BY <1>2 DEF ServerInv, ActiveOk, OpenIn, Conns
  <2>6. Unmisused'
    BY <1>2, <1>3 DEF ServerInv, Unmisused
  <2> QED
    BY <1>1, <2>2, <2>3, <2>4, <2>5, <2>6 DEF ServerInv
<1> QED
  BY <1>4, <1>5

\* The peers, other threads, the rest of the EMFILE branch and quit()
LEMMA OthersKeep ==
  ASSUME ServerInv,
         \/ PeerConnects \/ \E c \in Conns : PeerCloses(c)
         \/ OtherOpens \/ OtherCloses \/ EmfileAccept \/ EmfileRefuse \/ EmfileReopen
         \/ QuitBase \/ EmfileClose
  PROVE  ServerInv'
<1>1. /\ UNCHANGED <<started, listening, numThreads, next, conns, server, lpc, pending, batch,
                      misuse>>
      /\ UNCHANGED mapVars
  BY Zenon DEF PeerConnects, PeerCloses, OtherOpens, OtherCloses, EmfileAccept, EmfileRefuse,
         EmfileReopen, EmfileClose, Emfile, QuitBase, poolVars, mapVars, fdVars, loopVars
<1>2. QueuedOnce' /\ Named' /\ Placed' /\ Mapped'
  BY <1>1, Quiet
<1>3. /\ quit' \in [Loops -> BOOLEAN] /\ \A l \in Loops \ {Base} : quit'[l] = quit[l]
      /\ active' \in [Loops -> SUBSET Nat] /\ \A l \in Loops : active'[l] \subseteq active[l]
  <2>1. CASE QuitBase
    BY Zenon, <2>1 DEF QuitBase, ServerInv, Shape, Base
  <2>2. CASE EmfileClose
    BY Zenon, <2>2 DEF EmfileClose, Emfile, Handles, ServerInv, Shape
  <2>3. CASE UNCHANGED <<quit, active>>
    BY <2>3 DEF ServerInv, Shape
  <2> QED
    BY Zenon, <2>1, <2>2, <2>3
      DEF PeerConnects, PeerCloses, OtherOpens, OtherCloses, EmfileAccept, EmfileRefuse,
          EmfileReopen, Emfile, loopVars
<1>4. Shape'
  BY <1>1, <1>3 DEF ServerInv, Shape
<1>5. Base \in Loops
  BY ServerAssumption DEF Base, Loops
<1>6. Threads'
  BY <1>1, <1>3, <1>5 DEF ServerInv, Threads, Conns
<1>7. LoopsOk'
  BY <1>1, <1>3 DEF ServerInv, LoopsOk
<1>8. peerClosed' \subseteq Conns
  BY Zenon DEF PeerConnects, PeerCloses, OtherOpens, OtherCloses, EmfileAccept, EmfileRefuse,
         EmfileReopen, EmfileClose, Emfile, QuitBase, ServerInv, ActiveOk
<1>10. ActiveOk'
  BY Zenon, <1>1, <1>3, <1>8 DEF ServerInv, ActiveOk, OpenIn, Conns
<1>9. Unmisused'
  BY <1>1 DEF ServerInv, Unmisused
<1> QED
  BY <1>2, <1>4, <1>6, <1>7, <1>10, <1>9 DEF ServerInv

\* The destructor, but for what it does with the connections
LEMMA DestructorKeeps ==
  ASSUME ServerInv, BeginDestroy \/ QuitThread \/ JoinThread \/ EndDestroy
  PROVE  ServerInv'
<1>1. /\ UNCHANGED <<started, numThreads, next, conns, lpc, active, pending, batch, misuse,
                      peerClosed>>
      /\ UNCHANGED mapVars /\ server' # "alive" /\ (listening' = FALSE \/ UNCHANGED listening)
  <2>1. CASE BeginDestroy
    BY <2>1 DEF BeginDestroy, poolVars, mapVars, loopVars
  <2>2. CASE QuitThread
    BY <2>2 DEF QuitThread, poolVars, mapVars
  <2>3. CASE JoinThread
    BY <2>3 DEF JoinThread, poolVars, mapVars, loopVars
  <2>4. CASE EndDestroy
    BY <2>4 DEF EndDestroy, poolVars, mapVars, loopVars
  <2> QED
    BY Zenon, <2>1, <2>2, <2>3, <2>4
<1>2. QueuedOnce' /\ Named' /\ Placed' /\ Mapped'
  BY <1>1, Quiet
<1>3. quit' \in [Loops -> BOOLEAN]
  BY Zenon DEF BeginDestroy, QuitThread, JoinThread, EndDestroy, loopVars, ServerInv, Shape
<1>4. server' = "destroyed" \/ lpc[Base] \in {"run", "ended"}
  BY DEF BeginDestroy, QuitThread, JoinThread, EndDestroy, ServerInv, LoopsOk
<1>5. Shape'
  BY Zenon, <1>1, <1>3 DEF ServerInv, Shape
<1>6. Threads'
  BY <1>1 DEF ServerInv, Threads, Conns
<1>7. LoopsOk'
  BY <1>1, <1>4 DEF ServerInv, LoopsOk
<1>8. ActiveOk'
  BY <1>1 DEF ServerInv, ActiveOk, OpenIn, Conns
<1>9. Unmisused'
  BY <1>1 DEF ServerInv, Unmisused
<1> QED
  BY <1>2, <1>5, <1>6, <1>7, <1>8, <1>9 DEF ServerInv

\* Between the steps of a loop only its own state changes, and only that of a
\* loop that runs.
LEMMA LoopRuns ==
  ASSUME ServerInv, NEW l \in Loops, lpc[l] # "none", l = Base => BaseFree,
         UNCHANGED <<started, server, quit>>, UNCHANGED poolVars,
         NEW pc \in LoopPCs, lpc' = [lpc EXCEPT ![l] = pc]
  PROVE  /\ lpc' \in [Loops -> LoopPCs] /\ lpc'[l] = pc
         /\ \A k \in Loops \ {l} : lpc'[k] = lpc[k]
         /\ started' \/ \A k \in Loops \ {Base} : lpc'[k] = "none"
         /\ server' \in {"alive", "destroyed"} \/ lpc'[Base] \in {"run", "ended"}
<1>1. /\ lpc' \in [Loops -> LoopPCs] /\ lpc'[l] = pc
      /\ \A k \in Loops \ {l} : lpc'[k] = lpc[k]
  BY DEF ServerInv, Shape
<1>2. started' \/ \A k \in Loops \ {Base} : lpc'[k] = "none"
  BY <1>1 DEF ServerInv, Threads
<1>3. server' \in {"alive", "destroyed"} \/ lpc'[Base] \in {"run", "ended"}
  BY Zenon, <1>1, LoopsExist DEF ServerInv, LoopsOk, BaseFree
<1> QED
  BY <1>1, <1>2, <1>3

\* epoll_wait returns.
LEMMA PollKeeps ==
  ASSUME ServerInv, NEW l \in Loops, Poll(l)
  PROVE  ServerInv'
<1>1. /\ UNCHANGED <<started, numThreads, next, listening, conns, server, peerClosed, quit>>
      /\ UNCHANGED <<pending, batch, misuse, mapVars, poolVars>>
  BY DEF Poll, poolVars, mapVars
<1>2. QueuedOnce' /\ Named' /\ Placed' /\ Mapped'
  BY <1>1, Quiet
<1>3. /\ lpc' \in [Loops -> LoopPCs] /\ lpc'[l] = "dispatch"
      /\ \A k \in Loops \ {l} : lpc'[k] = lpc[k]
      /\ started' \/ \A k \in Loops \ {Base} : lpc'[k] = "none"
      /\ server' \in {"alive", "destroyed"} \/ lpc'[Base] \in {"run", "ended"}
  <2>1. lpc' = [lpc EXCEPT ![l] = "dispatch"] /\ lpc[l] # "none" /\ (l = Base => BaseFree)
    BY DEF Poll
  <2>2. "dispatch" \in LoopPCs
    BY DEF LoopPCs
  <2> QED
    BY Zenon, <1>1, <2>1, <2>2, LoopRuns
<1>4. /\ \A c \in Ready(l) \ {Listener} :
           c \in Conns /\ conns[c].loop = l /\ conns[c].state = "kConnected"
      /\ Listener \in Ready(Base) => listening \/ Listener \in Conns
  BY DEF Ready, ServerInv, ActiveOk, OpenIn
<1>5. Conns \subseteq Nat \ {Listener}
  BY DEF ServerInv, Shape, Conns, Listener
<1>6. Ready(l) \subseteq Nat
  <2>1. Listener \in Nat
    BY DEF Listener
  <2> QED
    BY Zenon, <1>4, <1>5, <2>1
<1>7. /\ active' \in [Loops -> SUBSET Nat] /\ active'[l] = Ready(l)
      /\ \A k \in Loops \ {l} : active'[k] = active[k]
  BY <1>6 DEF Poll, ServerInv, Shape
<1>8. Shape'
  BY <1>1, <1>3, <1>7 DEF ServerInv, Shape
<1>9. Threads'
  <2>1. Conns' = Conns
    BY <1>1 DEF Conns
  <2>2. Listener \in active'[Base] => listening \/ Listener \in active[Base]
    BY Zenon, <1>4, <1>5, <1>7, LoopsExist
  <2> QED
    BY Zenon, <1>1, <1>3, <2>1, <2>2 DEF ServerInv, Threads
<1>10. LoopsOk'
  BY <1>1, <1>3, <1>7 DEF ServerInv, LoopsOk, Poll
<1>11. ActiveOk'
  BY Zenon, <1>1, <1>4, <1>7 DEF ServerInv, ActiveOk, OpenIn, Conns
<1>12. Unmisused'
  BY <1>1 DEF ServerInv, Unmisused
<1> QED
  BY <1>2, <1>8, <1>9, <1>10, <1>11, <1>12 DEF ServerInv

\* doPendingFunctors takes what is pending.
LEMMA TakeBatchKeeps ==
  ASSUME ServerInv, NEW l \in Loops, TakeBatch(l)
  PROVE  ServerInv'
<1>1. /\ UNCHANGED <<started, numThreads, next, nextConnId, connMap, listening, conns, server>>
      /\ UNCHANGED <<peerClosed, quit, active, misuse, poolVars>>
  BY DEF TakeBatch, poolVars, mapVars
<1>2. /\ lpc' \in [Loops -> LoopPCs] /\ lpc'[l] = "run"
      /\ \A k \in Loops \ {l} : lpc'[k] = lpc[k]
      /\ started' \/ \A k \in Loops \ {Base} : lpc'[k] = "none"
      /\ server' \in {"alive", "destroyed"} \/ lpc'[Base] \in {"run", "ended"}
  <2>1. lpc' = [lpc EXCEPT ![l] = "run"] /\ lpc[l] # "none" /\ (l = Base => BaseFree)
    BY Zenon DEF TakeBatch
  <2>2. "run" \in LoopPCs
    BY DEF LoopPCs
  <2> QED
    BY Zenon, <1>1, <2>1, <2>2, LoopRuns
<1>3. /\ pending' \in Queues /\ batch' \in Queues /\ batch[l] = <<>>
      /\ batch'[l] = pending[l] /\ pending'[l] = <<>>
      /\ \A k \in Loops \ {l} : batch'[k] = batch[k] /\ pending'[k] = pending[k]
  BY DEF TakeBatch, ServerInv, Shape, LoopsOk, Queues
<1>4. Elements(<<>>) = {} /\ Distinct(<<>>)
  BY DEF Elements, Distinct
<1>5. \A k \in Loops : Queued(k)' = Queued(k)
  BY Zenon, <1>3, <1>4 DEF Queued, ToRun
<1>6. QueuedOnce'
  <2> SUFFICES ASSUME NEW k \in Loops
               PROVE  /\ Distinct(pending'[k]) /\ Distinct(batch'[k])
                      /\ \A f \in Elements(pending'[k]) \cap Elements(batch'[k]) :
                           f.op = "destroyed"
    BY DEF QueuedOnce, Once
  <2>1. CASE k = l
    BY Zenon, <1>3, <1>4, <2>1 DEF ServerInv, QueuedOnce, Once
  <2>2. CASE k # l
    BY Zenon, <1>3, <2>2 DEF ServerInv, QueuedOnce, Once
  <2> QED
    BY Zenon, <2>1, <2>2
<1>7. Shape'
  BY Zenon, <1>1, <1>2, <1>3 DEF ServerInv, Shape
<1>8. Named'
  BY Zenon, <1>1 DEF ServerInv, Named, Conns
<1>9. Threads'
  BY Zenon, <1>1, <1>2 DEF ServerInv, Threads, Conns
<1>10. LoopsOk'
  BY <1>1, <1>2, <1>3 DEF ServerInv, LoopsOk, TakeBatch
<1>11. ActiveOk'
  BY Zenon, <1>1 DEF ServerInv, ActiveOk, OpenIn, Conns
<1>12. Placed'
  BY Zenon, <1>1, <1>5 DEF ServerInv, Placed, PlacedAt, Conns
<1>13. Mapped'
  BY Zenon, <1>1, <1>5, LoopsExist DEF ServerInv, Mapped, KeptUntilClosed, Mine, Conns
<1>14. Unmisused'
  BY <1>1 DEF ServerInv, Unmisused
<1> QED
  BY <1>6, <1>7, <1>8, <1>9, <1>10, <1>11, <1>12, <1>13, <1>14 DEF ServerInv

\* The end of a batch: only a loop that quits loses functors.
LEMMA EndBatchKeeps ==
  ASSUME ServerInv, NEW l \in Loops, EndBatch(l)
  PROVE  ServerInv'
<1>1. /\ UNCHANGED <<started, numThreads, next, nextConnId, connMap, listening, conns, server>>
      /\ UNCHANGED <<peerClosed, quit, active, batch, misuse, poolVars>>
  BY Zenon DEF EndBatch, poolVars, mapVars
<1> DEFINE pc == IF quit[l] THEN "ended" ELSE "poll"
<1>2. /\ lpc' \in [Loops -> LoopPCs] /\ lpc'[l] = pc
      /\ \A k \in Loops \ {l} : lpc'[k] = lpc[k]
      /\ started' \/ \A k \in Loops \ {Base} : lpc'[k] = "none"
      /\ server' \in {"alive", "destroyed"} \/ lpc'[Base] \in {"run", "ended"}
  <2>1. lpc' = [lpc EXCEPT ![l] = pc] /\ lpc[l] # "none" /\ (l = Base => BaseFree)
    BY DEF EndBatch
  <2>2. pc \in LoopPCs
    BY DEF LoopPCs
  <2> HIDE DEF pc
  <2> QED
    BY Zenon, <1>1, <2>1, <2>2, LoopRuns
<1>3. /\ pending' \in Queues
      /\ pending'[l] = pending[l] \/ (pending'[l] = <<>> /\ l # Base /\ server # "alive")
      /\ \A k \in Loops \ {l} : pending'[k] = pending[k]
  BY Zenon DEF EndBatch, ServerInv, Shape, LoopsOk, Queues
<1>4. Elements(<<>>) = {} /\ Distinct(<<>>)
  BY DEF Elements, Distinct
<1>5. /\ \A k \in Loops : Queued(k)' \subseteq Queued(k)
      /\ \A k \in Loops : k = Base \/ server = "alive" => Queued(k)' = Queued(k)
  BY Zenon, <1>1, <1>3, <1>4 DEF Queued, ToRun
<1>6. QueuedOnce'
  BY Zenon, <1>1, <1>3, <1>4 DEF ServerInv, QueuedOnce, Once
<1>7. Shape'
  BY Zenon, <1>1, <1>2, <1>3 DEF ServerInv, Shape
<1>8. Named'
  BY Zenon, <1>1 DEF ServerInv, Named, Conns
<1>9. Threads'
  BY Zenon, <1>1, <1>2 DEF ServerInv, Threads, Conns
<1>10. LoopsOk'
  BY Zenon, <1>1, <1>2 DEF ServerInv, LoopsOk, EndBatch
<1>11. ActiveOk'
  BY Zenon, <1>1 DEF ServerInv, ActiveOk, OpenIn, Conns
<1>12. Placed'
  BY Zenon, <1>1, <1>5 DEF ServerInv, Placed, PlacedAt, Conns
<1>13. Mapped'
  <2>1. ASSUME NEW c \in Conns, Mine(c), NEW k \in Loops, Functor("destroyed", c) \in Queued(k)
        PROVE  Functor("destroyed", c) \in Queued(k)'
    <3>1. k = conns[c].loop
      BY Zenon, <2>1 DEF ServerInv, Placed, PlacedAt, Functor
    <3> QED
      BY <1>5, <2>1, <3>1 DEF Mine
  <2>2. Conns' = Conns /\ \A c \in Conns : Mine(c)' <=> Mine(c)
    BY <1>1 DEF Mine, Conns
  <2> QED
    BY Zenon, <1>1, <1>5, <2>1, <2>2, LoopsExist DEF ServerInv, Mapped, KeptUntilClosed
<1>14. Unmisused'
  BY <1>1 DEF ServerInv, Unmisused
<1> QED
  BY <1>6, <1>7, <1>8, <1>9, <1>10, <1>11, <1>12, <1>13, <1>14 DEF ServerInv

-----------------------------------------------------------------------------
(* The steps that change a connection                                      *)

\* A functor is its operation and its connection.
LEMMA SameFunctor ==
  ASSUME NEW f \in AnyFunctor, NEW g \in AnyFunctor, f.op = g.op, f.conn = g.conn
  PROVE  f = g
BY DEF AnyFunctor

\* What is queued are functors.
LEMMA FunctorsQueued ==
  ASSUME Shape, NEW l \in Loops
  PROVE  Queued(l) \subseteq AnyFunctor
<1>1. pending[l] \in Seq(AnyFunctor) /\ batch[l] \in Seq(AnyFunctor)
  BY DEF Shape, Queues
<1> QED
  BY <1>1 DEF Queued, ToRun, Elements

\* A change of one connection keeps the names and the loops of all.
LEMMA ChangeKeeps ==
  ASSUME ServerInv, NEW c \in Conns, Changed(conns, conns', c)
  PROVE  /\ conns' \in Seq(Connection) /\ Len(conns') = Len(conns) /\ Conns' = Conns
         /\ \A d \in Conns : conns'[d].name = d /\ conns'[d].loop = conns[d].loop
         /\ \A d \in Conns \ {c} : conns'[d] = conns[d]
BY Zenon DEF ServerInv, Named, Changed, Conns

\* removeConnectionInLoop of a connection in the map erases it and queues
\* connectDestroyed.
LEMMA RemovalErases ==
  ASSUME ServerInv, NEW c \in Conns, c \in DOMAIN connMap, RemoveConnectionInLoop(c)
  PROVE  /\ DOMAIN connMap' = DOMAIN connMap \ {c}
         /\ \A n \in DOMAIN connMap' : connMap'[n] = connMap[n]
         /\ pending' = Push(pending, conns[c].loop, Functor("destroyed", c))
         /\ misuse' = misuse
BY Zenon DEF ServerInv, Named, RemoveConnectionInLoop

\* handleClose
LEMMA HandleCloseKeeps ==
  ASSUME ServerInv, NEW l \in Loops, NEW c \in Conns, HandleClose(l, c)
  PROVE  ServerInv'
<1>1. /\ UNCHANGED <<started, numThreads, next, nextConnId, listening, server, peerClosed>>
      /\ UNCHANGED <<lpc, quit, batch>> /\ conns' = Closed(conns, c) /\ RemoveConnection(l, c)
      /\ lpc[l] = "dispatch" /\ c \in active[l] /\ (l = Base => BaseFree)
      /\ active' = [active EXCEPT ![l] = @ \ {c}]
  BY Zenon DEF HandleClose, Handles, poolVars
<1>2. conns \in Seq(Connection) /\ c \in DOMAIN conns /\ Conns \subseteq Nat \ {Listener}
  BY DEF ServerInv, Shape, Conns, Listener
<1>3. conns[c].loop = l /\ conns[c].state = "kConnected"
  BY Zenon, <1>1, <1>2 DEF ServerInv, ActiveOk, OpenIn
<1>4. /\ Changed(conns, conns', c) /\ conns'[c].state = "kDisconnected"
      /\ conns'[c].registered = conns[c].registered
  BY Zenon, <1>1, <1>2, ConnectionChanges
<1>5. /\ conns' \in Seq(Connection) /\ Len(conns') = Len(conns) /\ Conns' = Conns
      /\ \A d \in Conns : conns'[d].name = d /\ conns'[d].loop = conns[d].loop
      /\ \A d \in Conns \ {c} : conns'[d] = conns[d]
  BY Zenon, <1>4, ChangeKeeps
<1>6. Mine(c) => c \in DOMAIN connMap
  BY Zenon, <1>3 DEF ServerInv, Mapped, KeptUntilClosed
<1> DEFINE f == IF l = Base THEN Functor("destroyed", c) ELSE Functor("remove", c)
<1>7. /\ f \in AnyFunctor /\ f.conn = c
      /\ f.op = (IF l = Base THEN "destroyed" ELSE "remove")
      /\ l = Base => f = Functor("destroyed", c)
  BY <1>2 DEF Functor, AnyFunctor
<1>8. /\ pending' = Push(pending, Base, f) /\ misuse' = misuse
      /\ DOMAIN connMap' = (IF l = Base THEN DOMAIN connMap \ {c} ELSE DOMAIN connMap)
      /\ \A n \in DOMAIN connMap' : connMap'[n] = connMap[n]
  <2>1. CASE l = Base
    <3>1. c \in DOMAIN connMap /\ RemoveConnectionInLoop(c)
      BY Zenon, <1>1, <1>3, <1>6, <2>1 DEF Mine, RemoveConnection
    <3> QED
      BY Zenon, <1>3, <2>1, <3>1, RemovalErases
  <2>2. CASE l # Base
    BY Zenon, <1>1, <2>2 DEF RemoveConnection
  <2> QED
    BY Zenon, <2>1, <2>2
<1> HIDE DEF f
<1>9. \A k \in Loops : \A g \in Queued(k) : g.conn = c => g.op = "destroyed"
  BY Zenon, <1>3, FunctorsQueued DEF ServerInv, Placed, PlacedAt, AnyFunctor
<1>10. /\ pending' \in Queues /\ Queued(Base)' = Queued(Base) \cup {f}
       /\ \A k \in Loops \ {Base} : Queued(k)' = Queued(k)
       /\ QueuedOnce'
  <2>1. pending \in Queues /\ batch \in Queues /\ Once(pending, batch)
    BY DEF ServerInv, Shape, QueuedOnce
  <2>2. f \notin ToRun(pending, batch, Base) \/ f.op = "destroyed"
    BY Zenon, <1>7, <1>9, LoopsExist DEF Queued
  <2>3. Base \in Loops /\ f \in AnyFunctor
    BY Zenon, <1>7, LoopsExist
  <2>4. /\ pending' \in Queues /\ Once(pending', batch)
        /\ \A k \in Loops : ToRun(pending', batch, k) =
             IF k = Base THEN ToRun(pending, batch, k) \cup {f} ELSE ToRun(pending, batch, k)
    <3>1. /\ Push(pending, Base, f) \in Queues /\ Once(Push(pending, Base, f), batch)
          /\ \A k \in Loops : ToRun(Push(pending, Base, f), batch, k) =
               IF k = Base THEN ToRun(pending, batch, k) \cup {f} ELSE ToRun(pending, batch, k)
      BY <2>1, <2>2, <2>3, PushAdds
    <3> QED
      BY Zenon, <1>8, <3>1
  <2> QED
    BY Zenon, <1>1, <2>3, <2>4 DEF Queued, QueuedOnce
<1>11. /\ active' \in [Loops -> SUBSET Nat] /\ active'[l] = active[l] \ {c}
       /\ \A k \in Loops \ {l} : active'[k] = active[k]
  BY Zenon, <1>1 DEF ServerInv, Shape
<1>12. Shape'
  BY Zenon, <1>1, <1>5, <1>10, <1>11 DEF ServerInv, Shape
<1>13. Named'
  BY Zenon, <1>1, <1>5, <1>8 DEF ServerInv, Named
<1>14. Threads'
  BY Zenon, <1>1, <1>5, <1>11, LoopsExist DEF ServerInv, Threads
<1>15. LoopsOk'
  BY Zenon, <1>1, <1>11 DEF ServerInv, LoopsOk
<1>16. ActiveOk'
  <2> SUFFICES ASSUME NEW k \in Loops, NEW d \in active'[k] \ {Listener}
               PROVE  OpenIn(k, d)'
    BY Zenon, <1>1, <1>5 DEF ServerInv, ActiveOk
  <2>1. OpenIn(k, d)
    BY <1>11 DEF ServerInv, ActiveOk
  <2> QED
    BY Zenon, <1>3, <1>5, <1>11, <2>1 DEF OpenIn
<1>17. Placed'
  <2> SUFFICES ASSUME NEW k \in Loops, NEW g \in Queued(k)' PROVE PlacedAt(k, g)'
    BY DEF Placed
  <2>1. CASE g \in Queued(k)
    <3>1. PlacedAt(k, g)
      BY <2>1 DEF ServerInv, Placed
    <3> QED
      BY Zenon, <1>4, <1>5, <1>9, <2>1, <3>1 DEF PlacedAt
  <2>2. CASE g \notin Queued(k)
    <3>1. g = f /\ k = Base
      BY <1>10, <2>2
    <3> QED
      BY Zenon, <1>3, <1>4, <1>5, <1>7, <3>1 DEF PlacedAt
  <2> QED
    BY <2>1, <2>2
<1>18. Mapped'
  <2>1. ASSUME NEW d \in Conns
        PROVE  /\ conns'[d].loop = Base => conns'[d].state # "kConnecting"
               /\ Mine(d)' /\ conns'[d].state # "kDisconnected" => d \in DOMAIN connMap'
               /\ Mine(d)' /\ conns'[d].registered /\ d \notin DOMAIN connMap' =>
                    \E k \in Loops : Functor("destroyed", d) \in Queued(k)'
    <3>1. Mine(d)' <=> Mine(d)
      BY Zenon, <1>1, <1>5 DEF Mine
    <3>2. CASE d = c
      BY Zenon, <1>3, <1>4, <1>5, <1>6, <1>7, <1>8, <1>10, <3>1, <3>2, LoopsExist DEF Mine
    <3>3. CASE d # c
      <4>1. d \in DOMAIN connMap' <=> d \in DOMAIN connMap
        BY Zenon, <1>8, <3>3
      <4>2. conns'[d] = conns[d] /\ \A k \in Loops : Queued(k) \subseteq Queued(k)'
        BY Zenon, <1>5, <1>10, <3>3
      <4> QED
        BY Zenon, <3>1, <4>1, <4>2 DEF ServerInv, Mapped, KeptUntilClosed
    <3> QED
      BY Zenon, <3>2, <3>3
  <2>2. ASSUME server' = "alive", NEW g \in Queued(Base)', g.op = "remove"
        PROVE  g.conn \in DOMAIN connMap'
    <3>1. CASE g \in Queued(Base)
      BY Zenon, <1>1, <1>8, <1>9, <2>2, <3>1, LoopsExist DEF ServerInv, Mapped, KeptUntilClosed
    <3>2. CASE g = f
      BY Zenon, <1>1, <1>6, <1>7, <1>8, <2>2, <3>2 DEF Mine
    <3> QED
      BY Zenon, <1>10, <3>1, <3>2
  <2> QED
    BY Zenon, <1>5, <2>1, <2>2 DEF Mapped, KeptUntilClosed
<1>19. Unmisused'
  BY Zenon, <1>1, <1>8 DEF ServerInv, Unmisused
<1> QED
  BY <1>10, <1>12, <1>13, <1>14, <1>15, <1>16, <1>17, <1>18, <1>19 DEF ServerInv

\* A functor runs.
LEMMA RunFunctorKeeps ==
  ASSUME ServerInv, NEW l \in Loops, RunFunctor(l)
  PROVE  ServerInv'
<1> DEFINE f == Head(batch[l])
           c == f.conn
<1>1. /\ UNCHANGED <<started, numThreads, next, nextConnId, listening, server, peerClosed>>
      /\ UNCHANGED <<lpc, quit, active>> /\ lpc[l] = "run" /\ batch[l] # <<>>
      /\ batch' = [batch EXCEPT ![l] = Tail(@)]
  BY Zenon DEF RunFunctor, poolVars
<1>2. \/ /\ f.op = "established" /\ conns' = Established(conns, c)
         /\ UNCHANGED <<connMap, pending, misuse>>
      \/ /\ f.op = "destroyed" /\ conns' = Destroyed(conns, c)
         /\ UNCHANGED <<connMap, pending, misuse>>
      \/ f.op = "remove" /\ server = "alive" /\ RemoveConnectionInLoop(c) /\ UNCHANGED conns
      \/ /\ f.op = "remove" /\ server = "destroyed" /\ misuse' = misuse \cup {"freed"}
         /\ UNCHANGED <<connMap, pending, conns>>
  BY Zenon DEF RunFunctor
<1> DEFINE Rest(k) == ToRun(pending, batch', k)
<1>3. /\ batch' \in Queues /\ f \in AnyFunctor /\ f \in Queued(l) /\ Once(pending, batch')
      /\ \A k \in Loops : Rest(k) \subseteq Queued(k)
      /\ \A k \in Loops : \A g \in Queued(k) : g = f \/ g \in Rest(k)
      /\ f.op = "destroyed" \/ f \notin Rest(l)
  <2>1. pending \in Queues /\ batch \in Queues /\ Once(pending, batch)
    BY DEF ServerInv, Shape, QueuedOnce
  <2>2. batch' = Pop(batch, l) /\ f = First(batch, l)
    BY <1>1 DEF Pop, First
  <2> HIDE DEF f
  <2>3. /\ Pop(batch, l) \in Queues /\ Once(pending, Pop(batch, l))
        /\ f \in AnyFunctor /\ f \in ToRun(pending, batch, l)
        /\ f.op = "destroyed" \/ f \notin ToRun(pending, Pop(batch, l), l)
        /\ \A k \in Loops :
             /\ ToRun(pending, Pop(batch, l), k) \subseteq ToRun(pending, batch, k)
             /\ ToRun(pending, batch, k) \subseteq ToRun(pending, Pop(batch, l), k) \cup {f}
    BY Zenon, <1>1, <2>1, <2>2, PopTakes
  <2> QED
    BY Zenon, <2>2, <2>3 DEF Queued
<1> HIDE DEF f, Rest
<1>4. /\ c \in Conns /\ conns \in Seq(Connection) /\ c \in DOMAIN conns
      /\ IF f.op = "remove" THEN l = Base /\ conns[c].loop # Base ELSE l = conns[c].loop
      /\ f.op = "established" => conns[c].state = "kConnecting"
      /\ f.op = "remove" => conns[c].state = "kDisconnected"
  BY Zenon, <1>3 DEF ServerInv, Shape, Placed, PlacedAt, Conns
<1>5. \A k \in Loops : Queued(k) \subseteq AnyFunctor
  BY FunctorsQueued DEF ServerInv
<1> HIDE DEF c
<1>6. c = f.conn
  BY DEF c
<1>7. \A k \in Loops : \A g \in Rest(k) : f.op # "destroyed" /\ g.conn = c => g.op # f.op
  <2> SUFFICES ASSUME NEW k \in Loops, NEW g \in Rest(k),
                      f.op # "destroyed", g.conn = c, g.op = f.op
               PROVE  FALSE
    OBVIOUS
  <2>1. g \in Queued(k) /\ g = f
    BY <1>3, <1>5, <1>6, SameFunctor
  <2>2. PlacedAt(k, f) /\ PlacedAt(l, f)
    BY <1>3, <2>1 DEF ServerInv, Placed
  <2>3. k = l
    BY <2>2 DEF PlacedAt
  <2> QED
    BY <1>3, <2>1, <2>3
<1>8. active[l] = {} /\ LoopsOk'
  <2>1. \A k \in Loops : lpc[k] # "run" => batch'[k] = <<>>
    BY Zenon, <1>1 DEF ServerInv, LoopsOk, Shape, Queues
  <2> QED
    BY Zenon, <1>1, <2>1 DEF ServerInv, LoopsOk
<1>9. CASE f.op \in {"established", "destroyed"}
  <2>1. /\ UNCHANGED <<connMap, pending, misuse>> /\ Changed(conns, conns', c)
        /\ f.op = "established" => conns'[c].state = "kConnected"
        /\ f.op = "destroyed" =>
             /\ conns'[c].state = (IF conns[c].state = "kConnected" THEN "kDisconnected"
                                                                 ELSE conns[c].state)
             /\ conns'[c].registered = FALSE
    <3>1. CASE f.op = "established"
      <4>1. conns' = Established(conns, c) /\ UNCHANGED <<connMap, pending, misuse>>
        BY <1>2, <3>1
      <4> QED
        BY Zenon, <1>4, <3>1, <4>1, ConnectionChanges
    <3>2. CASE f.op = "destroyed"
      <4>1. conns' = Destroyed(conns, c) /\ UNCHANGED <<connMap, pending, misuse>>
        BY <1>2, <3>2
      <4> QED
        BY Zenon, <1>4, <3>2, <4>1, ConnectionChanges
    <3> QED
      BY Zenon, <1>9, <3>1, <3>2
  <2>2. /\ conns' \in Seq(Connection) /\ Len(conns') = Len(conns) /\ Conns' = Conns
        /\ \A d \in Conns : conns'[d].name = d /\ conns'[d].loop = conns[d].loop
        /\ \A d \in Conns \ {c} : conns'[d] = conns[d]
    BY Zenon, <1>4, <2>1, ChangeKeeps
  <2>3. \A k \in Loops : Queued(k)' = Rest(k)
    BY Zenon, <2>1 DEF Queued, Rest
  <2>4. Shape'
    BY Zenon, <1>1, <1>3, <2>1, <2>2 DEF ServerInv, Shape
  <2>5. QueuedOnce'
    BY Zenon, <1>3, <2>1 DEF QueuedOnce
  <2>6. Named'
    BY Zenon, <1>1, <2>1, <2>2 DEF ServerInv, Named
  <2>7. Threads'
    BY Zenon, <1>1, <2>2 DEF ServerInv, Threads
  <2>8. ActiveOk'
    <3> SUFFICES ASSUME NEW k \in Loops, NEW d \in active'[k] \ {Listener}
                 PROVE  OpenIn(k, d)'
      BY Zenon, <1>1, <2>2 DEF ServerInv, ActiveOk
    <3>1. OpenIn(k, d)
      BY Zenon, <1>1 DEF ServerInv, ActiveOk
    <3> QED
      BY Zenon, <1>1, <1>4, <1>8, <1>9, <2>2, <3>1 DEF OpenIn
  <2>9. Placed'
    <3> SUFFICES ASSUME NEW k \in Loops, NEW g \in Queued(k)' PROVE PlacedAt(k, g)'
      BY DEF Placed
    <3>1. g \in Rest(k) /\ PlacedAt(k, g)
      BY <1>3, <2>3 DEF ServerInv, Placed
    <3>2. CASE g.conn # c
      <4>1. g.conn \in Conns /\ conns'[g.conn] = conns[g.conn]
        BY Zenon, <2>2, <3>1, <3>2 DEF PlacedAt
      <4> QED
        BY Zenon, <2>2, <3>1, <4>1 DEF PlacedAt
    <3>3. CASE g.conn = c
      <4>1. CASE f.op = "established"
        <5>1. g.op # "established"
          BY <1>7, <3>1, <3>3, <4>1
        <5>2. g.op # "remove"
          BY Zenon, <1>4, <3>1, <3>3, <4>1 DEF PlacedAt
        <5> QED
          BY Zenon, <1>4, <2>2, <3>1, <3>3, <5>1, <5>2 DEF PlacedAt
      <4>2. CASE f.op = "destroyed"
        BY Zenon, <1>4, <2>1, <2>2, <3>1, <3>3, <4>2 DEF PlacedAt
      <4> QED
        BY <1>9, <4>1, <4>2
    <3> QED
      BY <3>2, <3>3
  <2>10. Mapped'
    <3>1. \A d \in Conns : Mine(d)' <=> Mine(d)
      BY Zenon, <1>1, <2>2 DEF Mine
    <3>2. ASSUME NEW d \in Conns
          PROVE  /\ conns'[d].loop = Base => conns'[d].state # "kConnecting"
                 /\ Mine(d) /\ conns'[d].state # "kDisconnected" => d \in DOMAIN connMap
                 /\ Mine(d) /\ conns'[d].registered /\ d \notin DOMAIN connMap =>
                      \E k \in Loops : Functor("destroyed", d) \in Rest(k)
      <4>1. /\ conns[d].loop = Base => conns[d].state # "kConnecting"
            /\ Mine(d) /\ conns[d].state # "kDisconnected" => d \in DOMAIN connMap
            /\ Mine(d) /\ conns[d].registered /\ d \notin DOMAIN connMap =>
                 \E k \in Loops : Functor("destroyed", d) \in Queued(k)
        BY Zenon DEF ServerInv, Mapped, KeptUntilClosed
      <4>2. CASE d = c
        BY Zenon, <1>4, <1>9, <2>1, <2>2, <4>1, <4>2
      <4>3. CASE d # c
        <5>1. Functor("destroyed", d) # f
          BY <1>6, <4>3 DEF Functor
        <5> QED
          BY Zenon, <1>3, <2>2, <4>1, <4>3, <5>1
      <4> QED
        BY Zenon, <4>2, <4>3
    <3>3. server = "alive" => \A g \in Rest(Base) : g.op = "remove" => g.conn \in DOMAIN connMap
      BY Zenon, <1>3, LoopsExist DEF ServerInv, Mapped, KeptUntilClosed
    <3> QED
      BY Zenon, <1>1, <2>1, <2>2, <2>3, <3>1, <3>2, <3>3, LoopsExist DEF Mapped, KeptUntilClosed
  <2>11. Unmisused'
    BY Zenon, <1>1, <2>1 DEF ServerInv, Unmisused
  <2> QED
    BY Zenon, <1>8, <2>4, <2>5, <2>6, <2>7, <2>8, <2>9, <2>10, <2>11 DEF ServerInv
<1>10. CASE f.op = "remove" /\ server = "alive"
  <2>1. c \in DOMAIN connMap
    BY Zenon, <1>3, <1>4, <1>6, <1>10 DEF ServerInv, Mapped, KeptUntilClosed
  <2> DEFINE e == Functor("destroyed", c)
             m == conns[c].loop
  <2>2. /\ DOMAIN connMap' = DOMAIN connMap \ {c}
        /\ \A n \in DOMAIN connMap' : connMap'[n] = connMap[n]
        /\ pending' = Push(pending, m, e) /\ misuse' = misuse /\ conns' = conns
    BY Zenon, <1>2, <1>4, <1>10, <2>1, RemovalErases
  <2>3. e \in AnyFunctor /\ e.op = "destroyed" /\ e.conn = c /\ m \in Loops
    <3>1. c \in Nat
      <4>1. Conns \subseteq Nat
        BY DEF ServerInv, Shape, Conns
      <4> QED
        BY Zenon, <1>4, <4>1
    <3>2. m \in Loops
      BY Zenon, <1>4, LoopsExist
    <3> QED
      BY <3>1, <3>2 DEF Functor, AnyFunctor
  <2> HIDE DEF e, m
  <2>4. /\ pending' \in Queues /\ QueuedOnce'
        /\ \A k \in Loops : Queued(k)' = IF k = m THEN Rest(k) \cup {e} ELSE Rest(k)
    <3>1. pending \in Queues
      BY DEF ServerInv, Shape
    <3>2. /\ pending' \in Queues /\ Once(pending', batch')
          /\ \A k \in Loops : ToRun(pending', batch', k) =
               IF k = m THEN ToRun(pending, batch', k) \cup {e} ELSE ToRun(pending, batch', k)
      <4>1. /\ Push(pending, m, e) \in Queues /\ Once(Push(pending, m, e), batch')
            /\ \A k \in Loops : ToRun(Push(pending, m, e), batch', k) =
                 IF k = m THEN ToRun(pending, batch', k) \cup {e} ELSE ToRun(pending, batch', k)
        <5>1. e \in AnyFunctor /\ m \in Loops
          BY <2>3
        <5>2. e \notin ToRun(pending, batch', m) \/ e.op = "destroyed"
          BY <2>3
        <5>3. batch' \in Queues /\ Once(pending, batch')
          BY <1>3
        <5> QED
          BY <3>1, <5>1, <5>2, <5>3, PushAdds
      <4> QED
        BY Zenon, <2>2, <4>1
    <3> QED
      BY Zenon, <3>2 DEF Queued, QueuedOnce, Rest
  <2>5. Shape'
    BY Zenon, <1>1, <1>3, <2>2, <2>4 DEF ServerInv, Shape
  <2>6. Named'
    BY Zenon, <1>1, <2>2 DEF ServerInv, Named, Conns
  <2>7. Threads'
    BY Zenon, <1>1, <2>2 DEF ServerInv, Threads, Conns
  <2>8. ActiveOk'
    BY Zenon, <1>1, <2>2 DEF ServerInv, ActiveOk, OpenIn, Conns
  <2>9. Placed'
    <3> SUFFICES ASSUME NEW k \in Loops, NEW g \in Queued(k)' PROVE PlacedAt(k, g)'
      BY DEF Placed
    <3>1. g \in Queued(k) \/ (k = m /\ g = e)
      BY Zenon, <1>3, <2>4
    <3>2. Conns' = Conns
      BY Zenon, <2>2 DEF Conns
    <3>3. CASE g \in Queued(k)
      <4>1. PlacedAt(k, g)
        BY <3>3 DEF ServerInv, Placed
      <4> QED
        BY Zenon, <2>2, <3>2, <4>1 DEF PlacedAt
    <3>4. CASE k = m /\ g = e
      BY Zenon, <1>4, <2>2, <2>3, <3>2, <3>4 DEF PlacedAt, m
    <3> QED
      BY <3>1, <3>3, <3>4
  <2>10. Mapped'
    <3>1. Conns' = Conns /\ \A d \in Conns : Mine(d)' <=> Mine(d)
      BY Zenon, <1>1, <2>2 DEF Mine, Conns
    <3>2. ASSUME NEW d \in Conns
          PROVE  /\ Mine(d) /\ conns[d].state # "kDisconnected" => d \in DOMAIN connMap'
                 /\ Mine(d) /\ conns[d].registered /\ d \notin DOMAIN connMap' =>
                      \E k \in Loops : Functor("destroyed", d) \in Queued(k)'
      <4>1. CASE d = c
        BY Zenon, <1>4, <1>10, <2>3, <2>4, <4>1 DEF e
      <4>2. CASE d # c
        <5>1. Functor("destroyed", d) # f
          BY <1>10 DEF Functor
        <5>2. \A k \in Loops : Functor("destroyed", d) \in Queued(k) =>
                               Functor("destroyed", d) \in Queued(k)'
          BY <1>3, <2>4, <5>1
        <5> QED
          BY Zenon, <2>2, <4>2, <5>2 DEF ServerInv, Mapped, KeptUntilClosed
      <4> QED
        BY Zenon, <4>1, <4>2
    <3>3. ASSUME NEW g \in Queued(Base)', g.op = "remove"
          PROVE  g.conn \in DOMAIN connMap'
      <4>1. g \in Rest(Base) /\ Base \in Loops
        BY Zenon, <2>3, <2>4, <3>3, LoopsExist
      <4>2. g \in Queued(Base) /\ g.conn # c
        BY Zenon, <1>3, <1>7, <1>10, <3>3, <4>1
      <4> QED
        BY Zenon, <1>10, <2>2, <3>3, <4>2 DEF ServerInv, Mapped, KeptUntilClosed
    <3> QED
      BY Zenon, <2>2, <3>1, <3>2, <3>3 DEF ServerInv, Mapped, KeptUntilClosed
  <2>11. Unmisused'
    BY Zenon, <1>1, <2>2 DEF ServerInv, Unmisused
  <2> QED
    BY Zenon, <1>8, <2>4, <2>5, <2>6, <2>7, <2>8, <2>9, <2>10, <2>11 DEF ServerInv
<1>11. CASE f.op = "remove" /\ server = "destroyed"
  <2>1. UNCHANGED <<connMap, pending, conns>> /\ misuse' = misuse \cup {"freed"}
    BY Zenon, <1>2, <1>11
  <2>2. \A k \in Loops : Queued(k)' = Rest(k)
    BY <2>1 DEF Queued, Rest
  <2>3. Shape'
    BY Zenon, <1>1, <1>3, <2>1 DEF ServerInv, Shape
  <2>4. QueuedOnce'
    BY Zenon, <1>3, <2>1 DEF QueuedOnce
  <2>5. Named'
    BY Zenon, <1>1, <2>1 DEF ServerInv, Named, Conns
  <2>6. Threads'
    BY Zenon, <1>1, <2>1 DEF ServerInv, Threads, Conns
  <2>7. ActiveOk'
    BY Zenon, <1>1, <2>1 DEF ServerInv, ActiveOk, OpenIn, Conns
  <2>8. Placed'
    <3> SUFFICES ASSUME NEW k \in Loops, NEW g \in Queued(k)' PROVE PlacedAt(k, g)'
      BY DEF Placed
    <3>1. PlacedAt(k, g)
      BY Zenon, <1>3, <2>2 DEF ServerInv, Placed
    <3> QED
      BY Zenon, <2>1, <3>1 DEF PlacedAt, Conns
  <2>9. Mapped'
    <3>1. Conns' = Conns /\ \A d \in Conns : Mine(d)' <=> Mine(d)
      BY Zenon, <1>1, <2>1 DEF Mine, Conns
    <3>2. \A d \in Conns : Functor("destroyed", d) # f
      BY <1>11 DEF Functor
    <3>3. \A d \in Conns : \A k \in Loops : Functor("destroyed", d) \in Queued(k) =>
                               Functor("destroyed", d) \in Queued(k)'
      BY Zenon, <1>3, <2>2, <3>2
    <3> QED
      BY Zenon, <1>1, <1>11, <2>1, <3>1, <3>3 DEF ServerInv, Mapped, KeptUntilClosed
  <2>10. Unmisused'
    BY Zenon, <1>1, <1>4, <1>11, <2>1 DEF ServerInv, Unmisused, Threads
  <2> QED
    BY Zenon, <1>8, <2>3, <2>4, <2>5, <2>6, <2>7, <2>8, <2>9, <2>10 DEF ServerInv
<1> QED
  BY <1>2, <1>9, <1>10, <1>11

\* newConnection
LEMMA NewConnectionKeeps ==
  ASSUME ServerInv, NewConnection
  PROVE  ServerInv'
<1> DEFINE c == Len(conns) + 1
           l == IF numThreads = 0 THEN Base ELSE next + 1
           new == [name |-> nextConnId, loop |-> l, registered |-> FALSE, state |-> "kConnecting"]
           made == Append(conns, new)
           f == Functor("established", c)
<1>1. /\ UNCHANGED <<started, numThreads, listening, server, peerClosed>>
      /\ UNCHANGED <<lpc, quit, batch, misuse>> /\ nextConnId' = nextConnId + 1
      /\ active' = [active EXCEPT ![Base] = @ \ {Listener}] /\ Listener \in active[Base]
      /\ next' = IF numThreads = 0 THEN next ELSE NextIndex(next)
      /\ connMap' = [n \in DOMAIN connMap \cup {nextConnId} |->
                      IF n = nextConnId THEN c ELSE connMap[n]]
      /\ IF l = Base THEN conns' = Established(made, c) /\ UNCHANGED pending
                     ELSE conns' = made /\ pending' = Push(pending, l, f)
  BY Zenon DEF NewConnection, Handles, NextConnId
<1>2. /\ conns \in Seq(Connection) /\ Len(conns) \in Nat /\ Conns = 1 .. Len(conns)
      /\ c \in Nat /\ c \notin Conns /\ nextConnId = c
  BY DEF ServerInv, Shape, Named, Conns
<1>3. started /\ Base \in Loops /\ l \in Loops /\ (l = Base <=> numThreads = 0)
  <2>1. /\ started /\ numThreads \in Nat /\ MaxThreads \in Nat
        /\ numThreads <= MaxThreads /\ next \in Nat
    <3>1. started
      BY Zenon, <1>1 DEF ServerInv, Threads
    <3>2. numThreads \in 0 .. MaxThreads /\ next \in Nat
      BY DEF ServerInv, Shape
    <3> QED
      BY <3>1, <3>2, ServerAssumption
  <2>2. next = 0 \/ next < numThreads
    BY Zenon DEF ServerInv, Threads
  <2> QED
    BY <2>1, <2>2, ServerAssumption DEF Loops, Base
<1>4. next' \in Nat /\ (next' = 0 \/ (started /\ next' < numThreads))
  <2>1. numThreads \in Nat /\ next \in Nat /\ (next = 0 \/ next < numThreads)
    BY ServerAssumption DEF ServerInv, Shape, Threads
  <2>2. CASE numThreads = 0
    <3>1. next' = next /\ next = 0
      BY <1>1, <2>1, <2>2
    <3> QED
      BY <3>1
  <2>3. CASE numThreads # 0
    <3>1. NextIndex(next) \in Nat /\ NextIndex(next) < numThreads
      BY <2>1, <2>3 DEF NextIndex
    <3>2. next' = NextIndex(next)
      BY Zenon, <1>1, <2>3
    <3> QED
      BY <1>3, <3>1, <3>2
  <2> QED
    BY <2>2, <2>3
<1>5. DOMAIN connMap' = DOMAIN connMap \cup {c} /\ \A n \in DOMAIN connMap' : connMap'[n] = n
  BY Zenon, <1>1, <1>2 DEF ServerInv, Named
<1>6. new \in Connection /\ new.name = c /\ new.loop = l /\ new.state = "kConnecting"
  BY Zenon, <1>2, <1>3 DEF Connection, States
<1> HIDE DEF new
<1>7. /\ made \in Seq(Connection) /\ Len(made) = c /\ DOMAIN made = Conns \cup {c}
      /\ made[c] = new /\ \A d \in Conns : made[d] = conns[d]
  BY <1>2, <1>6
<1> HIDE DEF made, l
<1>8. /\ conns' \in Seq(Connection) /\ Len(conns') = c /\ Conns' = Conns \cup {c}
      /\ \A d \in Conns : conns'[d] = conns[d]
      /\ conns'[c].name = c /\ conns'[c].loop = l
      /\ conns'[c].state = (IF l = Base THEN "kConnected" ELSE "kConnecting")
  <2>1. CASE l = Base
    <3>1. conns' = Established(made, c)
      BY Zenon, <1>1, <2>1
    <3>2. /\ Changed(made, Established(made, c), c)
          /\ Established(made, c)[c].state = "kConnected"
      BY Zenon, <1>7, ConnectionChanges
    <3> QED
      BY Zenon, <1>2, <1>6, <1>7, <2>1, <3>1, <3>2 DEF Changed, Conns
  <2>2. CASE l # Base
    BY Zenon, <1>1, <1>6, <1>7, <2>2 DEF Conns
  <2> QED
    BY Zenon, <2>1, <2>2
<1>9. f \in AnyFunctor /\ f.op = "established" /\ f.conn = c
  BY <1>2 DEF Functor, AnyFunctor
<1> HIDE DEF f, c
<1>10. \A k \in Loops : \A g \in Queued(k) : g.conn # c
  BY <1>2 DEF ServerInv, Placed, PlacedAt
<1>11. /\ pending' \in Queues /\ QueuedOnce'
       /\ \A k \in Loops : Queued(k)' = IF k = l /\ l # Base THEN Queued(k) \cup {f} ELSE Queued(k)
  <2>1. pending \in Queues /\ batch \in Queues /\ Once(pending, batch)
    BY DEF ServerInv, Shape, QueuedOnce
  <2>2. CASE l = Base
    BY Zenon, <1>1, <2>1, <2>2 DEF Queued, QueuedOnce
  <2>3. CASE l # Base
    <3>1. f \notin ToRun(pending, batch, l)
      BY <1>3, <1>9, <1>10 DEF Queued
    <3>2. /\ pending' \in Queues /\ Once(pending', batch)
          /\ \A k \in Loops : ToRun(pending', batch, k) =
               IF k = l THEN ToRun(pending, batch, k) \cup {f} ELSE ToRun(pending, batch, k)
      <4>1. /\ Push(pending, l, f) \in Queues /\ Once(Push(pending, l, f), batch)
            /\ \A k \in Loops : ToRun(Push(pending, l, f), batch, k) =
                 IF k = l THEN ToRun(pending, batch, k) \cup {f} ELSE ToRun(pending, batch, k)
        BY <1>3, <1>9, <2>1, <3>1, PushAdds
      <4>2. pending' = Push(pending, l, f)
        BY Zenon, <1>1, <2>3
      <4> QED
        BY <4>1, <4>2
    <3> QED
      BY Zenon, <1>1, <2>3, <3>2 DEF Queued, QueuedOnce
  <2> QED
    BY Zenon, <2>2, <2>3
<1>12. /\ active' \in [Loops -> SUBSET Nat] /\ \A k \in Loops : active'[k] \subseteq active[k]
       /\ Listener \notin active'[Base]
  BY Zenon, <1>1, <1>3 DEF ServerInv, Shape
<1>13. Shape'
  BY Zenon, <1>1, <1>4, <1>8, <1>11, <1>12 DEF ServerInv, Shape
<1>14. Named'
  BY Zenon, <1>1, <1>2, <1>5, <1>8 DEF ServerInv, Named
<1>15. Threads'
  BY Zenon, <1>1, <1>3, <1>4, <1>8 DEF ServerInv, Threads
<1>16. LoopsOk'
  BY Zenon, <1>1, <1>12 DEF ServerInv, LoopsOk
<1>17. ActiveOk'
  <2> SUFFICES ASSUME NEW k \in Loops, NEW d \in active'[k] \ {Listener}
               PROVE  OpenIn(k, d)'
    BY Zenon, <1>1, <1>8 DEF ServerInv, ActiveOk
  <2>1. OpenIn(k, d)
    BY Zenon, <1>12 DEF ServerInv, ActiveOk
  <2> QED
    BY Zenon, <1>8, <2>1 DEF OpenIn
<1>18. Placed'
  <2> SUFFICES ASSUME NEW k \in Loops, NEW g \in Queued(k)' PROVE PlacedAt(k, g)'
    BY DEF Placed
  <2>1. g \in Queued(k) \/ (k = l /\ l # Base /\ g = f)
    BY <1>11
  <2>2. CASE g \in Queued(k)
    <3>1. PlacedAt(k, g)
      BY <2>2 DEF ServerInv, Placed
    <3> QED
      BY Zenon, <1>8, <3>1 DEF PlacedAt
  <2>3. CASE k = l /\ l # Base /\ g = f
    BY Zenon, <1>8, <1>9, <2>3 DEF PlacedAt
  <2> QED
    BY Zenon, <2>1, <2>2, <2>3
<1>19. Mapped'
  <2>1. \A d \in Conns : Mine(d)' <=> Mine(d)
    BY Zenon, <1>1, <1>8 DEF Mine
  <2>2. \A k \in Loops : Queued(k) \subseteq Queued(k)'
    BY <1>11
  <2>3. Queued(Base)' = Queued(Base)
    BY <1>3, <1>11
  <2>4. ASSUME NEW d \in Conns' PROVE KeptUntilClosed(d)'
    <3>1. CASE d = c
      <4>1. conns'[d].loop = Base => conns'[d].state # "kConnecting"
        BY Zenon, <1>8, <3>1
      <4>2. d \in DOMAIN connMap'
        BY <1>5, <3>1
      <4> QED
        BY Zenon, <4>1, <4>2 DEF KeptUntilClosed
    <3>2. CASE d \in Conns
      <4>1. KeptUntilClosed(d)
        BY Zenon, <3>2 DEF ServerInv, Mapped
      <4> QED
        BY Zenon, <1>5, <1>8, <2>1, <2>2, <3>2, <4>1 DEF KeptUntilClosed
    <3> QED
      BY Zenon, <1>8, <3>1, <3>2
  <2>5. ASSUME server' = "alive", NEW g \in Queued(Base)', g.op = "remove"
        PROVE  g.conn \in DOMAIN connMap'
    BY Zenon, <1>1, <1>5, <2>3, <2>5 DEF ServerInv, Mapped
  <2> QED
    BY Zenon, <2>4, <2>5 DEF Mapped
<1>20. Unmisused'
  BY Zenon, <1>1 DEF ServerInv, Unmisused
<1> QED
  BY Zenon, <1>11, <1>13, <1>14, <1>15, <1>16, <1>17, <1>18, <1>19, <1>20 DEF ServerInv

\* One turn of the destructor's loop over the map
LEMMA DestroyConnectionKeeps ==
  ASSUME ServerInv, NEW c \in DOMAIN connMap, DestroyConnection(c)
  PROVE  ServerInv'
<1>1. c \in Conns /\ connMap[c] = c /\ conns \in Seq(Connection) /\ c \in DOMAIN conns
  BY Zenon DEF ServerInv, Named, Shape, Conns
<1>2. /\ UNCHANGED <<started, numThreads, next, nextConnId, listening, server, peerClosed>>
      /\ UNCHANGED <<lpc, quit, active, batch, misuse>> /\ server = "destroying"
      /\ DOMAIN connMap' = DOMAIN connMap \ {c}
      /\ \A n \in DOMAIN connMap' : connMap'[n] = connMap[n]
      /\ IF conns[c].loop = Base
         THEN conns' = Destroyed(conns, c) /\ UNCHANGED pending
         ELSE /\ pending' = Push(pending, conns[c].loop, Functor("destroyed", c))
              /\ UNCHANGED conns
  BY Zenon, <1>1 DEF DestroyConnection, poolVars
<1>3. Base \in Loops /\ active[Base] = {}
  BY Zenon, <1>2, LoopsExist DEF ServerInv, LoopsOk
<1>4. LoopsOk'
  BY Zenon, <1>2 DEF ServerInv, LoopsOk
<1>5. Unmisused'
  BY Zenon, <1>2 DEF ServerInv, Unmisused
<1>6. CASE conns[c].loop = Base
  <2>1. conns' = Destroyed(conns, c) /\ pending' = pending
    BY Zenon, <1>2, <1>6
  <2>2. /\ Changed(conns, conns', c) /\ conns'[c].registered = FALSE
        /\ conns'[c].state = (IF conns[c].state = "kConnected" THEN "kDisconnected"
                                                            ELSE conns[c].state)
    BY Zenon, <1>1, <2>1, ConnectionChanges
  <2>3. /\ conns' \in Seq(Connection) /\ Len(conns') = Len(conns) /\ Conns' = Conns
        /\ \A d \in Conns : conns'[d].name = d /\ conns'[d].loop = conns[d].loop
        /\ \A d \in Conns \ {c} : conns'[d] = conns[d]
    BY Zenon, <1>1, <2>2, ChangeKeeps
  <2>4. \A k \in Loops : Queued(k)' = Queued(k)
    BY Zenon, <1>2, <2>1 DEF Queued
  <2>5. Shape' /\ QueuedOnce'
    BY Zenon, <1>2, <2>1, <2>3 DEF ServerInv, Shape, QueuedOnce
  <2>6. Named'
    BY Zenon, <1>2, <2>3 DEF ServerInv, Named
  <2>7. Threads'
    BY Zenon, <1>2, <2>3 DEF ServerInv, Threads
  <2>8. ActiveOk'
    <3> SUFFICES ASSUME NEW k \in Loops, NEW d \in active'[k] \ {Listener}
                 PROVE  OpenIn(k, d)'
      BY Zenon, <1>2, <2>3 DEF ServerInv, ActiveOk
    <3>1. OpenIn(k, d)
      BY Zenon, <1>2 DEF ServerInv, ActiveOk
    <3> QED
      BY Zenon, <1>2, <1>3, <1>6, <2>3, <3>1 DEF OpenIn
  <2>9. conns[c].state \in {"kConnected", "kDisconnected"}
    <3>1. conns[c].state \in States
      BY Zenon, <1>1, LoopsExist DEF Connection
    <3> QED
      BY Zenon, <1>1, <1>6, <3>1 DEF ServerInv, Mapped, KeptUntilClosed, States
  <2>10. conns'[c].state = "kDisconnected"
    BY Zenon, <2>2, <2>9
  <2>11. Placed'
    <3> SUFFICES ASSUME NEW k \in Loops, NEW g \in Queued(k)' PROVE PlacedAt(k, g)'
      BY DEF Placed
    <3>1. PlacedAt(k, g)
      BY <2>4 DEF ServerInv, Placed
    <3>2. CASE g.conn = c
      <4>1. g.op # "established"
        BY Zenon, <2>9, <3>1, <3>2 DEF PlacedAt
      <4> QED
        BY Zenon, <1>1, <2>3, <2>10, <3>1, <3>2, <4>1 DEF PlacedAt
    <3>3. CASE g.conn # c
      <4>1. g.conn \in Conns /\ conns'[g.conn] = conns[g.conn]
        BY Zenon, <2>3, <3>1, <3>3 DEF PlacedAt
      <4> QED
        BY Zenon, <2>3, <3>1, <4>1 DEF PlacedAt
    <3> QED
      BY Zenon, <3>2, <3>3
  <2>12. Mapped'
    <3>1. \A d \in Conns : Mine(d)' <=> Mine(d)
      BY Zenon, <1>2, <2>3 DEF Mine
    <3>2. ASSUME NEW d \in Conns' PROVE KeptUntilClosed(d)'
      <4>1. CASE d = c
        <5>1. conns'[d].state = "kDisconnected" /\ ~conns'[d].registered
          BY Zenon, <2>2, <2>10, <4>1
        <5> QED
          BY Zenon, <5>1 DEF KeptUntilClosed
      <4>2. CASE d # c
        <5>1. KeptUntilClosed(d) /\ d \in Conns
          BY Zenon, <2>3 DEF ServerInv, Mapped
        <5> QED
          BY Zenon, <1>2, <2>3, <2>4, <3>1, <4>2, <5>1 DEF KeptUntilClosed
      <4> QED
        BY <4>1, <4>2
    <3>3. server' # "alive"
      BY Zenon, <1>2
    <3> QED
      BY Zenon, <3>2, <3>3 DEF Mapped
  <2> QED
    BY Zenon, <1>4, <1>5, <2>5, <2>6, <2>7, <2>8, <2>11, <2>12 DEF ServerInv
<1>7. CASE conns[c].loop # Base
  <2> DEFINE e == Functor("destroyed", c)
             m == conns[c].loop
  <2>1. pending' = Push(pending, m, e) /\ conns' = conns
    BY Zenon, <1>2, <1>7
  <2>2. e \in AnyFunctor /\ e.op = "destroyed" /\ e.conn = c /\ m \in Loops /\ m # Base
    <3>1. c \in Nat /\ m \in Loops /\ m # Base
      BY <1>1, <1>7, LoopsExist DEF Conns
    <3> QED
      BY Zenon, <3>1 DEF Functor, AnyFunctor
  <2> HIDE DEF e, m
  <2>3. /\ pending' \in Queues /\ QueuedOnce'
        /\ \A k \in Loops : Queued(k)' = IF k = m THEN Queued(k) \cup {e} ELSE Queued(k)
    <3>1. pending \in Queues /\ batch \in Queues /\ Once(pending, batch)
      BY Zenon DEF ServerInv, Shape, QueuedOnce
    <3>2. /\ pending' \in Queues /\ Once(pending', batch)
          /\ \A k \in Loops : ToRun(pending', batch, k) =
               IF k = m THEN ToRun(pending, batch, k) \cup {e} ELSE ToRun(pending, batch, k)
      <4>1. /\ Push(pending, m, e) \in Queues /\ Once(Push(pending, m, e), batch)
            /\ \A k \in Loops : ToRun(Push(pending, m, e), batch, k) =
                 IF k = m THEN ToRun(pending, batch, k) \cup {e} ELSE ToRun(pending, batch, k)
        <5>1. e \in AnyFunctor /\ m \in Loops
          BY <2>2
        <5>2. e \notin ToRun(pending, batch, m) \/ e.op = "destroyed"
          BY <2>2
        <5> QED
          BY <3>1, <5>1, <5>2, PushAdds
      <4> QED
        BY Zenon, <2>1, <4>1
    <3> QED
      BY Zenon, <1>2, <3>2 DEF Queued, QueuedOnce
  <2>4. Shape'
    BY Zenon, <1>2, <2>1, <2>3 DEF ServerInv, Shape
  <2>5. Named'
    BY Zenon, <1>2, <2>1 DEF ServerInv, Named, Conns
  <2>6. Threads'
    BY Zenon, <1>2, <2>1 DEF ServerInv, Threads, Conns
  <2>7. ActiveOk'
    BY Zenon, <1>2, <2>1 DEF ServerInv, ActiveOk, OpenIn, Conns
  <2>8. Placed'
    <3> SUFFICES ASSUME NEW k \in Loops, NEW g \in Queued(k)' PROVE PlacedAt(k, g)'
      BY DEF Placed
    <3>1. g \in Queued(k) \/ (k = m /\ g = e)
      BY <2>3
    <3>2. Conns' = Conns
      BY <2>1 DEF Conns
    <3>3. CASE g \in Queued(k)
      <4>1. PlacedAt(k, g)
        BY <3>3 DEF ServerInv, Placed
      <4> QED
        BY Zenon, <2>1, <3>2, <4>1 DEF PlacedAt
    <3>4. CASE k = m /\ g = e
      BY Zenon, <1>1, <2>1, <2>2, <3>2, <3>4 DEF PlacedAt, m
    <3> QED
      BY <3>1, <3>3, <3>4
  <2>9. Mapped'
    <3>1. Conns' = Conns /\ \A d \in Conns : Mine(d)' <=> Mine(d)
      BY Zenon, <1>2, <2>1 DEF Mine, Conns
    <3>2. ~Mine(c)
      BY Zenon, <1>2, <1>7 DEF Mine
    <3>3. \A k \in Loops : Queued(k) \subseteq Queued(k)'
      BY <2>3
    <3> QED
      BY Zenon, <1>2, <2>1, <3>1, <3>2, <3>3 DEF ServerInv, Mapped, KeptUntilClosed
  <2> QED
    BY Zenon, <1>4, <1>5, <2>3, <2>4, <2>5, <2>6, <2>7, <2>8, <2>9 DEF ServerInv
<1> QED
  BY Zenon, <1>6, <1>7

-----------------------------------------------------------------------------
(* The theorems                                                            *)

\* ServerInv is inductive.
LEMMA ServerNextInv ==
  ASSUME ServerInv, [Next]_vars
  PROVE  ServerInv'
<1>1. CASE UNCHANGED vars
  <2>1. QueuedOnce' /\ Named' /\ Placed' /\ Mapped'
    BY Zenon, <1>1, Quiet DEF vars, mapVars, loopVars
  <2>2. UNCHANGED <<started, listening, numThreads, next, conns, lpc, quit, active, pending>>
        /\ UNCHANGED <<batch, server, misuse, peerClosed>>
    BY Zenon, <1>1 DEF vars, poolVars, mapVars, loopVars
  <2> QED
    BY Zenon, <2>1, <2>2
      DEF ServerInv, Shape, Threads, LoopsOk, ActiveOk, OpenIn, Unmisused, Conns
<1>2. ASSUME NEW l \in Loops, Loop(l) PROVE ServerInv'
  BY <1>2, PollKeeps, HandleCloseKeeps, TakeBatchKeeps, RunFunctorKeeps, EndBatchKeeps DEF Loop
<1>3. CASE Acceptor
  BY <1>3, NewConnectionKeeps, OthersKeep DEF Acceptor
<1>4. CASE Destructor
  BY <1>4, DestroyConnectionKeeps, DestructorKeeps DEF Destructor
<1>5. CASE \/ Start \/ \E n \in 0 .. MaxThreads : SetThreadNum(n)
           \/ QuitBase \/ BeginDestroy \/ PeerConnects \/ OtherOpens \/ OtherCloses
           \/ \E c \in Conns : PeerCloses(c)
  BY <1>5, StartKeeps, OthersKeep, DestructorKeeps
<1> QED
  BY <1>1, <1>2, <1>3, <1>4, <1>5 DEF Next

\* In every reachable state, for any number of threads, peers and descriptors
LEMMA ServerInvariant == FairSpec => []ServerInv
<1>1. Init => ServerInv
  BY ServerInitInv
<1>2. ServerInv /\ [Next]_vars => ServerInv'
  BY ServerNextInv
<1> QED
  BY <1>1, <1>2, PTL DEF FairSpec, Spec

\* removeConnectionInLoop finds its connection in the map, whether the close
\* was seen in the acceptor's loop or came over from another (TcpServer.cpp
\* "assert(n == 1)"), and without io threads no removal outlives the server.
THEOREM RemovalAlwaysFinds == FairSpec => []RemovalFindsConnection
<1>1. ServerInv => RemovalFindsConnection
  BY DEF ServerInv, Unmisused, RemovalFindsConnection
<1> QED
  BY <1>1, ServerInvariant, PTL

\* ~TcpConnection: a connection that no map and no functor refers to is
\* disconnected and its channel is out of epoll, while the server lives and,
\* without io threads, during and after its destruction too.
THEOREM FreedWhenDisconnected == FairSpec => []FreedDisconnected
<1>1. ASSUME ServerInv PROVE FreedDisconnected
  <2> SUFFICES ASSUME server = "alive" \/ numThreads = 0, NEW c \in Conns, ~Referenced(c)
               PROVE  conns[c].state = "kDisconnected" /\ ~conns[c].registered
    BY Zenon DEF FreedDisconnected
  <2>1. Mine(c)
    BY <1>1 DEF ServerInv, Threads, Mine
  <2>2. c \notin DOMAIN connMap
    BY Zenon, <1>1 DEF ServerInv, Named, Referenced
  <2>3. \A l \in Loops : Functor("destroyed", c) \notin Queued(l)
    BY Zenon DEF Referenced, Queued, ToRun, Functor
  <2> QED
    BY Zenon, <1>1, <2>1, <2>2, <2>3 DEF ServerInv, Mapped, KeptUntilClosed
<1> QED
  BY <1>1, ServerInvariant, PTL

=============================================================================
