----------------------------- MODULE TcpServer ------------------------------
(***************************************************************************)
(* youth/net/TcpServer with its Acceptor and its EventLoopThreadPool: the  *)
(* acceptor's loop accepts, names a connection and hands it to the next io *)
(* loop; an io loop sees a connection close and sends it back to be erased *)
(* from the map; the acceptor's loop sends it to its io loop once more, to *)
(* be destroyed.  Every loop is a thread with the two functor sequences of *)
(* EventLoop.tla.  A process has FdLimit descriptors for connections, for  *)
(* the descriptor the acceptor keeps in reserve and for what other threads *)
(* open; the steps of the acceptor's answer to EMFILE are interleaved with *)
(* theirs.                                                                 *)
(*                                                                         *)
(* What happens to one connection between its callbacks, and how a close   *)
(* is started by its user, is the subject of TcpConnection.tla; starting   *)
(* and joining one thread that of EventLoopThread.tla.                     *)
(***************************************************************************)
EXTENDS Integers, Sequences, FiniteSets

CONSTANTS
  MaxThreads,  \* bound: io threads asked for
  FdLimit,     \* descriptors the process may have open
  MaxOther,    \* bound: descriptors other threads hold at once
  MaxConns     \* bound: connections that arrive

ASSUME ServerAssumption ==
  /\ MaxThreads \in Nat /\ FdLimit \in Nat \ {0}
  /\ MaxOther \in Nat /\ MaxConns \in Nat

VARIABLES
  started, listening,   \* TcpServer::m_started > 0, Acceptor::m_listenning
  numThreads, next,     \* EventLoopThreadPool::m_numThreads, m_next
  nextConnId,           \* m_nextConnId
  connMap,              \* m_connectionMap: a name's number |-> connection
  server,               \* "alive"; "destroying", "quit", "join" in ~TcpServer; "destroyed"
  joined,               \* how many io threads ~EventLoopThreadPool is done with
  conns,                \* every TcpConnection made, in order
  peerClosed,           \* the connections whose peer has closed
  arrived, backlog,     \* connections that have arrived, and wait for accept
  idle,                 \* m_idleFd is an open descriptor
  apc,                  \* where handleRead is: "rest", or in the EMFILE branch
  other,                \* descriptors other threads have open
  stolen,               \* history: one was opened inside the EMFILE branch
  lpc, quit,            \* where each loop is, and its m_quit
  active,               \* its active channels not handled yet: the connections
                        \* that read 0 bytes, and Listener for the acceptor
  pending, batch, held, \* its functors, the rest of the batch, what that holds
  misuse                \* history: what removeConnectionInLoop should not meet

poolVars == <<started, numThreads, next>>
mapVars  == <<nextConnId, connMap, conns>>
fdVars   == <<arrived, backlog, idle, apc, other, stolen>>
loopVars == <<lpc, quit, active, pending, batch, held>>
vars == <<poolVars, listening, mapVars, server, joined, peerClosed, fdVars,
          loopVars, misuse>>

Base == 0
IoLoops == 1 .. numThreads
Loops == 0 .. MaxThreads
Listener == 0
Conns == DOMAIN conns

Elements(s) == {s[i] : i \in DOMAIN s}

Functors == [op : {"established", "remove", "destroyed"}, conn : 1 .. MaxConns]

Functor(op, c) == [op |-> op, conn |-> c]

\* The type of every variable.
TypeOK ==
  /\ started \in BOOLEAN /\ listening \in BOOLEAN
  /\ numThreads \in 0 .. MaxThreads
  /\ next \in 0 .. numThreads /\ (numThreads > 0 => next < numThreads)
  /\ nextConnId \in 1 .. MaxConns + 1
  /\ DOMAIN connMap \subseteq 1 .. MaxConns
  /\ \A n \in DOMAIN connMap : connMap[n] \in Conns
  /\ server \in {"alive", "destroying", "quit", "join", "destroyed"}
  /\ joined \in 0 .. numThreads
  /\ conns \in Seq([name : 1 .. MaxConns, loop : Loops, registered : BOOLEAN,
                    state : {"kConnecting", "kConnected", "kDisconnected"}])
  /\ peerClosed \subseteq Conns
  /\ arrived \in 0 .. MaxConns /\ backlog \in 0 .. MaxConns
  /\ idle \in BOOLEAN /\ apc \in {"rest", "closed", "took", "reopen"}
  /\ other \in 0 .. MaxOther /\ stolen \in BOOLEAN
  /\ lpc \in [Loops -> {"none", "poll", "dispatch", "run", "ended"}]
  /\ active \in [Loops -> SUBSET (0 .. MaxConns)]
  /\ quit \in [Loops -> BOOLEAN]
  /\ pending \in [Loops -> Seq(Functors)] /\ batch \in [Loops -> Seq(Functors)]
  /\ held \in [Loops -> SUBSET (1 .. MaxConns)]
  /\ misuse \subseteq {"absent", "freed"}

Init ==
  /\ started = FALSE /\ listening = FALSE /\ numThreads = 0 /\ next = 0
  /\ nextConnId = 1 /\ connMap = <<>> /\ conns = <<>>
  /\ server = "alive" /\ joined = 0
  /\ peerClosed = {} /\ arrived = 0 /\ backlog = 0
  /\ idle = TRUE /\ apc = "rest" /\ other = 0 /\ stolen = FALSE
  /\ lpc = [l \in Loops |-> IF l = Base THEN "poll" ELSE "none"]
  /\ quit = [l \in Loops |-> FALSE] /\ active = [l \in Loops |-> {}]
  /\ pending = [l \in Loops |-> <<>>] /\ batch = [l \in Loops |-> <<>>]
  /\ held = [l \in Loops |-> {}]
  /\ misuse = {}

\* The acceptor's thread is in its loop, not in handleRead or ~TcpServer.
BaseFree == apc = "rest" /\ server \in {"alive", "destroyed"}

\* Somebody holds a TcpConnectionPtr to c: the map or a functor.
Referenced(c) ==
  \/ \E n \in DOMAIN connMap : connMap[n] = c
  \/ \E l \in Loops :
       \/ c \in held[l]
       \/ \E f \in Elements(pending[l]) \cup Elements(batch[l]) : f.conn = c

\* The descriptors in use: a TcpConnection closes its own when it is freed.
OpenFds ==
  Cardinality({c \in Conns : Referenced(c)}) + other
    + (IF idle THEN 1 ELSE 0) + (IF apc = "took" THEN 1 ELSE 0)

FdFree == OpenFds < FdLimit

-----------------------------------------------------------------------------
(* TcpServer::setThreadNum and start                                       *)

SetThreadNum(n) ==
  /\ server = "alive" /\ ~started
  /\ numThreads' = n
  /\ UNCHANGED <<started, next, listening, mapVars, server, joined, peerClosed,
                 fdVars, loopVars, misuse>>

\* The first start(), in the acceptor's thread: the pool's threads run their
\* loops when EventLoopThreadPool::start returns, and listen() runs at once.
\* A later start() only counts m_started up.
Start ==
  /\ server = "alive" /\ BaseFree /\ lpc[Base] = "poll"
  /\ ~started
  /\ started' = TRUE
  /\ listening' = TRUE
  /\ lpc' = [l \in Loops |-> IF l \in IoLoops THEN "poll" ELSE lpc[l]]
  /\ UNCHANGED <<numThreads, next, mapVars, server, joined, peerClosed,
                 fdVars, quit, active, pending, batch, held, misuse>>

-----------------------------------------------------------------------------
(* The connection's callbacks into the server, and the server's functors   *)

\* connectEstablished
Established(cs, c) ==
  [cs EXCEPT ![c].state = "kConnected", ![c].registered = TRUE]

\* connectDestroyed; the channel leaves epoll
Destroyed(cs, c) ==
  [cs EXCEPT ![c].state = IF @ = "kConnected" THEN "kDisconnected" ELSE @,
             ![c].registered = FALSE]

\* Queue one functor on a loop.
Push(q, l, f) == [q EXCEPT ![l] = Append(@, f)]

\* Mutant: the map keeps the connection.
RemoveConnectionInLoop_Keeps(c) ==
  /\ UNCHANGED connMap
  /\ pending' = Push(pending, conns[c].loop, Functor("destroyed", c))
  /\ UNCHANGED misuse

\* Mutant: connectDestroyed is not queued.
RemoveConnectionInLoop_NoDestroy(c) ==
  /\ connMap' = [n \in DOMAIN connMap \ {conns[c].name} |-> connMap[n]]
  /\ UNCHANGED <<pending, misuse>>

\* removeConnectionInLoop.  The assertion n == 1 is the history "absent".
RemoveConnectionInLoop(c) ==
  /\ connMap' = [n \in DOMAIN connMap \ {conns[c].name} |-> connMap[n]]
  /\ pending' = Push(pending, conns[c].loop, Functor("destroyed", c))
  /\ misuse' = misuse \cup (IF conns[c].name \in DOMAIN connMap THEN {} ELSE {"absent"})

\* removeConnection, called in loop l
RemoveConnection(l, c) ==
  IF l = Base
  THEN RemoveConnectionInLoop(c)
  ELSE /\ pending' = Push(pending, Base, Functor("remove", c))
       /\ UNCHANGED <<connMap, misuse>>

\* Mutant: the channel stays enabled, and reports the close again.
Closed_Enabled(cs, c) == cs

\* handleClose up to the close callback: disableAll leaves the channel in m_channels
Closed(cs, c) == [cs EXCEPT ![c].state = "kDisconnected"]

\* What epoll reports to loop l
Ready(l) ==
  {c \in peerClosed : /\ conns[c].loop = l /\ conns[c].registered
                      /\ conns[c].state = "kConnected"}
  \cup (IF l = Base /\ listening /\ backlog > 0 THEN {Listener} ELSE {})

\* epoll_wait returns, for an event, a functor or no reason.
Poll(l) ==
  /\ lpc[l] = "poll"
  /\ l = Base => BaseFree
  /\ active' = [active EXCEPT ![l] = Ready(l)]
  /\ lpc' = [lpc EXCEPT ![l] = "dispatch"]
  /\ UNCHANGED <<poolVars, listening, mapVars, server, joined, peerClosed,
                 fdVars, quit, pending, batch, held, misuse>>

Handles(l, ch) ==
  /\ lpc[l] = "dispatch" /\ ch \in active[l]
  /\ l = Base => BaseFree
  /\ active' = [active EXCEPT ![l] = @ \ {ch}]

\* Loop l reads 0 bytes from c: TcpConnection::handleClose.
HandleClose(l, c) ==
  /\ Handles(l, c)
  /\ conns' = Closed(conns, c)
  /\ RemoveConnection(l, c)
  /\ UNCHANGED <<poolVars, listening, nextConnId, server, joined, peerClosed,
                 fdVars, lpc, quit, batch, held>>

\* doPendingFunctors: take what is pending
TakeBatch(l) ==
  /\ lpc[l] = "dispatch" /\ active[l] = {}
  /\ l = Base => BaseFree
  /\ batch' = [batch EXCEPT ![l] = pending[l]]
  /\ pending' = [pending EXCEPT ![l] = <<>>]
  /\ lpc' = [lpc EXCEPT ![l] = "run"]
  /\ UNCHANGED <<poolVars, listening, mapVars, server, joined, peerClosed,
                 fdVars, quit, active, held, misuse>>

\* ... and run it.
RunFunctor(l) ==
  /\ lpc[l] = "run" /\ batch[l] # <<>>
  /\ l = Base => BaseFree
  /\ batch' = [batch EXCEPT ![l] = Tail(@)]
  /\ LET f == Head(batch[l]) IN
       /\ held' = [held EXCEPT ![l] = @ \cup {f.conn}]
       /\ \/ /\ f.op = "established"
             /\ conns' = Established(conns, f.conn)
             /\ UNCHANGED <<connMap, pending, misuse>>
          \/ /\ f.op = "destroyed"
             /\ conns' = Destroyed(conns, f.conn)
             /\ UNCHANGED <<connMap, pending, misuse>>
          \/ /\ f.op = "remove" /\ server = "alive"
             /\ RemoveConnectionInLoop(f.conn)
             /\ UNCHANGED conns
          \/ /\ f.op = "remove" /\ server = "destroyed"
             /\ misuse' = misuse \cup {"freed"}
             /\ UNCHANGED <<connMap, pending, conns>>
  /\ UNCHANGED <<poolVars, listening, nextConnId, server, joined, peerClosed,
                 fdVars, lpc, quit, active>>

\* The batch is done: its references go, and m_quit is tested.  The EventLoop
\* of an io thread is on the thread's stack and goes with its functors.
EndBatch(l) ==
  /\ lpc[l] = "run" /\ batch[l] = <<>>
  /\ l = Base => BaseFree
  /\ held' = [held EXCEPT ![l] = {}]
  /\ lpc' = [lpc EXCEPT ![l] = IF quit[l] THEN "ended" ELSE "poll"]
  /\ pending' = [pending EXCEPT ![l] = IF quit[l] /\ l # Base THEN <<>> ELSE @]
  /\ UNCHANGED <<poolVars, listening, mapVars, server, joined, peerClosed,
                 fdVars, quit, active, batch, misuse>>

-----------------------------------------------------------------------------
(* Acceptor::handleRead                                                    *)

\* getNextLoop: ++m_next, back to 0 at the end
NextIndex(i) == IF i + 1 >= numThreads THEN 0 ELSE i + 1

\* ++m_nextConnId
NextConnId == nextConnId + 1

\* accept() returns a descriptor: newConnection.  m_loops[m_next] is loop next + 1.
NewConnection ==
  /\ Handles(Base, Listener) /\ FdFree
  /\ backlog' = backlog - 1
  /\ LET c == Len(conns) + 1
         l == IF numThreads = 0 THEN Base ELSE next + 1
         made == Append(conns, [name |-> nextConnId, loop |-> l,
                                registered |-> FALSE, state |-> "kConnecting"])
     IN  /\ connMap' = [n \in DOMAIN connMap \cup {nextConnId} |->
                          IF n = nextConnId THEN c ELSE connMap[n]]
         /\ IF l = Base
            THEN conns' = Established(made, c) /\ UNCHANGED pending
            ELSE /\ conns' = made
                 /\ pending' = Push(pending, l, Functor("established", c))
  /\ next' = IF numThreads = 0 THEN next ELSE NextIndex(next)
  /\ nextConnId' = NextConnId
  /\ UNCHANGED <<started, numThreads, listening, server, joined, peerClosed,
                 arrived, idle, apc, other, stolen, lpc, quit, batch, held,
                 misuse>>

Emfile(from, to) ==
  /\ apc = from /\ apc' = to
  /\ UNCHANGED <<poolVars, listening, mapVars, server, joined, peerClosed,
                 arrived, other, stolen, lpc, quit, pending, batch, held, misuse>>

\* Mutant: the reserve is not given up.
EmfileClose_Keeps ==
  /\ Handles(Base, Listener) /\ ~FdFree
  /\ Emfile("rest", "closed")
  /\ UNCHANGED <<idle, backlog>>

\* accept() fails with EMFILE: close(m_idleFd)
EmfileClose ==
  /\ Handles(Base, Listener) /\ ~FdFree
  /\ Emfile("rest", "closed")
  /\ idle' = FALSE
  /\ UNCHANGED backlog

\* m_idleFd = accept(); it fails if another thread took the free descriptor
EmfileAccept ==
  /\ \/ FdFree /\ Emfile("closed", "took") /\ backlog' = backlog - 1
     \/ ~FdFree /\ Emfile("closed", "reopen") /\ UNCHANGED backlog
  /\ UNCHANGED <<idle, active>>

\* close(m_idleFd): the peer is refused
EmfileRefuse ==
  /\ Emfile("took", "reopen")
  /\ UNCHANGED <<idle, backlog, active>>

\* m_idleFd = open("/dev/null")
EmfileReopen ==
  /\ Emfile("reopen", "rest")
  /\ idle' = FdFree
  /\ UNCHANGED <<backlog, active>>

-----------------------------------------------------------------------------
(* ~TcpServer                                                              *)

\* The acceptor's loop is asked to quit.
QuitBase ==
  /\ started /\ ~quit[Base]
  /\ quit' = [quit EXCEPT ![Base] = TRUE]
  /\ UNCHANGED <<poolVars, listening, mapVars, server, joined, peerClosed,
                 fdVars, lpc, active, pending, batch, held, misuse>>

\* The destructor begins, in the acceptor's thread: in a functor of its loop,
\* where no channel of the server is active, or once that loop has ended.
BeginDestroy ==
  /\ server = "alive" /\ BaseFree /\ started
  /\ lpc[Base] \in {"run", "ended"}
  /\ server' = "destroying"
  /\ UNCHANGED <<poolVars, listening, mapVars, joined, peerClosed, fdVars,
                 loopVars, misuse>>

\* One turn of its loop over m_connectionMap: reset the pointer and run
\* connectDestroyed in the connection's loop.
DestroyConnection(n) ==
  /\ server = "destroying" /\ n \in DOMAIN connMap
  /\ \A m \in DOMAIN connMap : n <= m
  /\ LET c == connMap[n] IN
       IF conns[c].loop = Base
       THEN conns' = Destroyed(conns, c) /\ UNCHANGED pending
       ELSE /\ pending' = Push(pending, conns[c].loop, Functor("destroyed", c))
            /\ UNCHANGED conns
  /\ connMap' = [m \in DOMAIN connMap \ {n} |-> connMap[m]]
  /\ UNCHANGED <<poolVars, listening, nextConnId, server, joined, peerClosed,
                 fdVars, lpc, quit, active, batch, held, misuse>>

\* ~EventLoopThreadPool: m_loop->quit() for the next thread ...
QuitThread ==
  /\ server = "destroying" /\ connMap = <<>> /\ joined < numThreads
  /\ quit' = [quit EXCEPT ![joined + 1] = TRUE]
  /\ server' = "join"
  /\ UNCHANGED <<poolVars, listening, mapVars, joined, peerClosed, fdVars,
                 lpc, active, pending, batch, held, misuse>>

\* ... and m_thread.join()
JoinThread ==
  /\ server = "join" /\ lpc[joined + 1] = "ended"
  /\ joined' = joined + 1
  /\ server' = "destroying"
  /\ UNCHANGED <<poolVars, listening, mapVars, peerClosed, fdVars, loopVars, misuse>>

\* ~Acceptor: the kernel resets what waited in the backlog.
EndDestroy ==
  /\ server = "destroying" /\ connMap = <<>> /\ joined = numThreads
  /\ server' = "destroyed"
  /\ listening' = FALSE /\ idle' = FALSE /\ backlog' = 0
  /\ UNCHANGED <<poolVars, mapVars, joined, peerClosed, arrived, apc, other,
                 stolen, loopVars, misuse>>

-----------------------------------------------------------------------------
(* The peers, and the descriptors of other threads                         *)

PeerConnects ==
  /\ listening /\ arrived < MaxConns
  /\ arrived' = arrived + 1
  /\ backlog' = backlog + 1
  /\ UNCHANGED <<poolVars, listening, mapVars, server, joined, peerClosed,
                 idle, apc, other, stolen, loopVars, misuse>>

PeerCloses(c) ==
  /\ c \notin peerClosed
  /\ peerClosed' = peerClosed \cup {c}
  /\ UNCHANGED <<poolVars, listening, mapVars, server, joined, fdVars,
                 loopVars, misuse>>

OtherOpens ==
  /\ other < MaxOther /\ FdFree
  /\ other' = other + 1
  /\ stolen' = (stolen \/ apc # "rest")
  /\ UNCHANGED <<poolVars, listening, mapVars, server, joined, peerClosed,
                 arrived, backlog, idle, apc, loopVars, misuse>>

OtherCloses ==
  /\ other > 0
  /\ other' = other - 1
  /\ UNCHANGED <<poolVars, listening, mapVars, server, joined, peerClosed,
                 arrived, backlog, idle, apc, stolen, loopVars, misuse>>

-----------------------------------------------------------------------------
Acceptor == NewConnection \/ EmfileClose \/ EmfileAccept \/ EmfileRefuse \/ EmfileReopen

Destructor ==
  \/ \E n \in DOMAIN connMap : DestroyConnection(n)
  \/ QuitThread
  \/ JoinThread
  \/ EndDestroy

Loop(l) ==
  \/ Poll(l)
  \/ \E c \in Conns : HandleClose(l, c)
  \/ TakeBatch(l)
  \/ RunFunctor(l)
  \/ EndBatch(l)

Next ==
  \/ \E n \in 0 .. MaxThreads : SetThreadNum(n)
  \/ Start
  \/ Acceptor
  \/ \E l \in Loops : Loop(l)
  \/ QuitBase
  \/ BeginDestroy
  \/ Destructor
  \/ PeerConnects
  \/ \E c \in Conns : PeerCloses(c)
  \/ OtherOpens
  \/ OtherCloses

Spec == Init /\ [][Next]_vars

(***************************************************************************)
(* Every loop's thread, and a destructor that has begun, keep running.     *)
(* What peers and other threads do is not fair, and nobody has to destroy  *)
(* the server.                                                             *)
(***************************************************************************)
FairSpec ==
  /\ Spec
  /\ \A l \in Loops \ {Base} : WF_vars(Loop(l))
  /\ WF_vars(Loop(Base) \/ Acceptor)
  /\ WF_vars(Destructor)

-----------------------------------------------------------------------------
(* Properties                                                              *)

\* ~TcpConnection and ~Channel: a connection is freed only in kDisconnected,
\* and when no epoll knows its channel any more.  A server with io threads
\* loses this in its destructor: it quits them after queueing connectDestroyed,
\* and a loop past its last swap ends without running it.
FreedDisconnected ==
  server = "alive" \/ numThreads = 0 =>
    \A c \in Conns : ~Referenced(c) =>
      conns[c].state = "kDisconnected" /\ ~conns[c].registered

\* removeConnectionInLoop: its map has the connection ("assert(n == 1)",
\* TcpServer.cpp:102), and a server without io threads still exists.  With io
\* threads, a functor queued before ~TcpServer may run after it.
RemovalFindsConnection ==
  "absent" \notin misuse /\ (numThreads = 0 => "freed" \notin misuse)

\* Acceptor::handleRead: whether or not a descriptor is free, what waits in the
\* backlog of a running loop is accepted or refused, as long as the acceptor
\* has its reserve.
BacklogDrains == (backlog > 0) ~> (backlog = 0 \/ stolen \/ quit[Base])

\* handleClose to connectDestroyed across the two loops: the connection of a
\* peer that closed is freed, and with it its descriptor, while both loops run.
Released == \A c \in 1 .. MaxConns :
  (c \in peerClosed)
    ~> ((c \in Conns /\ ~Referenced(c)) \/ server # "alive" \/ quit[Base])

=============================================================================
