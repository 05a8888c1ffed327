--------------------------- MODULE TcpConnection ----------------------------
(***************************************************************************)
(* One youth/net/TcpConnection: its state machine, its output buffer, the  *)
(* registration of its channel with epoll (Channel, Epoll), the owner that *)
(* keeps it alive (TcpServer's connection map), and its users, who call it *)
(* from callbacks in its loop and from other threads.                      *)
(*                                                                         *)
(* m_state is a plain variable that other threads read and write: each     *)
(* read, each write and each queueing of a functor by another thread is a  *)
(* step.  A handler that runs in the loop's thread is one step as long as  *)
(* it calls no user code that acts on the connection.  Pending functors    *)
(* are the two sequences of EventLoop.tla; the references that a batch of  *)
(* functors holds are dropped when the whole batch is done.                *)
(*                                                                         *)
(* If the loop is that of an io thread, ~TcpServer quits it after it has   *)
(* queued connectDestroyed, and joins the thread: what is pending when the *)
(* loop leaves its while is destroyed with the loop and never runs.        *)
(***************************************************************************)
EXTENDS Integers, Sequences, FiniteSets

CONSTANTS
  Users,      \* other threads that hold a TcpConnectionPtr
  HighWater,  \* m_highWaterMark
  MaxOps,     \* bound: calls made
  MaxReads    \* bound: times data arrives

ASSUME ConnectionAssumption ==
  HighWater \in Nat /\ MaxOps \in Nat /\ MaxReads \in Nat

VARIABLES
  state,     \* m_state
  index, interest,  \* the channel's index in epoll and its m_events
  out,       \* m_outputBuffer, the bytes numbered as they were accepted
  fin,       \* shutdownWrite was called
  peer,      \* "open", "fin" (closed), "rst" (reset), "dead" (reset, seen)
  lpc, revents,  \* where the loop is, and the events of handleEvent left
  pending, batch,  \* the loop's functors: pending, and the rest of the batch
  held,      \* the batch being run holds a reference to the connection
  base,      \* the functors pending in the owner's loop, if it is another
  owned,     \* the owner's map holds the connection
  owner,     \* the owner exists
  quit,      \* m_quit of the connection's loop, if it is an io thread's
  sameLoop,  \* the owner's loop is also the connection's loop; never changes
  delayed,   \* a timer of forceCloseWithDelay is set
  upc, uref, \* where each user is, and whether it holds a reference
  ops, reads,           \* how much of MaxOps and MaxReads is used
  accepted, wire, failed,  \* history: bytes accepted, written; a write failed
  ups, downs, closes, destroys,  \* history: callbacks and connectDestroyed run
  misuse,    \* history: "freed", "owner" or "loop" once a destroyed
             \* connection, server or loop was used
  upset      \* history: how the close was upset (see Upsets)

connVars  == <<state, index, interest>>
dataVars  == <<out, fin, accepted, wire, failed>>
loopVars  == <<lpc, revents>>
queueVars == <<pending, batch, held>>
ownerVars == <<base, owned, owner, quit>>
userVars  == <<upc, uref>>
callbacks == <<ups, downs, closes, destroys>>
limits    == <<ops, reads>>

vars == <<connVars, dataVars, peer, loopVars, queueVars, ownerVars, delayed,
          userVars, limits, callbacks, misuse, upset, sameLoop>>

States == {"kConnecting", "kConnected", "kDisconnecting", "kDisconnected"}

(***************************************************************************)
(* "revived": another thread assigned kDisconnecting to m_state of a       *)
(* closed connection, which it had tested before the close; "reenabled":   *)
(* startRead, which does not test m_state, enabled its channel; "dropped": *)
(* connectDestroyed, which handles kConnected, found kDisconnecting;       *)
(* "abandoned": the io loop ended before it ran connectDestroyed.          *)
(***************************************************************************)
Upsets == {"revived", "reenabled", "dropped", "abandoned"}

Note(what, happens) == upset' = IF happens THEN upset \cup {what} ELSE upset

\* The functors that hold a reference; the others hold a raw this.
Shared == {"established", "forceClose", "destroyed", "writeComplete", "highWater"}

Raw == {"send", "shutdown", "startRead", "stopRead"}

Functors == Shared \cup Raw

Elements(s) == {s[i] : i \in DOMAIN s}

\* Somebody holds a reference: the TcpConnection exists.
Alive ==
  \/ owned \/ held
  \/ "remove" \in Elements(base)
  \/ Shared \cap (Elements(pending) \cup Elements(batch)) # {}
  \/ \E u \in Users : uref[u]
  \/ lpc \in {"event", "message"}

\* The type of every variable.
TypeOK ==
  /\ state \in States
  /\ index \in {"kNew", "kAdded", "kDeleted"}
  /\ interest \in SUBSET {"read", "write"}
  /\ out \in Seq(Nat) /\ wire \in Seq(Nat)
  /\ fin \in BOOLEAN /\ failed \in BOOLEAN
  /\ peer \in {"open", "fin", "rst", "dead"}
  /\ lpc \in {"poll", "event", "message", "functors", "overflow", "gone"}
  /\ revents \in SUBSET {"in", "out", "hup", "err"}
  /\ pending \in Seq(Functors) /\ batch \in Seq(Functors)
  /\ held \in BOOLEAN
  /\ base \in Seq({"remove"})
  /\ owned \in BOOLEAN /\ owner \in BOOLEAN /\ quit \in BOOLEAN
  /\ delayed \in BOOLEAN
  /\ upc \in [Users -> {"idle", "shutdown", "forceClose", "forceClosePush",
                        "shutdownPush"} \cup Raw]
  /\ uref \in [Users -> BOOLEAN]
  /\ ops \in 0..MaxOps /\ reads \in 0..MaxReads /\ accepted \in Nat
  /\ ups \in Nat /\ downs \in Nat /\ closes \in Nat /\ destroys \in Nat
  /\ misuse \in {"none", "freed", "owner", "loop"}
  /\ upset \in SUBSET Upsets /\ sameLoop \in BOOLEAN

\* The owner has made the connection, entered it in its map and called
\* runInLoop(connectEstablished): in the same loop it has run.
Init ==
  /\ sameLoop \in BOOLEAN
  /\ IF sameLoop
     THEN /\ state = "kConnected" /\ index = "kAdded" /\ interest = {"read"}
          /\ pending = <<>> /\ ups = 1
     ELSE /\ state = "kConnecting" /\ index = "kNew" /\ interest = {}
          /\ pending = <<"established">> /\ ups = 0
  /\ out = <<>> /\ wire = <<>> /\ fin = FALSE /\ failed = FALSE /\ accepted = 0
  /\ peer = "open" /\ lpc = "poll" /\ revents = {}
  /\ batch = <<>> /\ held = FALSE
  /\ base = <<>> /\ owned = TRUE /\ owner = TRUE /\ quit = FALSE
  /\ delayed = FALSE
  /\ upc = [u \in Users |-> "idle"] /\ uref = [u \in Users |-> sameLoop]
  /\ ops = 0 /\ reads = 0
  /\ downs = 0 /\ closes = 0 /\ destroys = 0
  /\ misuse = "none" /\ upset = {}

Op == ops < MaxOps /\ ops' = ops + 1

-----------------------------------------------------------------------------
(* Channel and Epoll                                                       *)

\* Channel::update, Epoll::updateChannel with m_events = events
UpdateChannel(events) ==
  /\ interest' = events
  /\ index' = IF index = "kAdded" /\ events = {} THEN "kDeleted" ELSE "kAdded"

\* Channel::remove, Epoll::removeChannel
RemoveChannel == index' = "kNew"

IsWriting == "write" \in interest

-----------------------------------------------------------------------------
(* What the handlers do                                                    *)

\* Mutant: the write side is closed although output is buffered.
ShutdownInLoop_Now(writing) == fin' = TRUE

\* shutdownInLoop, given whether the channel is writing
ShutdownInLoop(writing) == fin' = (fin \/ ~writing)

\* TcpServer::removeConnection, and in the same loop removeConnectionInLoop.
RemoveConnection ==
  /\ misuse' = IF owner THEN misuse ELSE "owner"
  /\ IF sameLoop
     THEN /\ owned' = FALSE
          /\ pending' = Append(pending, "destroyed")
          /\ UNCHANGED base
     ELSE /\ base' = Append(base, "remove")
          /\ UNCHANGED <<owned, pending>>

\* handleClose, with the connection callback and the close callback
HandleClose ==
  /\ state' = "kDisconnected"
  /\ UpdateChannel({})
  /\ downs' = downs + 1
  /\ closes' = closes + 1
  /\ RemoveConnection

\* Mutant: the direct write is tried although output is buffered.
CanWriteDirectly_Always == TRUE

CanWriteDirectly == ~IsWriting /\ out = <<>>

Bytes(n) == [i \in 1..n |-> accepted + i]

\* The write of n bytes to the socket: how many it takes, or -1 for EPIPE
\* and ECONNRESET.  EWOULDBLOCK and other errors count as 0 bytes.
WriteResults(n) ==
  IF fin \/ peer \in {"rst", "dead"} THEN {-1} ELSE 0..n

\* sendInLoop of a message of n bytes, given the state the connection is in
SendInLoop(n) ==
  IF state = "kDisconnected"
  THEN UNCHANGED <<out, accepted, wire, failed, index, interest, pending>>
  ELSE
  /\ accepted' = accepted + n
  /\ \E r \in IF CanWriteDirectly THEN WriteResults(n) ELSE {0} :
       IF r = -1
       THEN failed' = TRUE /\ UNCHANGED <<out, wire, index, interest, pending>>
       ELSE LET rest == SubSeq(Bytes(n), r + 1, n)
                high == /\ Len(out) + Len(rest) >= HighWater
                        /\ Len(out) < HighWater
            IN  /\ wire' = wire \o SubSeq(Bytes(n), 1, r)
                /\ out' = out \o rest
                /\ UNCHANGED failed
                /\ pending' = pending
                     \o (IF rest = <<>> THEN <<"writeComplete">> ELSE <<>>)
                     \o (IF rest # <<>> /\ high THEN <<"highWater">> ELSE <<>>)
                /\ IF rest # <<>> /\ ~IsWriting
                   THEN UpdateChannel(interest \cup {"write"})
                   ELSE UNCHANGED <<index, interest>>

-----------------------------------------------------------------------------
(* handleEvent: close, error, read and write callbacks, in that order      *)

Registered == index = "kAdded"

\* epoll_wait: HUP and ERR are reported whatever the channel's interest is.
Ready ==
  (IF "read" \in interest /\ (peer # "open" \/ reads < MaxReads) THEN {"in"} ELSE {})
  \cup (IF "write" \in interest THEN {"out"} ELSE {})
  \cup (IF peer \in {"rst", "dead"} \/ (peer = "fin" /\ fin) THEN {"hup"} ELSE {})
  \cup (IF peer = "rst" THEN {"err"} ELSE {})

\* What epoll_wait must report; data and room for output come when they come.
MustReport ==
  IF Registered THEN Ready \ (IF peer = "open" THEN {"in", "out"} ELSE {"out"})
  ELSE {}

PollEvent ==
  /\ lpc = "poll"
  /\ Registered
  /\ \E events \in SUBSET Ready \ {{}} :
       MustReport \subseteq events /\ revents' = events
  /\ lpc' = "event"
  /\ UNCHANGED <<connVars, dataVars, peer, queueVars, ownerVars, delayed,
                 userVars, limits, callbacks, misuse, upset, sameLoop>>

EventClose ==
  /\ lpc = "event"
  /\ "hup" \in revents
  /\ IF "in" \notin revents
     THEN HandleClose
     ELSE UNCHANGED <<connVars, pending, base, owned, downs, closes, misuse>>
  /\ revents' = revents \ {"hup"}
  /\ UNCHANGED <<dataVars, peer, lpc, batch, held, owner, quit, delayed,
                 userVars, limits, ups, destroys, upset, sameLoop>>

\* handleError reads, and so clears, the socket's error.
EventError ==
  /\ lpc = "event"
  /\ "hup" \notin revents
  /\ "err" \in revents
  /\ peer' = "dead"
  /\ revents' = revents \ {"err"}
  /\ UNCHANGED <<connVars, dataVars, lpc, queueVars, ownerVars, delayed,
                 userVars, limits, callbacks, misuse, upset, sameLoop>>

ReadEvent ==
  /\ lpc = "event"
  /\ revents \cap {"hup", "err"} = {}
  /\ "in" \in revents
  /\ revents' = revents \ {"in"}

\* handleRead, n > 0: the message callback is called ...
ReadData ==
  /\ ReadEvent
  /\ peer \in {"open", "fin"}
  /\ reads < MaxReads
  /\ reads' = reads + 1
  /\ lpc' = "message"
  /\ UNCHANGED <<connVars, dataVars, peer, queueVars, ownerVars, delayed,
                 userVars, ops, callbacks, misuse, upset, sameLoop>>

\* ... and returns.
MessageReturns ==
  /\ lpc = "message"
  /\ lpc' = "event"
  /\ UNCHANGED <<connVars, dataVars, peer, revents, queueVars, ownerVars,
                 delayed, userVars, limits, callbacks, misuse,
                 upset, sameLoop>>

\* n = 0
ReadEof ==
  /\ ReadEvent
  /\ peer \in {"fin", "dead"}
  /\ HandleClose
  /\ UNCHANGED <<dataVars, peer, lpc, batch, held, owner, quit, delayed,
                 userVars, limits, ups, destroys, upset, sameLoop>>

\* n < 0: the error is logged.
ReadError ==
  /\ ReadEvent
  /\ peer \in {"open", "rst"}
  /\ peer' = IF peer = "rst" THEN "dead" ELSE peer
  /\ UNCHANGED <<connVars, dataVars, lpc, queueVars, ownerVars, delayed,
                 userVars, limits, callbacks, misuse, upset, sameLoop>>

\* handleWrite: a write that fails gives -1, and retrieve(-1) takes it all.
EventWrite ==
  /\ lpc = "event"
  /\ revents = {"out"}
  /\ revents' = {}
  /\ IF ~IsWriting
     THEN UNCHANGED <<index, interest, out, wire, failed, fin, pending>>
     ELSE \E r \in IF peer \in {"rst", "dead"} THEN {-1}
              ELSE (1..Len(out)) \cup {-1} :
       LET rest == IF r = -1 THEN <<>> ELSE SubSeq(out, r + 1, Len(out))
       IN  /\ out' = rest
           /\ wire' = IF r = -1 THEN wire ELSE wire \o SubSeq(out, 1, r)
           /\ failed' = (failed \/ r = -1)
           /\ IF rest # <<>>
              THEN UNCHANGED <<index, interest, fin, pending>>
              ELSE /\ UpdateChannel(interest \ {"write"})
                   /\ pending' = Append(pending, "writeComplete")
                   /\ IF state = "kDisconnecting" THEN ShutdownInLoop(FALSE)
                      ELSE UNCHANGED fin
  /\ UNCHANGED <<state, accepted, peer, lpc, batch, held, ownerVars, delayed,
                 userVars, limits, callbacks, misuse, upset, sameLoop>>

-----------------------------------------------------------------------------
(* The loop's functors                                                     *)

StartFunctors ==
  /\ \/ lpc = "poll" /\ MustReport = {}
     \/ lpc = "event" /\ revents = {}
  /\ lpc' = "functors"
  /\ revents' = {}
  /\ batch' = pending
  /\ pending' = <<>>
  /\ UNCHANGED <<connVars, dataVars, peer, held, ownerVars, delayed, userVars,
                 limits, callbacks, misuse, upset, sameLoop>>

\* The batch is done and while (!m_quit) goes on ...
FunctorsDone ==
  /\ lpc = "functors"
  /\ batch = <<>>
  /\ ~quit
  /\ lpc' = "poll"
  /\ held' = FALSE
  /\ UNCHANGED <<connVars, dataVars, peer, revents, pending, batch, ownerVars,
                 delayed, userVars, limits, callbacks, misuse,
                 upset, sameLoop>>

\* ... or ends: the loop is destroyed, with its timers and the functors that
\* were queued after its last swap.
LoopEnds ==
  /\ lpc = "functors"
  /\ batch = <<>>
  /\ quit
  /\ lpc' = "gone"
  /\ pending' = <<>>
  /\ held' = FALSE
  /\ delayed' = FALSE
  /\ Note("abandoned", destroys = 0)
  /\ UNCHANGED <<connVars, dataVars, peer, revents, batch, ownerVars, userVars,
                 limits, callbacks, misuse, sameLoop>>

Take(f) ==
  /\ lpc = "functors"
  /\ batch # <<>>
  /\ Head(batch) = f
  /\ batch' = Tail(batch)
  /\ held' = (held \/ f \in Shared)

Run(f) == Alive /\ Take(f)

ConnectEstablished ==
  /\ Run("established")
  /\ state' = "kConnected"
  /\ UpdateChannel(interest \cup {"read"})
  /\ ups' = ups + 1
  /\ uref' = [u \in Users |-> TRUE]
  /\ UNCHANGED <<dataVars, peer, loopVars, pending, ownerVars, delayed, upc,
                 limits, downs, closes, destroys, misuse, upset, sameLoop>>

\* Mutant: the callback is called whatever the state is.
DestroyConnection_Always ==
  /\ state' = "kDisconnected"
  /\ interest' = {}
  /\ downs' = downs + 1
  /\ RemoveChannel
  /\ destroys' = destroys + 1
  /\ Note("dropped", state = "kDisconnecting" /\ closes = 0)

\* Mutant: the channel is not removed.
DestroyConnection_NoRemove ==
  /\ IF state = "kConnected"
     THEN state' = "kDisconnected" /\ interest' = {} /\ downs' = downs + 1
     ELSE UNCHANGED <<state, interest, downs>>
  /\ UNCHANGED index
  /\ destroys' = destroys + 1
  /\ Note("dropped", state = "kDisconnecting" /\ closes = 0)

\* connectDestroyed: disableAll and remove leave the channel unregistered.
DestroyConnection ==
  /\ IF state = "kConnected"
     THEN state' = "kDisconnected" /\ interest' = {} /\ downs' = downs + 1
     ELSE UNCHANGED <<state, interest, downs>>
  /\ RemoveChannel
  /\ destroys' = destroys + 1
  /\ Note("dropped", state = "kDisconnecting" /\ closes = 0)

ConnectDestroyed ==
  /\ Run("destroyed")
  /\ DestroyConnection
  /\ UNCHANGED <<dataVars, peer, loopVars, pending, ownerVars, delayed,
                 userVars, limits, ups, closes, misuse, sameLoop>>

\* forceCloseInLoop
ForceCloseInLoop ==
  /\ Run("forceClose")
  /\ IF state \in {"kConnected", "kDisconnecting"}
     THEN HandleClose
     ELSE UNCHANGED <<connVars, pending, base, owned, downs, closes, misuse>>
  /\ UNCHANGED <<dataVars, peer, loopVars, owner, quit, delayed, userVars,
                 limits, ups, destroys, upset, sameLoop>>

\* The write-complete and high-water callbacks
UserFunctor ==
  /\ Run("writeComplete") \/ Run("highWater")
  /\ UNCHANGED <<connVars, dataVars, peer, loopVars, pending, ownerVars,
                 delayed, userVars, limits, callbacks, misuse,
                 upset, sameLoop>>

\* A functor with a raw this, when the connection is gone
RunFreed ==
  /\ ~Alive
  /\ \E f \in Functors : Take(f)
  /\ misuse' = "freed"
  /\ UNCHANGED <<connVars, dataVars, peer, loopVars, pending, ownerVars,
                 delayed, userVars, limits, callbacks, upset, sameLoop>>

RunSend ==
  /\ Run("send")
  /\ SendInLoop(2)
  /\ UNCHANGED <<state, fin, peer, loopVars, ownerVars, delayed, userVars,
                 limits, callbacks, misuse, upset, sameLoop>>

RunShutdown ==
  /\ Run("shutdown")
  /\ ShutdownInLoop(IsWriting)
  /\ UNCHANGED <<connVars, out, accepted, wire, failed, peer, loopVars, pending,
                 ownerVars, delayed, userVars, limits, callbacks, misuse,
                 upset, sameLoop>>

\* startReadInLoop; m_reading is true from the constructor on.
RunStartRead ==
  /\ Run("startRead")
  /\ IF "read" \in interest THEN UNCHANGED <<index, interest>>
     ELSE UpdateChannel(interest \cup {"read"})
  /\ Note("reenabled", state = "kDisconnected")
  /\ UNCHANGED <<state, dataVars, peer, loopVars, pending, ownerVars, delayed,
                 userVars, limits, callbacks, misuse, sameLoop>>

\* stopReadInLoop calls runInLoop(stopReadInLoop), which in the loop's thread
\* is a call of stopReadInLoop: the stack overflows.
RunStopRead ==
  /\ Run("stopRead")
  /\ lpc' = "overflow"
  /\ UNCHANGED <<connVars, dataVars, peer, revents, pending, ownerVars, delayed,
                 userVars, limits, callbacks, misuse, upset, sameLoop>>

RunFunctor ==
  \/ ConnectEstablished \/ ConnectDestroyed \/ ForceCloseInLoop \/ UserFunctor
  \/ RunFreed \/ RunSend \/ RunShutdown \/ RunStartRead \/ RunStopRead

-----------------------------------------------------------------------------
(* Calls made by the message callback                                      *)

LoopSend ==
  /\ lpc = "message" /\ Op
  /\ state = "kConnected"
  /\ SendInLoop(2)
  /\ UNCHANGED <<state, fin, peer, loopVars, batch, held, ownerVars, delayed,
                 userVars, reads, callbacks, misuse, upset, sameLoop>>

LoopShutdown ==
  /\ lpc = "message" /\ Op
  /\ state = "kConnected"
  /\ state' = "kDisconnecting"
  /\ ShutdownInLoop(IsWriting)
  /\ UNCHANGED <<index, interest, out, accepted, wire, failed, peer, loopVars,
                 queueVars, ownerVars, delayed, userVars, reads, callbacks, misuse,
                 upset, sameLoop>>

LoopForceClose ==
  /\ lpc = "message" /\ Op
  /\ state \in {"kConnected", "kDisconnecting"}
  /\ state' = "kDisconnecting"
  /\ pending' = Append(pending, "forceClose")
  /\ UNCHANGED <<index, interest, dataVars, peer, loopVars, batch, held,
                 ownerVars, delayed, userVars, reads, callbacks, misuse,
                 upset, sameLoop>>

\* forceCloseWithDelay
LoopForceCloseWithDelay ==
  /\ lpc = "message" /\ Op
  /\ state \in {"kConnected", "kDisconnecting"}
  /\ state' = "kDisconnecting"
  /\ delayed' = TRUE
  /\ UNCHANGED <<index, interest, dataVars, peer, loopVars, queueVars,
                 ownerVars, userVars, reads, callbacks, misuse,
                 upset, sameLoop>>

\* Its timer: forceClose, if the connection still exists
DelayOver ==
  /\ lpc = "poll"
  /\ delayed
  /\ delayed' = FALSE
  /\ IF Alive /\ state \in {"kConnected", "kDisconnecting"}
     THEN state' = "kDisconnecting" /\ pending' = Append(pending, "forceClose")
     ELSE UNCHANGED <<state, pending>>
  /\ UNCHANGED <<index, interest, dataVars, peer, loopVars, batch, held,
                 ownerVars, userVars, limits, callbacks, misuse,
                 upset, sameLoop>>

LoopStopRead ==
  /\ lpc = "message" /\ Op
  /\ lpc' = "overflow"
  /\ UNCHANGED <<connVars, dataVars, peer, revents, queueVars, ownerVars,
                 delayed, userVars, reads, callbacks, misuse, upset, sameLoop>>

LoopUser ==
  \/ LoopSend \/ LoopShutdown \/ LoopForceClose \/ LoopForceCloseWithDelay
  \/ LoopStopRead

-----------------------------------------------------------------------------
(* Calls made by other threads: the test of m_state, its assignment, and   *)
(* the functor are three steps.                                            *)

UserTests(u) ==
  /\ uref[u] /\ upc[u] = "idle" /\ Op
  /\ \E op \in {"send", "shutdown", "forceClose", "startRead", "stopRead"} :
       /\ state \in CASE op \in {"startRead", "stopRead"} -> States
                      [] op = "forceClose" -> {"kConnected", "kDisconnecting"}
                      [] OTHER -> {"kConnected"}
       /\ upc' = [upc EXCEPT ![u] = op]
  /\ UNCHANGED <<connVars, dataVars, peer, loopVars, queueVars, ownerVars,
                 delayed, uref, reads, callbacks, misuse, upset, sameLoop>>

UserSetsState(u) ==
  /\ \/ /\ upc[u] = "shutdown"
        /\ upc' = [upc EXCEPT ![u] = "shutdownPush"]
     \/ /\ upc[u] = "forceClose"
        /\ upc' = [upc EXCEPT ![u] = "forceClosePush"]
  /\ state' = "kDisconnecting"
  /\ Note("revived", state = "kDisconnected")
  /\ UNCHANGED <<index, interest, dataVars, peer, loopVars, queueVars,
                 ownerVars, delayed, uref, limits, callbacks, misuse, sameLoop>>

\* m_eventLoop is a raw pointer, and the loop may be gone.
UserPushes(u) ==
  /\ upc[u] \notin {"idle", "shutdown", "forceClose"}
  /\ IF lpc = "gone"
     THEN misuse' = "loop" /\ UNCHANGED pending
     ELSE /\ pending' =
               Append(pending, CASE upc[u] = "shutdownPush" -> "shutdown"
                                 [] upc[u] = "forceClosePush" -> "forceClose"
                                 [] OTHER -> upc[u])
          /\ UNCHANGED misuse
  /\ upc' = [upc EXCEPT ![u] = "idle"]
  /\ UNCHANGED <<connVars, dataVars, peer, loopVars, batch, held, ownerVars,
                 delayed, uref, limits, callbacks, upset, sameLoop>>

\* The user drops its TcpConnectionPtr.
UserReleases(u) ==
  /\ uref[u] /\ upc[u] = "idle"
  /\ uref' = [uref EXCEPT ![u] = FALSE]
  /\ UNCHANGED <<connVars, dataVars, peer, loopVars, queueVars, ownerVars,
                 delayed, upc, limits, callbacks, misuse, upset, sameLoop>>

User(u) == UserTests(u) \/ UserSetsState(u) \/ UserPushes(u) \/ UserReleases(u)

-----------------------------------------------------------------------------
(* The owner and the peer                                                  *)

\* While ~TcpServer waits in join, the owner's loop runs nothing.
OwnerLoopFree == owner \/ lpc = "gone"

\* Mutant: connectDestroyed is not queued.
RemoveConnectionInLoop_NoDestroy ==
  /\ base # <<>> /\ OwnerLoopFree
  /\ base' = Tail(base)
  /\ misuse' = IF owner THEN misuse ELSE "owner"
  /\ owned' = FALSE
  /\ UNCHANGED <<connVars, dataVars, peer, loopVars, queueVars, owner, quit,
                 delayed, userVars, limits, callbacks, upset, sameLoop>>

\* removeConnectionInLoop, run by the owner's loop.  Without the owner, its
\* map and the io loop are gone too.
RemoveConnectionInLoop ==
  /\ base # <<>> /\ OwnerLoopFree
  /\ base' = Tail(base)
  /\ misuse' = IF owner THEN misuse ELSE "owner"
  /\ owned' = FALSE
  /\ pending' = IF owner THEN Append(pending, "destroyed") ELSE pending
  /\ UNCHANGED <<connVars, dataVars, peer, loopVars, batch, held, owner, quit,
                 delayed, userVars, limits, callbacks, upset, sameLoop>>

\* ~TcpServer, in the owner's loop: runInLoop(connectDestroyed)
OwnerDestroyed ==
  /\ owner
  /\ owner' = FALSE
  /\ owned' = FALSE
  /\ IF ~owned THEN UNCHANGED <<connVars, pending, downs, destroys, upset>>
     ELSE IF sameLoop
          THEN DestroyConnection /\ UNCHANGED pending
          ELSE /\ pending' = Append(pending, "destroyed")
               /\ UNCHANGED <<connVars, downs, destroys, upset>>
  /\ sameLoop => lpc = "functors"
  /\ UNCHANGED <<dataVars, peer, loopVars, batch, held, base, quit, delayed,
                 userVars, limits, ups, closes, misuse, sameLoop>>

\* Its members are destroyed: ~EventLoopThread quits the io loop, which need
\* not wake for it (EventLoop::quit), and waits until LoopEnds.
OwnerQuitsLoop ==
  /\ ~owner /\ ~sameLoop
  /\ ~quit
  /\ quit' = TRUE
  /\ UNCHANGED <<connVars, dataVars, peer, loopVars, queueVars, base, owned,
                 owner, delayed, userVars, limits, callbacks, misuse, upset,
                 sameLoop>>

PeerCloses ==
  /\ peer = "open" /\ ups > 0
  /\ peer' \in {"fin", "rst"}
  /\ UNCHANGED <<connVars, dataVars, loopVars, queueVars, ownerVars, delayed,
                 userVars, limits, callbacks, misuse, upset, sameLoop>>

-----------------------------------------------------------------------------

Loop ==
  \/ EventClose \/ EventError \/ ReadData \/ MessageReturns \/ ReadEof
  \/ ReadError \/ EventWrite \/ StartFunctors \/ FunctorsDone \/ LoopEnds
  \/ RunFunctor

Next ==
  \/ PollEvent \/ Loop \/ LoopUser \/ DelayOver
  \/ \E u \in Users : User(u)
  \/ RemoveConnectionInLoop \/ OwnerDestroyed \/ OwnerQuitsLoop \/ PeerCloses

Spec == Init /\ [][Next]_vars

(***************************************************************************)
(* Both loops run, until ~TcpServer quits the io loop, and a thread inside *)
(* a call goes on.  Nobody has to call anything, the peer need not close,  *)
(* the server need not be destroyed, and room for output may never come.   *)
(***************************************************************************)
FairSpec ==
  /\ Spec
  /\ WF_vars((Loop \/ (PollEvent /\ MustReport # {})))
  /\ WF_vars(RemoveConnectionInLoop)
  /\ \A u \in Users : WF_vars((UserSetsState(u) \/ UserPushes(u)))

-----------------------------------------------------------------------------
(* Properties.  stopRead overflows the stack (lpc is "overflow" for ever), *)
(* and a raw pointer may outlive its connection, server or loop (misuse);  *)
(* the properties say what holds besides.                                  *)

(***************************************************************************)
(* sendInLoop and handleWrite between them put the bytes on the wire once  *)
(* each and in the order in which they were accepted, whichever threads    *)
(* call send, unless a write to the socket fails.                          *)
(***************************************************************************)
InOrder == failed \/ wire \o out = [i \in 1..accepted |-> i]

(***************************************************************************)
(* shutdown closes the write side only when the output buffer is empty: in *)
(* shutdownInLoop if nothing is being written, else when handleWrite has   *)
(* written the last byte.  A connection that was closed drops its output.  *)
(***************************************************************************)
FinAfterOutput == fin /\ closes + destroys = 0 => out = <<>>

(***************************************************************************)
(* send and shutdown together: what the peer sees is the accepted bytes in *)
(* order and, if it sees the end of the stream, nothing is left behind it. *)
(***************************************************************************)
OutputThenFin == InOrder /\ FinAfterOutput

(***************************************************************************)
(* The users' connection callback reports one "up" and then at most one    *)
(* "down", and a connection that is gone has reported both.  Excepted are  *)
(* the four Upsets: the races on m_state and startRead, connectDestroyed   *)
(* in kDisconnecting, which says nothing, and an io loop that ~TcpServer   *)
(* quits before it has run connectDestroyed (TcpServer.cpp:44).            *)
(***************************************************************************)
UpThenDown ==
  \/ upset # {} \/ misuse # "none"
  \/ /\ downs <= ups /\ ups <= 1
     /\ ~Alive => downs = 1

(***************************************************************************)
(* The assertion of ~Channel that the channel is no longer in the loop     *)
(* (Channel.cpp:44): while epoll holds the pointer, the connection exists. *)
(* It fails when the loop is destroyed with connectDestroyed unrun         *)
(* (abandoned).  A closed channel comes back to epoll only by startRead    *)
(* (reenabled), or by output of a connection that is revived or dropped.   *)
(***************************************************************************)
RegisteredMeansAlive == index # "kNew" => Alive \/ upset # {}

(***************************************************************************)
(* When the peer closes or resets, the connection is taken out of the      *)
(* owner's map and connectDestroyed runs, or else the stack overflows in   *)
(* stopRead or ~TcpServer ends the io loop before it gets there.           *)
(***************************************************************************)
CloseCompletes ==
  (peer # "open") ~>
     (~owned /\ destroys > 0) \/ lpc = "overflow" \/ "abandoned" \in upset
=============================================================================
