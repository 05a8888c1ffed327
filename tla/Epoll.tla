------------------------------- MODULE Epoll -------------------------------
(***************************************************************************)
(* youth/net/Epoll and youth/net/Channel, with the part of EventLoop::loop *)
(* that polls and dispatches: several channels in one loop, the map of the *)
(* channels, and the interest list of the kernel, which keeps a raw        *)
(* pointer to a channel for each descriptor.                               *)
(*                                                                         *)
(* The owners of channels (connections, connectors, acceptors) are there   *)
(* as they use them: a channel is made for an open descriptor that has no  *)
(* other channel in use, and is updated and removed in the loop's thread.  *)
(* While channels are dispatched, one whose turn is still to come is not   *)
(* removed (the assertion in EventLoop::removeChannel).  It is freed after *)
(* it was removed, and not by its own callback; the descriptor is then     *)
(* closed, or gets another channel, as when a connector is connected.      *)
(* An owner may update a channel that it has removed, as handleWrite of    *)
(* Connector does after handleError, and startReadInLoop of TcpConnection  *)
(* after connectDestroyed.  Here that is recorded, and is the last step:   *)
(* what comes of it is in TcpClient and TcpConnection.                     *)
(* A member of Channels is an address, which may be given again.           *)
(***************************************************************************)
EXTENDS Integers, FiniteSets

CONSTANTS
  Channels,           \* addresses of channels
  Fds,                \* descriptors
  Conditions,         \* what may be true of a descriptor
  kInitEventListSize  \* events that the first epoll_wait can return

NoChannel == "no channel"

ASSUME EpollAssumption ==
  /\ NoChannel \notin Channels
  /\ Conditions \subseteq {"in", "out", "hup", "err"}
  /\ kInitEventListSize \in Nat \ {0}

kNew == -1
kAdded == 1
kDeleted == 2

VARIABLES
  chan,          \* per address: the channel there
  m_channelMap,  \* per descriptor: a channel, or none
  kernel,        \* per descriptor: its entry in the interest list
  open,          \* the descriptors that are open
  level,         \* per descriptor: what is true of it
  m_eventVec,    \* the size of the vector
  m_active,      \* channels of the batch whose turn is still to come
  current,       \* m_currentActiveChannel
  callbacks,     \* what handleEventWithGuard has still to call
  epc,           \* where the loop is: "poll", "dispatch" or "functors"
  fatal,         \* a LOG_FATAL has ended the process
  late           \* a channel was updated after it was removed

epollVars == <<chan, m_channelMap, kernel, open, level, m_eventVec, m_active, current,
               callbacks, epc, fatal, late>>

Interest == SUBSET {"in", "out"}
Absent == [ptr |-> NoChannel, events |-> {}]
NoFd == -1
Made(fd) == [phase |-> "used", fd |-> fd, index |-> kNew, events |-> {}, revents |-> {}]
Freed == [Made(NoFd) EXCEPT !.phase = "free"]

InUse == {c \in Channels : chan[c].phase = "used"}

EpollTypeOK ==
  /\ chan \in [Channels -> [phase : {"free", "used", "removed"}, fd : Fds \cup {NoFd},
                            index : {kNew, kAdded, kDeleted}, events : Interest,
                            revents : SUBSET Conditions]]
  /\ m_channelMap \in [Fds -> Channels \cup {NoChannel}]
  /\ kernel \in [Fds -> [ptr : Channels \cup {NoChannel}, events : Interest]]
  /\ open \subseteq Fds
  /\ level \in [Fds -> SUBSET Conditions]
  /\ m_eventVec \in Nat \ {0}
  /\ m_active \subseteq Channels
  /\ current \in Channels \cup {NoChannel}
  /\ callbacks \subseteq {"close", "error", "read", "write"}
  /\ epc \in {"poll", "dispatch", "functors"}
  /\ fatal \in BOOLEAN
  /\ late \in BOOLEAN

EpollInit ==
  /\ chan = [c \in Channels |-> Freed]
  /\ m_channelMap = [fd \in Fds |-> NoChannel]
  /\ kernel = [fd \in Fds |-> Absent]
  /\ open = {}
  /\ level = [fd \in Fds |-> {}]
  /\ m_eventVec = kInitEventListSize
  /\ m_active = {} /\ current = NoChannel /\ callbacks = {}
  /\ epc = "functors"
  /\ fatal = FALSE
  /\ late = FALSE

\* Callbacks and functors run in the loop's thread.
InCallback == epc = "functors" \/ current # NoChannel

(***************************************************************************)
(* Epoll::update and epoll_ctl                                             *)
(***************************************************************************)

\* epoll_ctl succeeds.
CtlWorks(op, fd) == fd \in open /\ (op = "ADD" <=> kernel[fd] = Absent)

\* Epoll::update: an ADD or MOD that fails is LOG_FATAL.
update(op, c, events) ==
  LET fd == chan[c].fd
  IN  /\ fatal' = (fatal \/ (op # "DEL" /\ ~ CtlWorks(op, fd)))
      /\ kernel' = IF ~ CtlWorks(op, fd) THEN kernel
                   ELSE [kernel EXCEPT ![fd] =
                           IF op = "DEL" THEN Absent ELSE [ptr |-> c, events |-> events]]

\* Epoll::updateChannel, for a channel whose interest is now events
updateChannel(c, events) ==
  LET fd == chan[c].fd
      index == chan[c].index
      op == IF index # kAdded THEN "ADD" ELSE IF events = {} THEN "DEL" ELSE "MOD"
  IN  /\ m_channelMap' = IF index = kNew THEN [m_channelMap EXCEPT ![fd] = c]
                         ELSE m_channelMap
      /\ chan' = [chan EXCEPT ![c].events = events,
                              ![c].index = IF op = "DEL" THEN kDeleted ELSE kAdded]
      /\ update(op, c, events)

\* Mutant: a channel that is in the kernel's list stays there.
removeChannel_NoDel(c) ==
  /\ m_channelMap' = [m_channelMap EXCEPT ![chan[c].fd] = NoChannel]
  /\ UNCHANGED <<kernel, fatal>>
  /\ chan' = [chan EXCEPT ![c].index = kNew, ![c].phase = "removed"]

\* Epoll::removeChannel
removeChannel(c) ==
  /\ m_channelMap' = [m_channelMap EXCEPT ![chan[c].fd] = NoChannel]
  /\ IF chan[c].index = kAdded THEN update("DEL", c, {}) ELSE UNCHANGED <<kernel, fatal>>
  /\ chan' = [chan EXCEPT ![c].index = kNew, ![c].phase = "removed"]

(***************************************************************************)
(* What the owners of channels do                                          *)
(***************************************************************************)

\* A channel is made, in any thread, for a descriptor just opened or for one
\* taken over.
NewChannel(c, fd) ==
  /\ chan[c].phase = "free"
  /\ \A d \in InUse : chan[d].fd # fd
  /\ chan' = [chan EXCEPT ![c] = Made(fd)]
  /\ open' = open \cup {fd}
  /\ UNCHANGED <<m_channelMap, kernel, level, m_eventVec, m_active, current, callbacks,
                 epc, fatal, late>>

\* enableReading, disableWriting, disableAll and their like, by an owner that
\* need not remember that it has removed the channel
SetEvents(c, events) ==
  /\ InCallback /\ chan[c].phase # "free"
  /\ late' = (chan[c].phase = "removed")
  /\ updateChannel(c, events)
  /\ UNCHANGED <<open, level, m_eventVec, m_active, current, callbacks, epc>>

\* Channel::remove of a channel that was updated before
Remove(c) ==
  /\ InCallback /\ c \in InUse /\ c \notin m_active
  /\ chan[c].index # kNew
  /\ removeChannel(c)
  /\ UNCHANGED <<open, level, m_eventVec, m_active, current, callbacks, epc, late>>

\* A removed channel is freed, by a functor or with the last reference to its
\* owner in any thread.
FreeChannel(c) ==
  /\ chan[c].phase = "removed" /\ c # current
  /\ chan' = [chan EXCEPT ![c] = Freed]
  /\ UNCHANGED <<m_channelMap, kernel, open, level, m_eventVec, m_active, current,
                 callbacks, epc, fatal, late>>

\* A descriptor without a channel in use is closed; the kernel forgets it.
CloseFd(fd) ==
  /\ fd \in open /\ \A d \in InUse : chan[d].fd # fd
  /\ open' = open \ {fd}
  /\ kernel' = [kernel EXCEPT ![fd] = Absent]
  /\ level' = [level EXCEPT ![fd] = {}]
  /\ UNCHANGED <<chan, m_channelMap, m_eventVec, m_active, current, callbacks, epc, fatal, late>>

\* Something happens at a descriptor.
Happens(fd, x) ==
  /\ fd \in open /\ x \notin level[fd]
  /\ level' = [level EXCEPT ![fd] = @ \cup {x}]
  /\ UNCHANGED <<chan, m_channelMap, kernel, open, m_eventVec, m_active, current,
                 callbacks, epc, fatal, late>>

(***************************************************************************)
(* EventLoop::loop                                                         *)
(***************************************************************************)

\* What epoll_wait has to tell of a descriptor: errors are told unasked.
Reported(fd) ==
  IF kernel[fd] = Absent THEN {} ELSE level[fd] \cap (kernel[fd].events \cup {"hup", "err"})

Ready == {fd \in Fds : Reported(fd) # {}}

Told(size) ==
  {s \in SUBSET Ready : Cardinality(s) = size \/ (s = Ready /\ Cardinality(s) < size)}

\* Mutant: the vector keeps its size.
Grown_Never(n) == m_eventVec

\* The vector after n events
Grown(n) == IF n = m_eventVec THEN 2 * m_eventVec ELSE m_eventVec

\* Epoll::poll and fillActiveChannels; the kernel chooses what is told first.
Poll ==
  /\ epc = "poll"
  /\ \E s \in Told(m_eventVec) :
       LET ptrs == {kernel[fd].ptr : fd \in s}
       IN  /\ m_active' = ptrs
           /\ chan' = [c \in Channels |-> IF c \in ptrs
                         THEN [chan[c] EXCEPT !.revents = Reported(chan[c].fd)] ELSE chan[c]]
           /\ m_eventVec' = Grown(Cardinality(s))
  /\ epc' = "dispatch"
  /\ UNCHANGED <<m_channelMap, kernel, open, level, current, callbacks, fatal, late>>

\* handleEventWithGuard: the callbacks that the events ask for
CallbacksFor(revents) ==
  {x \in {"close", "error", "read", "write"} :
     CASE x = "close" -> "hup" \in revents /\ "in" \notin revents
       [] x = "error" -> "err" \in revents
       [] x = "read"  -> "in" \in revents
       [] x = "write" -> "out" \in revents}

\* The turn of a channel: Channel::handleEvent.  Its events are not looked at
\* after it.
HandleEvent(c) ==
  /\ epc = "dispatch" /\ current = NoChannel /\ c \in m_active
  /\ current' = c /\ m_active' = m_active \ {c}
  /\ callbacks' = CallbacksFor(chan[c].revents)
  /\ chan' = [chan EXCEPT ![c].revents = {}]
  /\ UNCHANGED <<m_channelMap, kernel, open, level, m_eventVec, epc, fatal, late>>

\* In the order of the code
Before(x) ==
  CASE x = "close" -> {}
    [] x = "error" -> {"close"}
    [] x = "read"  -> {"close", "error"}
    [] x = "write" -> {"close", "error", "read"}

\* A callback; the one for reading takes what is there.  What else it does
\* are steps of the owners.
Callback(x) ==
  /\ x \in callbacks /\ callbacks \cap Before(x) = {}
  /\ callbacks' = callbacks \ {x}
  /\ level' = IF x = "read" THEN [level EXCEPT ![chan[current].fd] = @ \ {"in"}] ELSE level
  /\ UNCHANGED <<chan, m_channelMap, kernel, open, m_eventVec, m_active, current, epc, fatal, late>>

\* handleEvent returns.
Handled ==
  /\ current # NoChannel /\ callbacks = {}
  /\ current' = NoChannel
  /\ UNCHANGED <<chan, m_channelMap, kernel, open, level, m_eventVec, m_active, callbacks,
                 epc, fatal, late>>

\* The batch is done; after the functors the loop goes round.
GoOn ==
  /\ \/ epc = "dispatch" /\ m_active = {} /\ current = NoChannel /\ epc' = "functors"
     \/ epc = "functors" /\ epc' = "poll"
  /\ UNCHANGED <<chan, m_channelMap, kernel, open, level, m_eventVec, m_active, current,
                 callbacks, fatal, late>>

LoopStep ==
  \/ Poll \/ Handled \/ GoOn
  \/ \E c \in Channels : HandleEvent(c)
  \/ \E x \in {"close", "error", "read", "write"} : Callback(x)

OwnerStep ==
  \/ \E c \in Channels : \/ \E fd \in Fds : NewChannel(c, fd)
                         \/ \E events \in Interest : SetEvents(c, events)
                         \/ Remove(c) \/ FreeChannel(c)
  \/ \E fd \in Fds : CloseFd(fd)

EpollNext ==
  ~ fatal /\ ~ late /\ (LoopStep \/ OwnerStep \/ \E fd \in Fds, x \in Conditions : Happens(fd, x))

EpollSpec == EpollInit /\ [][EpollNext]_epollVars /\ WF_epollVars(~ fatal /\ ~ late /\ LoopStep)

-----------------------------------------------------------------------------
(* Properties                                                              *)

(***************************************************************************)
(* A channel, its index, the map and the kernel's list agree: an entry of  *)
(* the list has the pointer and the interest of the one channel in use for *)
(* that descriptor, so that the pointers epoll_wait returns are those of   *)
(* existing channels, and remain so until it is their turn; and epoll_ctl  *)
(* does not fail, which would be LOG_FATAL.                                *)
(***************************************************************************)
Agree ==
  /\ ~ fatal
  /\ \A fd \in Fds : kernel[fd] # Absent =>
       LET c == kernel[fd].ptr
       IN  c \in InUse /\ chan[c].fd = fd /\ chan[c].index = kAdded
  /\ \A c \in InUse :
       /\ chan[c].index = kAdded => kernel[chan[c].fd] = [ptr |-> c, events |-> chan[c].events]
       /\ chan[c].index # kNew <=> m_channelMap[chan[c].fd] = c
  /\ m_active \subseteq InUse

(***************************************************************************)
(* Epoll and Channel: channels, map and kernel agree, with descriptors and *)
(* addresses that are given again, and in whatever order callbacks and     *)
(* functors make, update, remove and free channels; except once a channel  *)
(* was updated after its removal, which registers it again, or ends the    *)
(* process if its descriptor is closed or has another channel.             *)
(***************************************************************************)
ChannelsAgree == late \/ Agree

(***************************************************************************)
(* What Agree needs to be inductive: a channel in use has an open          *)
(* descriptor, which no other channel in use has, and the map has only     *)
(* channels in use, each under its own descriptor.                         *)
(***************************************************************************)
OneChannelPerFd ==
  /\ \A c \in InUse : chan[c].fd \in open
  /\ \A c, d \in InUse : chan[c].fd = chan[d].fd => c = d
  /\ \A fd \in Fds : m_channelMap[fd] # NoChannel =>
       m_channelMap[fd] \in InUse /\ chan[m_channelMap[fd]].fd = fd

\* The inductive invariant, while no removed channel was updated
EpollInv == EpollTypeOK /\ Agree /\ OneChannelPerFd

\* Data has come that a channel in use wants.
Awaited(fd) == "in" \in Reported(fd)

(***************************************************************************)
(* Epoll::poll: data that a channel wants to read is read, though epoll    *)
(* tells of no more descriptors at once than the vector has room for, in   *)
(* whatever order: a full vector is doubled until all of them fit; except  *)
(* once a channel was updated after its removal.                           *)
(***************************************************************************)
DataIsRead == \A fd \in Fds : Awaited(fd) ~> ~ Awaited(fd) \/ late
=============================================================================
