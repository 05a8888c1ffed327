----------------------------- MODULE LoopProofs -----------------------------
(***************************************************************************)
(* Machine-checked proofs about the event loop.  About Epoll, for any      *)
(* channels and descriptors: what the channels ask for, the map and the    *)
(* kernel's list agree, unless a channel is updated after its removal.     *)
(* About EventLoop, for any number of callers and functors: its inductive  *)
(* invariant, no lost wakeup, first-in first-out and exactly once, and     *)
(* that it implements Executor.  About EventLoopThread: its destructor     *)
(* goes wrong only if somebody else has quit the loop.                     *)
(***************************************************************************)
EXTENDS EventLoopThread, Epoll, TLAPS, SequenceTheorems

-----------------------------------------------------------------------------
(* Epoll                                                                   *)

\* The variables that Agree and OneChannelPerFd speak of
Registration == <<chan, m_channelMap, kernel, open, m_active, fatal>>

\* What a step of the loop or of the world outside leaves of the invariant
LEMMA RegistrationKept ==
  ASSUME Agree, OneChannelPerFd, UNCHANGED Registration
  PROVE  Agree' /\ OneChannelPerFd'
BY Zenon DEF Agree, OneChannelPerFd, Registration, InUse, Absent

\* An entry of the kernel for the descriptor of a channel in use is its own.
LEMMA OwnEntry ==
  ASSUME EpollInv, NEW c \in InUse
  PROVE  /\ c \in Channels /\ c # NoChannel
         /\ chan[c].fd \in open /\ chan[c].fd \in Fds
         /\ kernel[chan[c].fd] # Absent <=> chan[c].index = kAdded
         /\ chan[c].index \in {kNew, kAdded, kDeleted}
<1>1. c \in Channels /\ c # NoChannel BY Zenon, EpollAssumption DEF InUse
<1>2. chan[c].fd \in open /\ chan[c].fd \in Fds
  BY Zenon DEF EpollInv, EpollTypeOK, OneChannelPerFd
<1>3. chan[c].index \in {kNew, kAdded, kDeleted} BY Zenon, <1>1 DEF EpollInv, EpollTypeOK
<1>4. ASSUME chan[c].index = kAdded PROVE kernel[chan[c].fd] # Absent
  <2>1. kernel[chan[c].fd] = [ptr |-> c, events |-> chan[c].events]
    BY Zenon, <1>4 DEF EpollInv, Agree
  <2>2. kernel[chan[c].fd].ptr = c BY <2>1
  <2> QED BY <2>2, <1>1 DEF Absent
<1>5. ASSUME kernel[chan[c].fd] # Absent PROVE chan[c].index = kAdded
  BY <1>2, <1>5 DEF EpollInv, Agree, OneChannelPerFd
<1> QED BY Zenon, <1>1, <1>2, <1>3, <1>4, <1>5

\* updateChannel takes a channel out of the kernel's list.
DelFor(c, events) == chan[c].index = kAdded /\ events = {}

\* updateChannel, of a channel in use: epoll_ctl works.
LEMMA UpdateWorks ==
  ASSUME EpollInv, NEW c \in InUse, NEW events \in Interest, updateChannel(c, events)
  PROVE  /\ fatal' = FALSE
         /\ kernel' = [kernel EXCEPT ![chan[c].fd] = IF DelFor(c, events) THEN Absent
                         ELSE [ptr |-> c, events |-> events]]
         /\ m_channelMap' = [m_channelMap EXCEPT ![chan[c].fd] = c]
         /\ chan' = [chan EXCEPT ![c].events = events,
                                 ![c].index = IF DelFor(c, events) THEN kDeleted ELSE kAdded]
<1> DEFINE fd == chan[c].fd
           del == DelFor(c, events)
           op == IF chan[c].index # kAdded THEN "ADD" ELSE IF events = {} THEN "DEL" ELSE "MOD"
<1>1. CtlWorks(op, fd) BY Zenon, OwnEntry DEF CtlWorks
<1>2. op = "DEL" <=> del BY Zenon DEF DelFor
<1>3. fatal = FALSE BY Zenon DEF EpollInv, EpollTypeOK, Agree
<1>4. fatal' = FALSE /\ kernel' = [kernel EXCEPT ![fd] =
                                     IF del THEN Absent ELSE [ptr |-> c, events |-> events]]
  BY Zenon, <1>1, <1>2, <1>3 DEF updateChannel, update
<1>5. m_channelMap' = [m_channelMap EXCEPT ![fd] = c]
  <2>1. CASE chan[c].index = kNew BY Zenon, <2>1 DEF updateChannel
  <2>2. CASE chan[c].index # kNew
    <3>1. m_channelMap' = m_channelMap BY Zenon, <2>2 DEF updateChannel
    <3>2. m_channelMap[fd] = c BY Zenon, <2>2 DEF EpollInv, Agree
    <3>3. m_channelMap \in [Fds -> Channels \cup {NoChannel}] BY Zenon DEF EpollInv, EpollTypeOK
    <3> QED BY Zenon, <3>1, <3>2, <3>3, OwnEntry
  <2> QED BY Zenon, <2>1, <2>2
<1>6. chan' = [chan EXCEPT ![c].events = events,
                           ![c].index = IF del THEN kDeleted ELSE kAdded]
  BY Zenon, <1>2 DEF updateChannel
<1> QED BY Zenon, <1>4, <1>5, <1>6

\* SetEvents, of a channel that was not removed, is of one in use.
LEMMA SetsInUse ==
  ASSUME EpollInv, NEW c \in Channels, NEW events \in Interest, SetEvents(c, events), ~ late'
  PROVE  c \in InUse /\ updateChannel(c, events) /\ UNCHANGED <<open, m_active>>
<1>1. chan[c].phase \in {"free", "used", "removed"} BY Zenon DEF EpollInv, EpollTypeOK
<1>2. chan[c].phase # "free" /\ chan[c].phase # "removed" BY Zenon DEF SetEvents
<1> QED BY Zenon, <1>1, <1>2 DEF SetEvents, InUse

\* SetEvents keeps the invariant.
LEMMA SetEventsAgrees ==
  ASSUME EpollInv, NEW c \in Channels, NEW events \in Interest, SetEvents(c, events), ~ late'
  PROVE  Agree' /\ OneChannelPerFd'
<1> DEFINE fd == chan[c].fd
           del == DelFor(c, events)
<1>0. c \in InUse /\ updateChannel(c, events) /\ UNCHANGED <<open, m_active>>
  BY Zenon, SetsInUse
<1>1. /\ fatal' = FALSE
      /\ kernel' = [kernel EXCEPT ![fd] =
                      IF del THEN Absent ELSE [ptr |-> c, events |-> events]]
      /\ m_channelMap' = [m_channelMap EXCEPT ![fd] = c]
      /\ chan' = [chan EXCEPT ![c].events = events,
                              ![c].index = IF del THEN kDeleted ELSE kAdded]
  BY Zenon, <1>0, UpdateWorks
<1>2. c # NoChannel /\ fd \in open /\ fd \in Fds BY Zenon, <1>0, OwnEntry
<1>3. /\ chan \in [Channels -> [phase : {"free", "used", "removed"}, fd : Fds \cup {NoFd},
                                index : {kNew, kAdded, kDeleted}, events : Interest,
                                revents : SUBSET Conditions]]
      /\ kernel \in [Fds -> [ptr : Channels \cup {NoChannel}, events : Interest]]
      /\ m_channelMap \in [Fds -> Channels \cup {NoChannel}]
  BY Zenon DEF EpollInv, EpollTypeOK
<1>4. /\ \A d \in Channels : chan'[d].phase = chan[d].phase /\ chan'[d].fd = chan[d].fd
      /\ \A d \in Channels : d # c => chan'[d] = chan[d]
      /\ chan'[c].events = events
      /\ chan'[c].index = IF del THEN kDeleted ELSE kAdded
  BY <1>1, <1>3
<1>5. InUse' = InUse BY Zenon, <1>4 DEF InUse
<1>6. \A d \in InUse : d # c => chan[d].fd # fd BY Zenon, <1>0 DEF EpollInv, OneChannelPerFd
<1>7. \A x \in Fds : x # fd => kernel'[x] = kernel[x] /\ m_channelMap'[x] = m_channelMap[x]
  BY Zenon, <1>1, <1>3
<1>8. /\ kernel'[fd] = IF del THEN Absent ELSE [ptr |-> c, events |-> events]
      /\ m_channelMap'[fd] = c
  BY Zenon, <1>1, <1>2, <1>3
<1>9. InUse \subseteq Channels BY Zenon DEF InUse
<1>10. \A d \in InUse : chan[d].fd \in Fds BY Zenon, OwnEntry
<1>11. ASSUME NEW x \in Fds, kernel'[x] # Absent
       PROVE  kernel'[x].ptr \in InUse' /\ chan'[kernel'[x].ptr].fd = x
                /\ chan'[kernel'[x].ptr].index = kAdded
  <2>1. CASE x = fd
    <3>1. ~ del BY Zenon, <1>8, <1>11, <2>1
    <3>2. kernel'[x].ptr = c BY <1>8, <2>1, <3>1
    <3> QED BY Zenon, <1>0, <1>4, <1>5, <3>1, <3>2, <2>1
  <2>2. CASE x # fd
    <3>1. kernel'[x] = kernel[x] /\ kernel[x].ptr \in InUse /\ chan[kernel[x].ptr].fd = x
            /\ chan[kernel[x].ptr].index = kAdded
      BY Zenon, <1>7, <1>11, <2>2 DEF EpollInv, Agree
    <3> QED BY Zenon, <3>1, <2>2, <1>4, <1>5, <1>9
  <2> QED BY Zenon, <2>1, <2>2
<1>12. ASSUME NEW d \in InUse'
       PROVE  /\ chan'[d].index = kAdded =>
                   kernel'[chan'[d].fd] = [ptr |-> d, events |-> chan'[d].events]
              /\ chan'[d].index # kNew <=> m_channelMap'[chan'[d].fd] = d
  <2>1. CASE d = c
    BY <2>1, <1>0, <1>4, <1>8, <1>9 DEF kNew, kAdded, kDeleted
  <2>2. CASE d # c
    <3>1. d \in InUse /\ chan'[d] = chan[d] /\ chan[d].fd # fd /\ chan[d].fd \in Fds
      BY Zenon, <2>2, <1>4, <1>5, <1>6, <1>9, <1>10
    <3>2. /\ chan[d].index = kAdded =>
                   kernel[chan[d].fd] = [ptr |-> d, events |-> chan[d].events]
          /\ chan[d].index # kNew <=> m_channelMap[chan[d].fd] = d
      BY Zenon, <3>1 DEF EpollInv, Agree
    <3> QED BY Zenon, <3>1, <3>2, <1>7
  <2> QED BY Zenon, <2>1, <2>2
<1>13. m_active' \subseteq InUse' BY Zenon, <1>0, <1>5 DEF EpollInv, Agree
<1>14. Agree' BY Zenon, <1>1, <1>11, <1>12, <1>13 DEF Agree, Absent
<1>15. \A d \in InUse' : chan'[d].fd \in open'
  BY Zenon, <1>0, <1>4, <1>5, <1>9 DEF EpollInv, OneChannelPerFd
<1>16. \A d, e \in InUse' : chan'[d].fd = chan'[e].fd => d = e
  BY <1>4, <1>5, <1>9 DEF EpollInv, OneChannelPerFd
<1>17. \A x \in Fds : m_channelMap'[x] # NoChannel =>
         m_channelMap'[x] \in InUse' /\ chan'[m_channelMap'[x]].fd = x
  BY <1>0, <1>4, <1>5, <1>7, <1>8, <1>9 DEF EpollInv, OneChannelPerFd
<1> QED BY Zenon, <1>14, <1>15, <1>16, <1>17 DEF OneChannelPerFd

\* The types of the functions that the proofs take apart
LEMMA TypeParts ==
  ASSUME EpollInv
  PROVE  /\ chan \in [Channels -> [phase : {"free", "used", "removed"}, fd : Fds \cup {NoFd},
                                   index : {kNew, kAdded, kDeleted}, events : Interest,
                                   revents : SUBSET Conditions]]
         /\ kernel \in [Fds -> [ptr : Channels \cup {NoChannel}, events : Interest]]
         /\ m_channelMap \in [Fds -> Channels \cup {NoChannel}]
BY Zenon DEF EpollInv, EpollTypeOK

\* Remove keeps the invariant: the entry of the channel goes from both lists.
LEMMA RemoveAgrees ==
  ASSUME EpollInv, NEW c \in Channels, Remove(c)
  PROVE  Agree' /\ OneChannelPerFd'
<1> DEFINE fd == chan[c].fd
<1>0. /\ c \in InUse /\ c \notin m_active /\ removeChannel(c)
      /\ UNCHANGED <<open, m_active>>
  BY Zenon DEF Remove
<1>1. /\ chan' = [chan EXCEPT ![c].index = kNew, ![c].phase = "removed"]
      /\ m_channelMap' = [m_channelMap EXCEPT ![fd] = NoChannel]
  BY Zenon, <1>0 DEF removeChannel
<1>2. fd \in open /\ fd \in Fds /\ (kernel[fd] # Absent <=> chan[c].index = kAdded)
  BY Zenon, <1>0, OwnEntry
<1>3. fatal = FALSE BY Zenon DEF EpollInv, EpollTypeOK, Agree
<1>4. fatal' = FALSE /\ kernel' = [kernel EXCEPT ![fd] = Absent]
  <2>1. CASE chan[c].index = kAdded
    <3>1. CtlWorks("DEL", fd) BY Zenon, <1>2, <2>1 DEF CtlWorks
    <3>2. update("DEL", c, {}) BY Zenon, <1>0, <2>1 DEF removeChannel
    <3> QED BY Zenon, <3>1, <3>2, <1>3 DEF update
  <2>2. CASE chan[c].index # kAdded
    <3>1. UNCHANGED <<kernel, fatal>> BY Zenon, <1>0, <2>2 DEF removeChannel
    <3>2. kernel[fd] = Absent BY Zenon, <1>2, <2>2
    <3> QED BY Zenon, <3>1, <3>2, <1>2, <1>3, TypeParts
  <2> QED BY Zenon, <2>1, <2>2
<1>5. /\ \A d \in Channels : d # c => chan'[d] = chan[d]
      /\ chan'[c].phase = "removed"
  BY Zenon, <1>1, TypeParts
<1>6. InUse' = InUse \ {c} BY Zenon, <1>5 DEF InUse
<1>7. \A x \in Fds : x # fd => kernel'[x] = kernel[x] /\ m_channelMap'[x] = m_channelMap[x]
  BY Zenon, <1>1, <1>4, TypeParts
<1>8. kernel'[fd] = Absent /\ m_channelMap'[fd] = NoChannel BY Zenon, <1>1, <1>2, <1>4, TypeParts
<1>9. \A d \in InUse' : d \in InUse /\ d \in Channels /\ d # c /\ chan'[d] = chan[d]
                          /\ chan[d].fd # fd /\ chan[d].fd \in Fds
  BY Zenon, <1>0, <1>5, <1>6, OwnEntry DEF EpollInv, OneChannelPerFd
<1>10. ASSUME NEW x \in Fds, kernel'[x] # Absent
       PROVE  kernel'[x].ptr \in InUse' /\ chan'[kernel'[x].ptr].fd = x
                /\ chan'[kernel'[x].ptr].index = kAdded
  <2>1. x # fd BY Zenon, <1>8, <1>10
  <2>2. kernel'[x] = kernel[x] /\ kernel[x].ptr \in InUse /\ chan[kernel[x].ptr].fd = x
          /\ chan[kernel[x].ptr].index = kAdded
    BY Zenon, <1>7, <1>10, <2>1 DEF EpollInv, Agree
  <2>3. kernel[x].ptr \in InUse' BY Zenon, <2>1, <2>2, <1>6
  <2> QED BY Zenon, <2>2, <2>3, <1>9
<1>11. ASSUME NEW d \in InUse'
       PROVE  /\ chan'[d].index = kAdded =>
                   kernel'[chan'[d].fd] = [ptr |-> d, events |-> chan'[d].events]
              /\ chan'[d].index # kNew <=> m_channelMap'[chan'[d].fd] = d
  <2>1. /\ chan[d].index = kAdded =>
                 kernel[chan[d].fd] = [ptr |-> d, events |-> chan[d].events]
        /\ chan[d].index # kNew <=> m_channelMap[chan[d].fd] = d
    BY Zenon, <1>9, <1>11 DEF EpollInv, Agree
  <2> QED BY <2>1, <1>7, <1>9, <1>11
<1>12. m_active' \subseteq InUse' BY Zenon, <1>0, <1>6 DEF EpollInv, Agree
<1>13. Agree' BY Zenon, <1>4, <1>10, <1>11, <1>12 DEF Agree, Absent
<1>14. \A d \in InUse' : chan'[d].fd \in open' BY Zenon, <1>0, <1>9 DEF EpollInv, OneChannelPerFd
<1>15. \A d, e \in InUse' : chan'[d].fd = chan'[e].fd => d = e
  BY <1>9 DEF EpollInv, OneChannelPerFd
<1>16. ASSUME NEW x \in Fds, m_channelMap'[x] # NoChannel
       PROVE  m_channelMap'[x] \in InUse' /\ chan'[m_channelMap'[x]].fd = x
  <2>1. x # fd /\ m_channelMap'[x] = m_channelMap[x] BY Zenon, <1>7, <1>8, <1>16
  <2>2. m_channelMap[x] \in InUse /\ chan[m_channelMap[x]].fd = x
    BY Zenon, <1>16, <2>1 DEF EpollInv, OneChannelPerFd
  <2>3. m_channelMap[x] \in InUse' BY Zenon, <2>1, <2>2, <1>6
  <2> QED BY Zenon, <2>1, <2>2, <2>3, <1>9
<1> QED BY Zenon, <1>13, <1>14, <1>15, <1>16 DEF OneChannelPerFd

\* NewChannel keeps the invariant: nothing knows the address or the descriptor.
LEMMA NewChannelAgrees ==
  ASSUME EpollInv, NEW c \in Channels, NEW fd \in Fds, NewChannel(c, fd)
  PROVE  Agree' /\ OneChannelPerFd'
<1>0. /\ chan[c].phase = "free" /\ \A d \in InUse : chan[d].fd # fd
      /\ chan' = [chan EXCEPT ![c] = Made(fd)] /\ open' = open \cup {fd}
      /\ UNCHANGED <<m_channelMap, kernel, m_active, fatal>>
  BY Zenon DEF NewChannel
<1>1. c \notin InUse BY Zenon, <1>0 DEF InUse
<1>2. /\ \A d \in Channels : d # c => chan'[d] = chan[d]
      /\ chan'[c] = Made(fd)
  BY Zenon, <1>0, TypeParts
<1>3. chan'[c].phase = "used" /\ chan'[c].fd = fd /\ chan'[c].index = kNew
  BY <1>2 DEF Made
<1>4. InUse' = InUse \cup {c} BY Zenon, <1>2, <1>3 DEF InUse
<1>5. \A d \in InUse : d \in Channels /\ d # c /\ chan'[d] = chan[d] /\ chan[d].fd # fd
  BY Zenon, <1>0, <1>1, <1>2 DEF InUse
<1>6. m_channelMap[fd] # c BY <1>1, EpollAssumption DEF EpollInv, OneChannelPerFd
<1>7. ASSUME NEW x \in Fds, kernel'[x] # Absent
      PROVE  kernel'[x].ptr \in InUse' /\ chan'[kernel'[x].ptr].fd = x
               /\ chan'[kernel'[x].ptr].index = kAdded
  <2>1. kernel[x].ptr \in InUse /\ chan[kernel[x].ptr].fd = x
          /\ chan[kernel[x].ptr].index = kAdded
    BY Zenon, <1>0, <1>7 DEF EpollInv, Agree
  <2> QED BY Zenon, <2>1, <1>0, <1>4, <1>5
<1>8. ASSUME NEW d \in InUse'
      PROVE  /\ chan'[d].index = kAdded =>
                  kernel'[chan'[d].fd] = [ptr |-> d, events |-> chan'[d].events]
             /\ chan'[d].index # kNew <=> m_channelMap'[chan'[d].fd] = d
  <2>1. CASE d = c BY <2>1, <1>0, <1>3, <1>6 DEF kNew, kAdded
  <2>2. CASE d # c
    <3>1. d \in InUse BY Zenon, <1>4, <1>8, <2>2
    <3>2. /\ chan[d].index = kAdded =>
                   kernel[chan[d].fd] = [ptr |-> d, events |-> chan[d].events]
          /\ chan[d].index # kNew <=> m_channelMap[chan[d].fd] = d
      BY Zenon, <3>1 DEF EpollInv, Agree
    <3> QED BY Zenon, <3>1, <3>2, <1>0, <1>5
  <2> QED BY Zenon, <2>1, <2>2
<1>9. m_active' \subseteq InUse' /\ ~ fatal' BY Zenon, <1>0, <1>4 DEF EpollInv, Agree
<1>10. Agree' BY Zenon, <1>7, <1>8, <1>9 DEF Agree, Absent
<1>11. \A d \in InUse' : chan'[d].fd \in open'
  BY <1>0, <1>3, <1>4, <1>5 DEF EpollInv, OneChannelPerFd
<1>12. \A d, e \in InUse' : chan'[d].fd = chan'[e].fd => d = e
  BY <1>3, <1>4, <1>5 DEF EpollInv, OneChannelPerFd
<1>13. \A x \in Fds : m_channelMap'[x] # NoChannel =>
         m_channelMap'[x] \in InUse' /\ chan'[m_channelMap'[x]].fd = x
  BY <1>0, <1>4, <1>5 DEF EpollInv, OneChannelPerFd
<1> QED BY Zenon, <1>10, <1>11, <1>12, <1>13 DEF OneChannelPerFd

\* Channels in use keep what is registered of them.
LEMMA SameChannels ==
  ASSUME EpollInv, InUse' = InUse,
         \A d \in InUse : /\ chan'[d].fd = chan[d].fd /\ chan'[d].index = chan[d].index
                          /\ chan'[d].events = chan[d].events,
         UNCHANGED <<m_channelMap, kernel, fatal>>, m_active' \subseteq InUse,
         \A d \in InUse : chan[d].fd \in open'
  PROVE  Agree' /\ OneChannelPerFd'
<1>1. ASSUME NEW x \in Fds, kernel'[x] # Absent
      PROVE  kernel'[x].ptr \in InUse' /\ chan'[kernel'[x].ptr].fd = x
               /\ chan'[kernel'[x].ptr].index = kAdded
  <2>1. kernel[x].ptr \in InUse /\ chan[kernel[x].ptr].fd = x
          /\ chan[kernel[x].ptr].index = kAdded
    BY Zenon, <1>1 DEF EpollInv, Agree
  <2> QED BY Zenon, <2>1
<1>2. ASSUME NEW d \in InUse'
      PROVE  /\ chan'[d].index = kAdded =>
                  kernel'[chan'[d].fd] = [ptr |-> d, events |-> chan'[d].events]
             /\ chan'[d].index # kNew <=> m_channelMap'[chan'[d].fd] = d
  <2>1. /\ chan[d].index = kAdded =>
                 kernel[chan[d].fd] = [ptr |-> d, events |-> chan[d].events]
        /\ chan[d].index # kNew <=> m_channelMap[chan[d].fd] = d
    BY Zenon, <1>2 DEF EpollInv, Agree
  <2> QED BY Zenon, <2>1, <1>2
<1>3. ~ fatal' BY Zenon DEF EpollInv, Agree
<1>4. Agree' BY Zenon, <1>1, <1>2, <1>3 DEF Agree, Absent
<1>5. OneChannelPerFd' BY DEF EpollInv, OneChannelPerFd
<1> QED BY Zenon, <1>4, <1>5

\* FreeChannel keeps the invariant: the channel is not in use.
LEMMA FreeChannelAgrees ==
  ASSUME EpollInv, NEW c \in Channels, FreeChannel(c)
  PROVE  Agree' /\ OneChannelPerFd'
<1>0. /\ chan[c].phase = "removed" /\ chan' = [chan EXCEPT ![c] = Freed]
      /\ UNCHANGED <<m_channelMap, kernel, open, fatal, m_active>>
  BY Zenon DEF FreeChannel
<1>1. chan'[c] = Freed /\ \A d \in Channels : d # c => chan'[d] = chan[d]
  BY Zenon, <1>0, TypeParts
<1>2. chan'[c].phase = "free" BY Zenon, <1>1 DEF Freed, Made
<1>3. InUse' = InUse BY Zenon, <1>0, <1>1, <1>2 DEF InUse
<1>4. \A d \in InUse : chan'[d] = chan[d] BY Zenon, <1>0, <1>1 DEF InUse
<1>5. m_active' \subseteq InUse BY Zenon, <1>0 DEF EpollInv, Agree
<1>6. \A d \in InUse : chan[d].fd \in open' BY Zenon, <1>0 DEF EpollInv, OneChannelPerFd
<1> QED BY Zenon, <1>0, <1>3, <1>4, <1>5, <1>6, SameChannels

\* HandleEvent keeps the invariant.
LEMMA HandleEventAgrees ==
  ASSUME EpollInv, NEW c \in Channels, HandleEvent(c)
  PROVE  Agree' /\ OneChannelPerFd'
<1>0. /\ chan' = [chan EXCEPT ![c].revents = {}] /\ m_active' = m_active \ {c}
      /\ UNCHANGED <<m_channelMap, kernel, open, fatal>>
  BY Zenon DEF HandleEvent
<1>1. \A d \in Channels : /\ chan'[d].phase = chan[d].phase /\ chan'[d].fd = chan[d].fd
                          /\ chan'[d].index = chan[d].index /\ chan'[d].events = chan[d].events
  BY <1>0, TypeParts
<1>2. InUse' = InUse BY Zenon, <1>1 DEF InUse
<1>3. InUse \subseteq Channels BY Zenon DEF InUse
<1>4. m_active' \subseteq InUse BY Zenon, <1>0 DEF EpollInv, Agree
<1>5. \A d \in InUse : chan[d].fd \in open' BY Zenon, <1>0 DEF EpollInv, OneChannelPerFd
<1> QED BY Zenon, <1>0, <1>1, <1>2, <1>3, <1>4, <1>5, SameChannels

\* Poll keeps the invariant: the pointers that the kernel returns are those of
\* channels in use.
LEMMA PollAgrees ==
  ASSUME EpollInv, Poll
  PROVE  Agree' /\ OneChannelPerFd'
<1>0. PICK s \in Told(m_eventVec) :
        /\ m_active' = {kernel[fd].ptr : fd \in s}
        /\ chan' = [c \in Channels |-> IF c \in {kernel[fd].ptr : fd \in s}
                      THEN [chan[c] EXCEPT !.revents = Reported(chan[c].fd)] ELSE chan[c]]
  BY Zenon DEF Poll
<1>1. UNCHANGED <<m_channelMap, kernel, open, fatal>> BY Zenon DEF Poll
<1>2. \A d \in Channels : /\ chan'[d].phase = chan[d].phase /\ chan'[d].fd = chan[d].fd
                          /\ chan'[d].index = chan[d].index /\ chan'[d].events = chan[d].events
  <2> TAKE d \in Channels
  <2>1. chan[d] \in [phase : {"free", "used", "removed"}, fd : Fds \cup {NoFd},
                     index : {kNew, kAdded, kDeleted}, events : Interest,
                     revents : SUBSET Conditions]
    BY Zenon, TypeParts
  <2>2. chan'[d] = chan[d] \/ chan'[d] = [chan[d] EXCEPT !.revents = Reported(chan[d].fd)]
    BY Zenon, <1>0
  <2> QED BY Zenon, <2>1, <2>2
<1>3. InUse' = InUse BY Zenon, <1>2 DEF InUse
<1>4. InUse \subseteq Channels BY Zenon DEF InUse
<1>5. \A fd \in s : fd \in Fds /\ kernel[fd] # Absent BY Zenon DEF Told, Ready, Reported
<1>6. m_active' \subseteq InUse BY <1>0, <1>5 DEF EpollInv, Agree
<1>7. \A d \in InUse : chan[d].fd \in open' BY Zenon, <1>1 DEF EpollInv, OneChannelPerFd
<1> QED BY Zenon, <1>1, <1>2, <1>3, <1>4, <1>6, <1>7, SameChannels

\* CloseFd keeps the invariant: the kernel has no entry for it any more.
LEMMA CloseFdAgrees ==
  ASSUME EpollInv, NEW fd \in Fds, CloseFd(fd)
  PROVE  Agree' /\ OneChannelPerFd'
<1>0. /\ \A d \in InUse : chan[d].fd # fd
      /\ open' = open \ {fd} /\ kernel' = [kernel EXCEPT ![fd] = Absent]
      /\ UNCHANGED <<chan, m_channelMap, m_active, fatal>>
  BY Zenon DEF CloseFd
<1>1. kernel[fd] = Absent BY Zenon, <1>0 DEF EpollInv, Agree
<1>2. kernel' = kernel BY Zenon, <1>0, <1>1, TypeParts
<1>3. InUse' = InUse BY Zenon, <1>0 DEF InUse
<1>4. \A d \in InUse : chan[d].fd \in open' BY Zenon, <1>0 DEF EpollInv, OneChannelPerFd
<1>5. m_active' \subseteq InUse BY Zenon, <1>0 DEF EpollInv, Agree
<1> QED BY Zenon, <1>0, <1>2, <1>3, <1>4, <1>5, SameChannels

Record == [phase : {"free", "used", "removed"}, fd : Fds \cup {NoFd},
           index : {kNew, kAdded, kDeleted}, events : Interest, revents : SUBSET Conditions]

\* The types after a step of an owner
LEMMA OwnerType ==
  ASSUME EpollInv, OwnerStep, ~ late'
  PROVE  EpollTypeOK'
<1> USE DEF EpollInv, EpollTypeOK
<1>0. {} \in Interest /\ {} \in SUBSET Conditions BY Zenon DEF Interest
<1>1. ASSUME NEW c \in Channels, NEW fd \in Fds, NewChannel(c, fd) PROVE EpollTypeOK'
  <2>1. Made(fd) \in Record BY Zenon, <1>0 DEF Made, Record
  <2> QED BY Zenon, <1>1, <2>1 DEF NewChannel, Record
<1>2. ASSUME NEW c \in Channels, NEW events \in Interest, SetEvents(c, events)
      PROVE  EpollTypeOK'
  <2>1. c \in InUse /\ updateChannel(c, events) BY Zenon, <1>2, SetsInUse
  <2>2. /\ fatal' = FALSE
        /\ kernel' = [kernel EXCEPT ![chan[c].fd] = IF DelFor(c, events) THEN Absent
                        ELSE [ptr |-> c, events |-> events]]
        /\ m_channelMap' = [m_channelMap EXCEPT ![chan[c].fd] = c]
        /\ chan' = [chan EXCEPT ![c].events = events,
                                ![c].index = IF DelFor(c, events) THEN kDeleted ELSE kAdded]
    BY Zenon, <2>1, UpdateWorks
  <2>3. chan' \in [Channels -> Record]
    <3>1. chan \in [Channels -> Record] BY Zenon DEF Record
    <3>2. ASSUME NEW d \in Channels PROVE chan'[d] \in Record
      <4>1. CASE d = c
        <5>1. chan[c] \in Record BY ONLY Zenon, <3>1, c \in Channels
        <5>2. chan'[c] = [chan[c] EXCEPT !.events = events,
                            !.index = IF DelFor(c, events) THEN kDeleted ELSE kAdded]
          BY ONLY Zenon, <3>1, <2>2, c \in Channels DEF Record
        <5> QED BY ONLY Zenon, <5>1, <5>2, <4>1, events \in Interest DEF Record
      <4>2. CASE d # c BY ONLY Zenon, <3>1, <2>2, <4>2, d \in Channels
      <4> QED BY Zenon, <4>1, <4>2
    <3>3. chan' = [d \in Channels |-> chan'[d]] BY ONLY Zenon, <3>1, <2>2
    <3> QED BY ONLY Zenon, <3>2, <3>3
  <2>4. kernel' \in [Fds -> [ptr : Channels \cup {NoChannel}, events : Interest]]
    BY Zenon, <2>2, <1>0 DEF Absent
  <2>5. m_channelMap' \in [Fds -> Channels \cup {NoChannel}] BY Zenon, <2>2
  <2>6. late' \in BOOLEAN BY <1>2 DEF SetEvents
  <2> QED BY Zenon, <1>2, <2>2, <2>3, <2>4, <2>5, <2>6 DEF SetEvents, Record
<1>3. ASSUME NEW c \in Channels, Remove(c) PROVE EpollTypeOK'
  <2>1. removeChannel(c) BY Zenon, <1>3 DEF Remove
  <2>2. chan' \in [Channels -> Record]
    <3>1. chan \in [Channels -> Record] BY Zenon DEF Record
    <3>2. chan' = [chan EXCEPT ![c].index = kNew, ![c].phase = "removed"]
      BY Zenon, <2>1 DEF removeChannel
    <3>3. ASSUME NEW d \in Channels PROVE chan'[d] \in Record
      <4>1. CASE d = c
        <5>1. chan[c] \in Record BY ONLY Zenon, <3>1, c \in Channels
        <5>2. chan'[c] = [chan[c] EXCEPT !.index = kNew, !.phase = "removed"]
          BY ONLY Zenon, <3>1, <3>2, c \in Channels DEF Record
        <5> QED BY ONLY Zenon, <5>1, <5>2, <4>1 DEF Record
      <4>2. CASE d # c BY ONLY Zenon, <3>1, <3>2, <4>2, d \in Channels
      <4> QED BY Zenon, <4>1, <4>2
    <3>4. chan' = [d \in Channels |-> chan'[d]] BY ONLY Zenon, <3>1, <3>2
    <3> QED BY ONLY Zenon, <3>3, <3>4
  <2>3. kernel' \in [Fds -> [ptr : Channels \cup {NoChannel}, events : Interest]]
    <3>1. Absent \in [ptr : Channels \cup {NoChannel}, events : Interest] BY Zenon, <1>0 DEF Absent
    <3>2. kernel' = kernel \/ kernel' = [kernel EXCEPT ![chan[c].fd] = Absent]
      BY Zenon, <2>1 DEF removeChannel, update
    <3>3. kernel \in [Fds -> [ptr : Channels \cup {NoChannel}, events : Interest]] BY Zenon
    <3> QED BY ONLY Zenon, <3>1, <3>2, <3>3
  <2>4. m_channelMap' \in [Fds -> Channels \cup {NoChannel}] BY Zenon, <2>1 DEF removeChannel
  <2>5. fatal' \in BOOLEAN BY Zenon, <2>1 DEF removeChannel, update
  <2> QED BY Zenon, <1>3, <2>2, <2>3, <2>4, <2>5 DEF Remove, Record
<1>4. ASSUME NEW c \in Channels, FreeChannel(c) PROVE EpollTypeOK'
  <2>1. Freed \in Record BY Zenon, <1>0 DEF Freed, Made, Record
  <2> QED BY Zenon, <1>4, <2>1 DEF FreeChannel, Record
<1>5. ASSUME NEW fd \in Fds, CloseFd(fd) PROVE EpollTypeOK'
  <2>1. Absent \in [ptr : Channels \cup {NoChannel}, events : Interest]
    BY Zenon, <1>0 DEF Absent
  <2> QED BY Zenon, <1>5, <2>1, <1>0 DEF CloseFd
<1> QED BY Zenon, <1>1, <1>2, <1>3, <1>4, <1>5 DEF OwnerStep

\* The types after a step of the loop
LEMMA LoopType ==
  ASSUME EpollInv, LoopStep
  PROVE  EpollTypeOK'
<1> USE DEF EpollInv, EpollTypeOK
<1>1. CASE Poll
  <2>1. PICK s \in Told(m_eventVec) :
          /\ m_active' = {kernel[fd].ptr : fd \in s}
          /\ chan' = [c \in Channels |-> IF c \in {kernel[fd].ptr : fd \in s}
                        THEN [chan[c] EXCEPT !.revents = Reported(chan[c].fd)] ELSE chan[c]]
          /\ m_eventVec' = Grown(Cardinality(s))
    BY Zenon, <1>1 DEF Poll
  <2>2. m_eventVec' \in Nat \ {0} BY <2>1 DEF Grown
  <2>3. \A fd \in s : fd \in Fds /\ kernel[fd] # Absent BY Zenon DEF Told, Ready, Reported
  <2>4. m_active' \subseteq InUse BY <2>1, <2>3 DEF Agree
  <2>5. InUse \subseteq Channels BY Zenon DEF InUse
  <2>6. \A c \in InUse : chan[c].fd \in Fds BY Zenon, OwnEntry
  <2>7. \A fd \in Fds : Reported(fd) \in SUBSET Conditions BY Zenon DEF Reported
  <2>8. \A c \in Channels : chan'[c] \in Record
    <3> TAKE c \in Channels
    <3>1. CASE c \in m_active'
      <4>1. Reported(chan[c].fd) \in SUBSET Conditions BY Zenon, <3>1, <2>4, <2>6, <2>7
      <4>2. chan'[c] = [chan[c] EXCEPT !.revents = Reported(chan[c].fd)] BY Zenon, <2>1, <3>1
      <4> QED BY <4>1, <4>2 DEF Record
    <3>2. CASE c \notin m_active' BY Zenon, <2>1, <3>2 DEF Record
    <3> QED BY Zenon, <3>1, <3>2
  <2>9. chan' = [c \in Channels |-> chan'[c]] BY Zenon, <2>1
  <2>10. chan' \in [Channels -> Record] BY Zenon, <2>8, <2>9
  <2> QED BY Zenon, <1>1, <2>2, <2>4, <2>5, <2>10 DEF Poll, Record
<1>2. CASE Handled BY Zenon, <1>2 DEF Handled
<1>3. CASE GoOn BY Zenon, <1>3 DEF GoOn
<1>4. ASSUME NEW c \in Channels, HandleEvent(c) PROVE EpollTypeOK'
  <2>1. chan' \in [Channels -> Record]
    <3>1. chan \in [Channels -> Record] BY Zenon DEF Record
    <3>2. chan' = [chan EXCEPT ![c].revents = {}] BY Zenon, <1>4 DEF HandleEvent
    <3> QED BY ONLY <3>1, <3>2, c \in Channels DEF Record
  <2>2. callbacks' \subseteq {"close", "error", "read", "write"}
    BY Zenon, <1>4 DEF HandleEvent, CallbacksFor
  <2> QED BY Zenon, <1>4, <2>1, <2>2 DEF HandleEvent, Record
<1>5. ASSUME NEW x \in {"close", "error", "read", "write"}, Callback(x) PROVE EpollTypeOK'
  <2>1. level' \in [Fds -> SUBSET Conditions] BY Zenon, <1>5 DEF Callback
  <2> QED BY Zenon, <1>5, <2>1 DEF Callback
<1> QED BY Zenon, <1>1, <1>2, <1>3, <1>4, <1>5 DEF LoopStep

\* Every step keeps the invariant, but for an update after the removal.
LEMMA StepAgrees ==
  ASSUME EpollInv, [EpollNext]_epollVars, ~ late'
  PROVE  EpollInv'
<1>1. CASE UNCHANGED epollVars
  <2>1. Agree' /\ OneChannelPerFd'
    BY Zenon, <1>1, RegistrationKept DEF epollVars, Registration, EpollInv
  <2> QED BY Zenon, <1>1, <2>1 DEF EpollInv, EpollTypeOK, epollVars
<1>2. CASE OwnerStep
  <2>1. EpollTypeOK' BY Zenon, <1>2, OwnerType
  <2>2. Agree' /\ OneChannelPerFd'
    BY Zenon, <1>2, NewChannelAgrees, SetEventsAgrees, RemoveAgrees, FreeChannelAgrees,
       CloseFdAgrees
    DEF OwnerStep
  <2> QED BY Zenon, <2>1, <2>2 DEF EpollInv
<1>3. CASE LoopStep
  <2>1. EpollTypeOK' BY Zenon, <1>3, LoopType
  <2>2. ASSUME UNCHANGED Registration PROVE Agree' /\ OneChannelPerFd'
    BY Zenon, <2>2, RegistrationKept DEF EpollInv
  <2>3. Handled \/ GoOn => UNCHANGED Registration BY Zenon DEF Handled, GoOn, Registration
  <2>4. \A x \in {"close", "error", "read", "write"} : Callback(x) => UNCHANGED Registration
    BY Zenon DEF Callback, Registration
  <2>5. Agree' /\ OneChannelPerFd'
    BY Zenon, <1>3, <2>2, <2>3, <2>4, PollAgrees, HandleEventAgrees DEF LoopStep
  <2> QED BY Zenon, <2>1, <2>5 DEF EpollInv
<1>4. ASSUME NEW fd \in Fds, NEW x \in Conditions, Happens(fd, x) PROVE EpollInv'
  <2>1. UNCHANGED Registration BY Zenon, <1>4 DEF Happens, Registration
  <2>2. Agree' /\ OneChannelPerFd' BY Zenon, <2>1, RegistrationKept DEF EpollInv
  <2>3. EpollTypeOK' BY Zenon, <1>4 DEF EpollInv, EpollTypeOK, Happens
  <2> QED BY Zenon, <2>2, <2>3 DEF EpollInv
<1> QED BY Zenon, <1>1, <1>2, <1>3, <1>4 DEF EpollNext

\* After such an update there is no other step.
LEMMA NextAgrees == (late \/ EpollInv) /\ [EpollNext]_epollVars => (late \/ EpollInv)'
<1>1. late /\ [EpollNext]_epollVars => late' BY Zenon DEF EpollNext, epollVars
<1> QED BY Zenon, <1>1, StepAgrees

\* The invariant holds at the start.
LEMMA InitAgrees == EpollInit => EpollInv
<1> SUFFICES ASSUME EpollInit PROVE EpollInv BY Zenon
<1>1. Freed \in Record BY Zenon DEF Freed, Made, Record, Interest
<1>2. Freed.phase = "free" BY Zenon DEF Freed, Made
<1>3. InUse = {} BY Zenon, <1>2 DEF InUse, EpollInit
<1>4. Absent \in [ptr : Channels \cup {NoChannel}, events : Interest] BY Zenon DEF Absent, Interest
<1>5. EpollTypeOK BY Zenon, <1>1, <1>4, EpollAssumption DEF EpollTypeOK, EpollInit, Record
<1>6. Agree BY Zenon, <1>3 DEF Agree, EpollInit
<1>7. OneChannelPerFd BY Zenon, <1>3 DEF OneChannelPerFd, EpollInit
<1> QED BY Zenon, <1>5, <1>6, <1>7 DEF EpollInv

(***************************************************************************)
(* Epoll and Channel, with any channels and descriptors and a vector of    *)
(* any size: the interest of a channel, its index, the map and the         *)
(* kernel's list agree, epoll_wait returns only pointers to channels that  *)
(* exist, they exist when their turn comes, and no epoll_ctl is fatal,     *)
(* unless an owner has updated a channel after it removed it.              *)
(***************************************************************************)
THEOREM RegisteredChannelsExist == EpollSpec => []ChannelsAgree
<1>1. late \/ EpollInv => ChannelsAgree BY DEF EpollInv, ChannelsAgree
<1> QED BY <1>1, InitAgrees, NextAgrees, PTL DEF EpollSpec

-----------------------------------------------------------------------------
(* EventLoop                                                               *)


\* Concatenation of queues of functors is associative.
LEMMA ConcatAssoc ==
  \A a, b, c \in Seq(Functors) : (a \o b) \o c = a \o (b \o c)
BY ConcatAssociative

\* Pushing one functor is concatenating a queue of one.
LEMMA AppendAsConcat ==
  \A s \in Seq(Functors), e \in Functors :
    Append(s, e) = s \o <<e>> /\ <<e>> \in Seq(Functors)
BY AppendIsConcat

\* Two queues of functors one after the other are a queue of functors.
LEMMA ConcatType ==
  \A s, t \in Seq(Functors) : s \o t \in Seq(Functors)
BY Zenon, ConcatProperties

\* Pushing at the end of the last part is pushing at the end of the whole.
LEMMA AppendConcat ==
  \A s, t \in Seq(Functors), e \in Functors : Append(s \o t, e) = s \o Append(t, e)
<1> SUFFICES ASSUME NEW s \in Seq(Functors), NEW t \in Seq(Functors),
                    NEW e \in Functors
             PROVE  Append(s \o t, e) = s \o Append(t, e)
  BY Zenon
<1>1. s \o t \in Seq(Functors) /\ <<e>> \in Seq(Functors)
  BY Zenon, ConcatType, AppendAsConcat
<1>2. Append(s \o t, e) = (s \o t) \o <<e>> /\ Append(t, e) = t \o <<e>>
  BY Zenon, <1>1, AppendAsConcat
<1> QED
  BY <1>1, <1>2, ConcatAssoc

\* A nonempty sequence is its head followed by its tail.
LEMMA HeadThenTail ==
  ASSUME NEW t \in Seq(Functors), t # <<>>
  PROVE  /\ Head(t) \in Functors
         /\ Tail(t) \in Seq(Functors)
         /\ t = <<Head(t)>> \o Tail(t)
<1> DEFINE h == <<Head(t)>>
<1>1. Head(t) \in Functors /\ Tail(t) \in Seq(Functors) /\ h \in Seq(Functors)
  BY HeadTailProperties
<1>2. /\ Len(Tail(t)) = Len(t) - 1
      /\ \A i \in 1..Len(Tail(t)) : Tail(t)[i] = t[i + 1]
  BY Zenon, HeadTailProperties
<1>3. /\ h \o Tail(t) \in Seq(Functors)
      /\ Len(h \o Tail(t)) = Len(h) + Len(Tail(t))
      /\ \A i \in 1..Len(h) + Len(Tail(t)) : (h \o Tail(t))[i] =
           IF i <= Len(h) THEN h[i] ELSE Tail(t)[i - Len(h)]
  BY Zenon, <1>1, ConcatProperties
<1>4. Len(h) = 1 /\ h[1] = t[1] /\ Len(t) \in Nat \ {0}
  BY <1>1, EmptySeq
<1>5. Len(h \o Tail(t)) = Len(t)
  BY <1>2, <1>3, <1>4
<1>6. ASSUME NEW i \in 1..Len(t)
      PROVE  t[i] = (h \o Tail(t))[i]
  <2>1. CASE i = 1
    BY <1>2, <1>3, <1>4, <2>1
  <2>2. CASE i # 1
    BY <1>2, <1>3, <1>4, <2>2
  <2> QED
    BY Zenon, <2>1, <2>2
<1> QED
  BY Zenon, <1>1, <1>3, <1>5, <1>6, SeqEqual

\* Taking the head of the second part moves it to the end of the first.
LEMMA MoveHead ==
  \A s, t, u \in Seq(Functors) :
    t # <<>> => s \o (t \o u) = Append(s, Head(t)) \o (Tail(t) \o u)
<1> SUFFICES ASSUME NEW s \in Seq(Functors), NEW t \in Seq(Functors),
                    NEW u \in Seq(Functors), t # <<>>
             PROVE  s \o (t \o u) = Append(s, Head(t)) \o (Tail(t) \o u)
  BY Zenon
<1> DEFINE h == Head(t)
           r == Tail(t)
<1>1. h \in Functors /\ r \in Seq(Functors) /\ t = <<h>> \o r
  BY Zenon, HeadThenTail
<1> HIDE DEF h, r
<1>2. /\ Append(s, h) = s \o <<h>> /\ <<h>> \in Seq(Functors)
      /\ r \o u \in Seq(Functors)
  BY ONLY Zenon, <1>1, s \in Seq(Functors), u \in Seq(Functors), AppendAsConcat, ConcatType
<1>3. (<<h>> \o r) \o u = <<h>> \o (r \o u)
  BY ONLY <1>1, <1>2, u \in Seq(Functors), ConcatAssoc
<1>4. s \o (<<h>> \o (r \o u)) = (s \o <<h>>) \o (r \o u)
  BY ONLY Zenon, <1>2, s \in Seq(Functors), ConcatAssoc
<1>5. s \o (t \o u) = Append(s, h) \o (r \o u)
  BY ONLY Zenon, <1>1, <1>2, <1>3, <1>4
<1> QED
  BY ONLY Zenon, <1>5 DEF h, r

\* Head and tail of a concatenation whose first part is not empty.
LEMMA HeadOfConcat ==
  \A t, u \in Seq(Functors) : t # <<>> =>
    /\ t \o u # <<>>
    /\ Head(t \o u) = Head(t)
    /\ Tail(t \o u) = Tail(t) \o u
<1> SUFFICES ASSUME NEW t \in Seq(Functors), NEW u \in Seq(Functors), t # <<>>
             PROVE  /\ t \o u # <<>>
                    /\ Head(t \o u) = Head(t)
                    /\ Tail(t \o u) = Tail(t) \o u
  BY Zenon
<1> DEFINE w == t \o u  r == Tail(t) \o u
<1>1. /\ w \in Seq(Functors)
      /\ Len(w) = Len(t) + Len(u)
      /\ \A i \in 1..Len(t) + Len(u) : w[i] =
           IF i <= Len(t) THEN t[i] ELSE u[i - Len(t)]
  BY Zenon, ConcatProperties
<1>2. /\ Len(t) \in Nat \ {0} /\ Len(u) \in Nat
      /\ Tail(t) \in Seq(Functors) /\ Len(Tail(t)) = Len(t) - 1
      /\ \A i \in 1..Len(Tail(t)) : Tail(t)[i] = t[i + 1]
  BY Zenon, EmptySeq, LenProperties, HeadTailProperties
<1>3. /\ r \in Seq(Functors)
      /\ Len(r) = Len(Tail(t)) + Len(u)
      /\ \A i \in 1..Len(Tail(t)) + Len(u) : r[i] =
           IF i <= Len(Tail(t)) THEN Tail(t)[i] ELSE u[i - Len(Tail(t))]
  BY Zenon, <1>2, ConcatProperties
<1> HIDE DEF w, r
<1>4. w # <<>>
  BY <1>1, <1>2, EmptySeq
<1>5. /\ Tail(w) \in Seq(Functors) /\ Len(Tail(w)) = Len(w) - 1
      /\ \A i \in 1..Len(Tail(w)) : Tail(w)[i] = w[i + 1]
  BY Zenon, <1>1, <1>4, HeadTailProperties
<1>6. Head(w) = Head(t)
  BY <1>1, <1>2
<1>7. Tail(w) = r
  <2>1. Len(Tail(w)) = Len(r)
    BY <1>1, <1>2, <1>3, <1>5
  <2>2. ASSUME NEW i \in 1..Len(r) PROVE Tail(w)[i] = r[i]
    <3>1. /\ i \in 1..Len(Tail(w)) /\ i \in 1..Len(Tail(t)) + Len(u)
          /\ i + 1 \in 1..Len(t) + Len(u) /\ i \in Int
      BY <1>1, <1>2, <1>3, <2>1
    <3>2. Tail(w)[i] = IF i + 1 <= Len(t) THEN t[i + 1] ELSE u[(i + 1) - Len(t)]
      BY Zenon, <1>1, <1>5, <3>1
    <3>3. r[i] = IF i <= Len(Tail(t)) THEN Tail(t)[i] ELSE u[i - Len(Tail(t))]
      BY Zenon, <1>3, <3>1
    <3>4. CASE i + 1 <= Len(t)
      <4>1. i \in 1..Len(Tail(t)) /\ i <= Len(Tail(t))
        BY <1>2, <3>1, <3>4
      <4> QED
        BY Zenon, <1>2, <3>2, <3>3, <3>4, <4>1
    <3>5. CASE ~(i + 1 <= Len(t))
      <4>1. ~(i <= Len(Tail(t))) /\ (i + 1) - Len(t) = i - Len(Tail(t))
        BY <1>2, <3>1, <3>5
      <4> QED
        BY Zenon, <3>2, <3>3, <3>5, <4>1
    <3> QED
      BY Zenon, <3>4, <3>5
  <2> QED
    BY Zenon, <1>3, <1>5, <2>1, <2>2, SeqEqual
<1> QED
  BY Zenon, <1>4, <1>6, <1>7 DEF w, r

-----------------------------------------------------------------------------

\* The inductive invariant holds when the loop is constructed.
LEMMA InitIInv == Init => IInv
<1> SUFFICES ASSUME Init PROVE IInv
  BY Zenon
<1>1. TypeOK
  BY Zenon, EmptySeq DEF Init, TypeOK, LoopPCs, LoopChannels
<1>2. FifoExactlyOnce
  BY Zenon, EmptySeq, ConcatEmptySeq DEF Init, FifoExactlyOnce
<1> QED
  BY <1>1, <1>2 DEF Init, IInv, LatePending

\* What a push does to the invariant's parts, whoever pushes.
LEMMA PushKeeps ==
  ASSUME IInv, NEW f \in Functors, Push(f), UNCHANGED <<functors, ran>>
  PROVE  /\ pending' \in Seq(Functors)
         /\ submitted' \in Seq(Functors)
         /\ FifoExactlyOnce'
         /\ (f \in early' /\ early \subseteq early' /\ LatePending') => LatePending
<1>0. /\ pending \in Seq(Functors) /\ functors \in Seq(Functors)
      /\ ran \in Seq(Functors) /\ submitted \in Seq(Functors)
      /\ submitted = ran \o (functors \o pending)
  BY Zenon DEF IInv, TypeOK, FifoExactlyOnce
<1>1. pending' \in Seq(Functors) /\ submitted' \in Seq(Functors)
  BY Zenon, <1>0, AppendProperties DEF Push
<1>2. FifoExactlyOnce'
  <2>1. functors \o pending \in Seq(Functors)
    BY Zenon, <1>0, ConcatProperties
  <2>2. Append(functors \o pending, f) = functors \o Append(pending, f)
    BY Zenon, <1>0, AppendConcat
  <2>3. Append(ran \o (functors \o pending), f)
          = ran \o Append(functors \o pending, f)
    BY Zenon, <1>0, <2>1, AppendConcat
  <2> QED
    BY Zenon, <1>0, <2>2, <2>3 DEF FifoExactlyOnce, Push
<1>3. ASSUME f \in early', early \subseteq early', LatePending'
      PROVE  LatePending
  <2>1. PICK i \in DOMAIN pending' : pending'[i] \notin early'
    BY Zenon, <1>3 DEF LatePending
  <2>2. /\ DOMAIN pending' = 1..Len(pending) + 1
        /\ \A j \in 1..Len(pending) : pending'[j] = pending[j]
        /\ pending'[Len(pending) + 1] = f
    BY <1>0, <1>1, AppendProperties, LenProperties DEF Push
  <2>3. Len(pending) \in Nat /\ DOMAIN pending = 1..Len(pending)
    BY Zenon, <1>0, LenProperties
  <2>4. i # Len(pending) + 1
    BY Zenon, <1>3, <2>1, <2>2
  <2>5. i \in 1..Len(pending)
    BY <2>1, <2>2, <2>3, <2>4
  <2>6. pending[i] \notin early
    BY Zenon, <1>3, <2>1, <2>2, <2>5
  <2> QED
    BY Zenon, <2>3, <2>5, <2>6 DEF LatePending
<1> QED
  BY Zenon, <1>1, <1>2, <1>3

\* Every step keeps the inductive invariant.
LEMMA NextIInv == IInv /\ [Next]_vars => IInv'
<1> SUFFICES ASSUME IInv, [Next]_vars PROVE IInv'
  BY Zenon
<1> USE DEF IInv
<1>1. ASSUME NEW c \in Callers, NEW f \in Functors, CallerQueueInLoop(c, f)
      PROVE  IInv'
  <2>1. pending' \in Seq(Functors) /\ submitted' \in Seq(Functors) /\ FifoExactlyOnce'
    BY Zenon, <1>1, PushKeeps DEF CallerQueueInLoop
  <2>2. cpc'[c] = "pushed"
    BY Zenon, <1>1 DEF CallerQueueInLoop, TypeOK
  <2>3. WakeupOnItsWay'
    BY Zenon, <2>2 DEF WakeupOnItsWay
  <2> QED
    BY Zenon, <1>1, <2>1, <2>3 DEF CallerQueueInLoop, TypeOK
<1>2. ASSUME NEW c \in Callers, CallerWakeup(c)
      PROVE  IInv'
  <2>1. evfd' \in Nat /\ evfd' > 0
    BY <1>2 DEF CallerWakeup, Wakeup, TypeOK
  <2>2. WakeupOnItsWay'
    BY Zenon, <2>1 DEF WakeupOnItsWay
  <2> QED
    BY Zenon, <1>2, <2>1, <2>2
    DEF CallerWakeup, TypeOK, FifoExactlyOnce, history
<1>3. ASSUME NEW c \in Callers, CallerQuit(c)
      PROVE  IInv'
  BY Zenon, <1>3 DEF CallerQuit, TypeOK, FifoExactlyOnce, LatePending,
              WakeupOnItsWay, history
<1>4. ASSUME NEW f \in Functors, UserQueueInLoop(f)
      PROVE  IInv'
  <2>1. /\ pending' \in Seq(Functors) /\ submitted' \in Seq(Functors)
        /\ FifoExactlyOnce'
        /\ (f \in early' /\ early \subseteq early' /\ LatePending') => LatePending
    BY Zenon, <1>4, PushKeeps DEF UserQueueInLoop
  <2>2. TypeOK'
    BY <1>4, <2>1 DEF UserQueueInLoop, Wakeup, TypeOK
  <2>3. CASE lpc = "idle"
    <3>1. ~calling /\ evfd' = evfd /\ cpc' = cpc /\ early' = early \cup {f}
      BY Zenon, <1>4, <2>3 DEF UserQueueInLoop
    <3> QED
      BY Zenon, <1>4, <2>1, <2>2, <2>3, <3>1 DEF UserQueueInLoop, WakeupOnItsWay
  <2>4. CASE lpc = "io"
    BY Zenon, <1>4, <2>1, <2>2, <2>4 DEF UserQueueInLoop
  <2>5. CASE lpc = "functor"
    <3>1. evfd' = evfd + 1
      BY Zenon, <1>4, <2>5 DEF UserQueueInLoop, Wakeup
    <3>2. WakeupOnItsWay'
      BY <3>1 DEF WakeupOnItsWay, TypeOK
    <3> QED
      BY Zenon, <1>4, <2>1, <2>2, <2>5, <3>2 DEF UserQueueInLoop
  <2> QED
    BY Zenon, <1>4, <2>3, <2>4, <2>5 DEF UserQueueInLoop, InUserCode
<1>5. ASSUME NEW f \in Functors, UserRunInLoop(f)
      PROVE  IInv'
  BY Zenon, <1>5 DEF UserRunInLoop, TypeOK, FifoExactlyOnce, LatePending, WakeupOnItsWay
<1>6. CASE UserQuit
  BY Zenon, <1>6 DEF UserQuit, TypeOK, FifoExactlyOnce, LatePending,
              WakeupOnItsWay, history
<1>7. CASE StartLoop
  BY Zenon, <1>7 DEF StartLoop, TypeOK, LoopPCs, FifoExactlyOnce, LatePending,
              WakeupOnItsWay, history
<1>8. CASE CheckQuit
  BY Zenon, <1>8 DEF CheckQuit, TypeOK, LoopPCs, FifoExactlyOnce, LatePending,
              WakeupOnItsWay, history
<1>9. CASE PollReady
  BY Zenon, <1>9 DEF PollReady, TypeOK, LoopPCs, FifoExactlyOnce, history
<1>10. CASE PollTimeout
  BY Zenon, <1>10 DEF PollTimeout, TypeOK, LoopPCs, FifoExactlyOnce, history
<1>11. CASE HandleRead
  BY Zenon, <1>11 DEF HandleRead, TypeOK, FifoExactlyOnce, history
<1>12. CASE HandleIo
  BY Zenon, <1>12 DEF HandleIo, TypeOK, LoopPCs, FifoExactlyOnce, history
<1>13. CASE IoHandled
  BY Zenon, <1>13 DEF IoHandled, TypeOK, LoopPCs, FifoExactlyOnce, history
<1>14. CASE SwapPendingFunctors
  <2>1. TypeOK'
    BY Zenon, <1>14, EmptySeq DEF SwapPendingFunctors, TypeOK, LoopPCs, history
  <2>2. FifoExactlyOnce'
    <3>1. functors \o pending = pending /\ pending \o <<>> = pending
      BY Zenon, <1>14, ConcatEmptySeq DEF SwapPendingFunctors, TypeOK
    <3> QED
      BY Zenon, <1>14, <3>1 DEF SwapPendingFunctors, FifoExactlyOnce, history
  <2>3. ~LatePending'
    BY <1>14 DEF SwapPendingFunctors, LatePending
  <2> QED
    BY Zenon, <1>14, <2>1, <2>2, <2>3 DEF SwapPendingFunctors
<1>15. CASE RunFunctor
  <2>1. TypeOK'
    BY Zenon, <1>15, HeadTailProperties, AppendProperties
    DEF RunFunctor, TypeOK, LoopPCs
  <2>2. FifoExactlyOnce'
    <3>1. /\ ran \in Seq(Functors) /\ functors \in Seq(Functors)
          /\ pending \in Seq(Functors) /\ functors # <<>>
      BY Zenon, <1>15 DEF RunFunctor, TypeOK
    <3>2. ran \o (functors \o pending)
            = Append(ran, Head(functors)) \o (Tail(functors) \o pending)
      BY Zenon, <3>1, MoveHead
    <3> QED
      BY Zenon, <1>15, <3>2 DEF RunFunctor, FifoExactlyOnce
  <2> QED
    BY Zenon, <1>15, <2>1, <2>2 DEF RunFunctor, LatePending, WakeupOnItsWay
<1>16. CASE FunctorReturns
  BY Zenon, <1>16 DEF FunctorReturns, TypeOK, LoopPCs, FifoExactlyOnce, LatePending,
               WakeupOnItsWay, history
<1>17. CASE PendingFunctorsDone
  BY Zenon, <1>17 DEF PendingFunctorsDone, TypeOK, LoopPCs, FifoExactlyOnce,
               LatePending, WakeupOnItsWay, history
<1>18. CASE UNCHANGED vars
  BY Zenon, <1>18 DEF vars, TypeOK, FifoExactlyOnce, LatePending, WakeupOnItsWay
<1> QED
  BY Zenon, <1>1, <1>2, <1>3, <1>4, <1>5, <1>6, <1>7, <1>8, <1>9, <1>10, <1>11,
     <1>12, <1>13, <1>14, <1>15, <1>16, <1>17, <1>18
  DEF Next, Loop, Iterate, User, Caller

(***************************************************************************)
(* IInv is an invariant of the loop.                                       *)
(***************************************************************************)
THEOREM InductiveInvariant == Spec => []IInv
BY InitIInv, NextIInv, PTL DEF Spec

(***************************************************************************)
(* Every variable keeps its type.                                          *)
(***************************************************************************)
THEOREM TypeCorrect == Spec => []TypeOK
<1>1. IInv => TypeOK
  BY DEF IInv
<1> QED
  BY <1>1, InductiveInvariant, PTL

(***************************************************************************)
(* However many threads queue functors, the loop is never in epoll_wait    *)
(* with a functor pending and no wakeup written or about to be written     *)
(* (queueInLoop, handleRead and doPendingFunctors of EventLoop.cpp).       *)
(***************************************************************************)
THEOREM LoopNeverSleepsOnWork == Spec => []NoLostWakeup
<1>1. IInv => NoLostWakeup
  BY DEF IInv, NoLostWakeup
<1> QED
  BY <1>1, InductiveInvariant, PTL

(***************************************************************************)
(* The functors run are exactly those pushed, once each and in the order   *)
(* of their pushes (queueInLoop and doPendingFunctors of EventLoop.cpp).   *)
(***************************************************************************)
THEOREM FunctorsRunInOrder == Spec => []FifoExactlyOnce
<1>1. IInv => FifoExactlyOnce
  BY DEF IInv
<1> QED
  BY <1>1, InductiveInvariant, PTL

(***************************************************************************)
(* While a batch of functors is run, no step lengthens it: functors queued *)
(* by functors wait for the next iteration (doPendingFunctors).            *)
(***************************************************************************)
THEOREM BatchNeverGrows == Spec => BatchIsFixed
<1>1. IInv /\ [Next]_vars
        => [(lpc \in {"run", "functor"}) => (Len(functors') <= Len(functors))]_vars
  <2> SUFFICES ASSUME IInv, Next, lpc \in {"run", "functor"}
               PROVE  Len(functors') <= Len(functors)
    BY Zenon DEF vars
  <2>1. functors \in Seq(Functors) /\ Len(functors) \in Nat
    BY Zenon, LenProperties DEF IInv, TypeOK
  <2>2. CASE RunFunctor
    BY <2>1, <2>2, HeadTailProperties DEF RunFunctor
  <2>3. CASE ~RunFunctor
    <3>1. functors' = functors
      BY Zenon, <2>3 DEF Next, Loop, Iterate, User, Caller, CallerQueueInLoop,
        CallerWakeup, CallerQuit, UserQueueInLoop, UserRunInLoop, UserQuit,
        StartLoop, CheckQuit, PollReady, PollTimeout, HandleRead, HandleIo,
        IoHandled, SwapPendingFunctors, FunctorReturns, PendingFunctorsDone
    <3> QED
      BY <2>1, <3>1
  <2> QED
    BY <2>2, <2>3
<1> QED
  BY <1>1, InductiveInvariant, PTL DEF Spec, BatchIsFixed

(***************************************************************************)
(* EventLoop implements Executor: the initial state maps to its initial    *)
(* state, a push to Submit, the start of a functor to RunOldest, and every *)
(* other step, the swap of the two vectors included, to no step at all.    *)
(***************************************************************************)
THEOREM ImplementsExecutor == Spec => IsExecutor
<1>1. Init => Exec!Init
  BY Zenon, EmptySeq, ConcatEmptySeq DEF Init, Exec!Init
<1>2. IInv /\ [Next]_vars => [Exec!Next]_(Exec!vars)
  <2> SUFFICES ASSUME IInv, [Next]_vars PROVE [Exec!Next]_(Exec!vars)
    BY Zenon
  <2>0. /\ pending \in Seq(Functors) /\ functors \in Seq(Functors)
        /\ ran \in Seq(Functors)
    BY Zenon DEF IInv, TypeOK
  <2>1. ASSUME NEW f \in Functors, Push(f), UNCHANGED <<functors, ran>>
        PROVE  Exec!Next
    <3>1. functors' \o pending' = Append(functors \o pending, f)
      BY Zenon, <2>0, <2>1, AppendConcat DEF Push
    <3>2. Exec!Submit(f)
      BY Zenon, <2>1, <3>1 DEF Exec!Submit
    <3> QED
      BY Zenon, <3>2 DEF Exec!Next
  <2>2. CASE RunFunctor
    <3>1. /\ functors # <<>> /\ functors' = Tail(functors)
          /\ ran' = Append(ran, Head(functors)) /\ pending' = pending
      BY Zenon, <2>2 DEF RunFunctor
    <3>2. /\ functors \o pending # <<>>
          /\ Head(functors \o pending) = Head(functors)
          /\ Tail(functors \o pending) = Tail(functors) \o pending
      BY Zenon, <2>0, <3>1, HeadOfConcat
    <3>3. Exec!RunOldest
      BY Zenon, <3>1, <3>2 DEF Exec!RunOldest
    <3> QED
      BY Zenon, <3>3 DEF Exec!Next
  <2>3. CASE SwapPendingFunctors
    <3>1. functors = <<>> /\ functors' = pending /\ pending' = <<>> /\ ran' = ran
      BY Zenon, <2>3 DEF SwapPendingFunctors, IInv, history
    <3>2. functors' \o pending' = functors \o pending
      BY Zenon, <2>0, <3>1, ConcatEmptySeq
    <3> QED
      BY Zenon, <3>1, <3>2 DEF Exec!vars
  <2>4. CASE UNCHANGED <<functors, pending, ran>>
    BY Zenon, <2>4 DEF Exec!vars
  <2> QED
    BY Zenon, <2>1, <2>2, <2>3, <2>4
    DEF Next, Loop, Iterate, User, Caller, CallerQueueInLoop,
        CallerWakeup, CallerQuit, UserQueueInLoop, UserRunInLoop, UserQuit,
        StartLoop, CheckQuit, PollReady, PollTimeout, HandleRead, HandleIo,
        IoHandled, FunctorReturns, PendingFunctorsDone, history, vars
<1> QED
  BY <1>1, <1>2, InductiveInvariant, PTL DEF Spec, IsExecutor, Exec!Spec

-----------------------------------------------------------------------------
(* EventLoopThread                                                         *)

\* m_loop is set from its publication until the thread takes it back.
Published == mloop <=> tpc \in {"published", "looping", "returned"}

\* m_quit is set by the destructor, or by somebody else.
QuitBySomebody == quit => otherQuit \/ opc \in {"join", "done"}

\* A thread that has left loop() was told to.
LeftWhenTold ==
  tpc \in {"returned", "nulled", "destroyed", "finished"} =>
    otherQuit \/ opc \in {"join", "done"}

\* What the owner knows of the thread
OwnerKnows ==
  /\ opc = "new" => tpc = "none"
  /\ opc \in {"started", "quit"} => mloop \/ otherQuit
  /\ opc = "members" => tpc = "none" \/ otherQuit

\* The inductive invariant
ThreadInv ==
  /\ otherQuit \in BOOLEAN /\ mloop \in BOOLEAN /\ quit \in BOOLEAN
  /\ Published /\ QuitBySomebody /\ LeftWhenTold /\ OwnerKnows
  /\ CleanShutdown

\* The invariant holds at the start.
LEMMA ThreadInitInv == ThreadInit => ThreadInv
BY Zenon DEF ThreadInit, Init, ThreadInv, Published, QuitBySomebody, LeftWhenTold, OwnerKnows,
       CleanShutdown

\* The steps of the owner keep it.
LEMMA OwnerKeeps ==
  ASSUME ThreadInv, OwnerStart \/ OwnerDestroy \/ SpuriousWakeup \/ OwnerGoesOn
  PROVE  ThreadInv'
<1> USE DEF ThreadInv, Published, QuitBySomebody, LeftWhenTold, OwnerKnows, CleanShutdown
<1>1. CASE OwnerStart BY Zenon, <1>1 DEF OwnerStart, vars
<1>2. CASE OwnerDestroy BY Zenon, <1>2 DEF OwnerDestroy, vars
<1>3. CASE SpuriousWakeup BY Zenon, <1>3 DEF SpuriousWakeup, vars
<1>4. CASE OwnerCheck BY Zenon, <1>4 DEF OwnerCheck, vars
<1>5. CASE OwnerQuit BY Zenon, <1>5 DEF OwnerQuit, LoopExists
<1>6. CASE OwnerJoin BY Zenon, <1>6 DEF OwnerJoin, vars
<1>7. CASE OwnerMembers BY Zenon, <1>7 DEF OwnerMembers, vars
<1> QED BY Zenon, <1>1, <1>2, <1>3, <1>4, <1>5, <1>6, <1>7 DEF OwnerGoesOn

\* A step inside loop() leaves m_quit alone, and leaves loop() only if it is set.
LEMMA LoopObeys ==
  ASSUME Iterate \/ PollReady \/ PollTimeout
  PROVE  quit' = quit /\ (lpc' = "idle" => quit)
BY Zenon DEF Iterate, CheckQuit, HandleRead, HandleIo, IoHandled, SwapPendingFunctors, RunFunctor,
       FunctorReturns, PendingFunctorsDone, PollReady, PollTimeout

\* The steps of the thread keep it.
LEMMA ThreadKeeps ==
  ASSUME ThreadInv, Thread \/ InLoop(PollReady) \/ InLoop(PollTimeout)
  PROVE  ThreadInv'
<1> USE DEF ThreadInv, Published, QuitBySomebody, LeftWhenTold, OwnerKnows, CleanShutdown
<1>1. CASE ThreadConstruct BY Zenon, <1>1 DEF ThreadConstruct, vars
<1>2. CASE ThreadPublish BY Zenon, <1>2 DEF ThreadPublish, vars
<1>3. CASE ThreadLoop BY Zenon, <1>3 DEF ThreadLoop, StartLoop
<1>4. CASE InLoop(Iterate) \/ InLoop(PollReady) \/ InLoop(PollTimeout)
  <2>1. /\ tpc = "looping" /\ tpc' = (IF lpc' = "idle" THEN "returned" ELSE "looping")
        /\ UNCHANGED <<opc, mloop, otherQuit>>
        /\ Iterate \/ PollReady \/ PollTimeout
    BY Zenon, <1>4 DEF InLoop
  <2>2. quit' = quit /\ (lpc' = "idle" => quit) BY Zenon, <2>1, LoopObeys
  <2> QED BY Zenon, <2>1, <2>2
<1>5. CASE ThreadNull BY Zenon, <1>5 DEF ThreadNull, vars
<1>6. CASE ThreadDestroyLoop BY Zenon, <1>6 DEF ThreadDestroyLoop, vars
<1>7. CASE ThreadFinish BY Zenon, <1>7 DEF ThreadFinish, vars
<1> QED BY Zenon, <1>1, <1>2, <1>3, <1>4, <1>5, <1>6, <1>7 DEF Thread

\* So do those of the users of the loop, whose quit() is recorded.
LEMMA UsersKeep ==
  ASSUME ThreadInv, UserInThread \/ \E c \in Callers : CallerStep(c)
  PROVE  ThreadInv'
<1>1. UNCHANGED <<opc, tpc, mloop>> BY Zenon DEF UserInThread, CallerStep
<1>2. otherQuit' \in BOOLEAN /\ (otherQuit => otherQuit') BY Zenon DEF UserInThread, CallerStep, ThreadInv
<1>3. quit' = quit \/ (quit' = TRUE /\ otherQuit')
  <2>1. CASE UserInThread
    <3>1. CASE UserQuit BY Zenon, <2>1, <3>1 DEF UserInThread, UserQuit
    <3>2. CASE \E f \in Functors : UserQueueInLoop(f) \/ UserRunInLoop(f)
      BY Zenon, <3>2 DEF UserQueueInLoop, UserRunInLoop
    <3> QED BY Zenon, <2>1, <3>1, <3>2 DEF UserInThread, User
  <2>2. ASSUME NEW c \in Callers, CallerStep(c) PROVE quit' = quit \/ (quit' = TRUE /\ otherQuit')
    <3>1. CASE CallerQuit(c) BY Zenon, <2>2, <3>1 DEF CallerStep, CallerQuit
    <3>2. CASE CallerWakeup(c) \/ \E f \in Functors : CallerQueueInLoop(c, f)
      BY Zenon, <3>2 DEF CallerWakeup, CallerQueueInLoop
    <3> QED BY Zenon, <2>2, <3>1, <3>2 DEF CallerStep, Caller
  <2> QED BY Zenon, <2>1, <2>2
<1>4. quit' \in BOOLEAN /\ QuitBySomebody'
  <2>1. CASE quit' = quit BY Zenon, <1>1, <1>2, <2>1 DEF ThreadInv, QuitBySomebody
  <2>2. CASE quit' = TRUE /\ otherQuit' BY Zenon, <2>2 DEF QuitBySomebody
  <2> QED BY Zenon, <1>3, <2>1, <2>2
<1>5. Published' /\ mloop' \in BOOLEAN BY Zenon, <1>1 DEF ThreadInv, Published
<1>6. LeftWhenTold' BY Zenon, <1>1, <1>2 DEF ThreadInv, LeftWhenTold
<1>7. OwnerKnows' BY Zenon, <1>1, <1>2 DEF ThreadInv, OwnerKnows
<1>8. CleanShutdown' BY Zenon, <1>1, <1>2 DEF ThreadInv, CleanShutdown
<1> QED BY Zenon, <1>2, <1>4, <1>5, <1>6, <1>7, <1>8 DEF ThreadInv

(***************************************************************************)
(* EventLoopThread: as long as nobody else quits the loop, the destructor  *)
(* never calls quit() through a stale m_loop, never detaches a thread that *)
(* still uses the object, and never destroys a joinable std::thread; with  *)
(* any number of other threads and functors that use the loop.             *)
(***************************************************************************)
THEOREM DestructorIsClean == ThreadFairSpec => []CleanShutdown
<1>1. ThreadInv /\ [ThreadNext]_allVars => ThreadInv'
  <2> SUFFICES ASSUME ThreadInv, [ThreadNext]_allVars PROVE ThreadInv' BY Zenon
  <2>1. CASE UNCHANGED allVars
    BY Zenon, <2>1 DEF allVars, tvars, vars, ThreadInv, Published, QuitBySomebody, LeftWhenTold,
                OwnerKnows, CleanShutdown
  <2> QED BY <2>1, OwnerKeeps, ThreadKeeps, UsersKeep DEF ThreadNext
<1>2. ThreadInv => CleanShutdown BY DEF ThreadInv
<1> QED BY <1>1, <1>2, ThreadInitInv, PTL DEF ThreadFairSpec, ThreadSpec
=============================================================================
