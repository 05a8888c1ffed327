------------------------ MODULE TcpConnectionProofs -------------------------
(***************************************************************************)
(* Machine-checked proofs about TcpConnection, for any users, high-water   *)
(* mark and bounds: the peer sees the accepted bytes in order and the end  *)
(* of the stream after them, the users one "up" and then one "down", and   *)
(* epoll never holds the channel of a connection that is gone.             *)
(***************************************************************************)
EXTENDS TcpConnection, TLAPS, SequenceTheorems

-----------------------------------------------------------------------------
(* The inductive invariant                                                 *)

\* Until the connection is closed, the channel is writing exactly as long as
\* there is output.
Buffered == closes + destroys = 0 => (out # <<>> <=> IsWriting)

\* shutdownInLoop and handleWrite between them
Output == InOrder /\ Buffered /\ FinAfterOutput

Open == {"kConnected", "kDisconnecting"}

\* What the channel is in each state
ChannelOk ==
  /\ state = "kConnecting" => index = "kNew" /\ interest = {}
  /\ state \in Open => index = "kAdded" /\ "read" \in interest
  /\ state = "kDisconnected" => index # "kAdded" /\ interest = {}
  /\ destroys > 0 => state = "kDisconnected" /\ index = "kNew"

\* connectEstablished is not in a queue, or is first in it and nowhere else.
NoneOf(s) == \A i \in DOMAIN s : s[i] # "established"
FirstOf(s) ==
  s # <<>> /\ s[1] = "established" /\ \A i \in DOMAIN s : i # 1 => s[i] # "established"

\* Before anything else the loop runs connectEstablished.
Comes ==
  /\ state = "kConnecting" =>
       (FirstOf(batch) /\ NoneOf(pending)) \/ (batch = <<>> /\ FirstOf(pending))
  /\ state # "kConnecting" => NoneOf(batch) /\ NoneOf(pending)

\* The callbacks that were called, by the state
Reports ==
  /\ ups = IF state = "kConnecting" THEN 0 ELSE 1
  /\ downs = IF state = "kDisconnected" THEN 1 ELSE 0
  /\ closes + destroys > 0 => state = "kDisconnected"
  /\ sameLoop => state # "kConnecting"

\* The owner, its loop or connectDestroyed keeps the connection ...
Keeper ==
  \/ owned \/ "remove" \in Elements(base)
  \/ "destroyed" \in Elements(pending) \cup Elements(batch)

\* ... while epoll has its channel, and until it has reported "down".
KeptWhile == (index # "kNew" \/ downs = 0) => Keeper

\* Where the loop is
LoopAt ==
  /\ lpc \in {"poll", "event", "message", "gone"} => batch = <<>>
  /\ lpc = "gone" => destroys > 0
  /\ lpc = "event" /\ revents \cap {"hup", "in"} # {} => state \in Open
  /\ lpc = "message" => revents \cap {"hup", "in"} = {}

\* Where the users are
UsersAt ==
  \A u \in Users : (uref[u] => state # "kConnecting") /\ (upc[u] # "idle" => uref[u])

\* What holds as long as none of the Upsets has happened
Calm == ChannelOk /\ Comes /\ Reports /\ KeptWhile /\ LoopAt /\ UsersAt

ConnInv == TypeOK /\ Output /\ (upset = {} => Calm)

-----------------------------------------------------------------------------
(* The queues of functors                                                  *)

\* What is appended to a queue
LEMMA Pushed ==
  ASSUME NEW s \in Seq(Functors), NEW f \in Functors
  PROVE  /\ Append(s, f) \in Seq(Functors)
         /\ Elements(Append(s, f)) = Elements(s) \cup {f}
         /\ f # "established" /\ NoneOf(s) => NoneOf(Append(s, f))
         /\ f # "established" /\ FirstOf(s) => FirstOf(Append(s, f))
<1>1. /\ Append(s, f) \in Seq(Functors) /\ Append(s, f) # <<>>
      /\ Len(Append(s, f)) = Len(s) + 1 /\ Append(s, f)[Len(s) + 1] = f
      /\ \A i \in 1 .. Len(s) : Append(s, f)[i] = s[i]
  BY AppendProperties
<1>2. DOMAIN s = 1 .. Len(s) /\ Len(s) \in Nat
      /\ DOMAIN Append(s, f) = (1 .. Len(s)) \cup {Len(s) + 1}
  BY <1>1
<1>3. Elements(Append(s, f)) = Elements(s) \cup {f}
  BY <1>1, <1>2 DEF Elements
<1>4. f # "established" /\ NoneOf(s) => NoneOf(Append(s, f))
  BY Zenon, <1>1, <1>2 DEF NoneOf
<1>5. f # "established" /\ FirstOf(s) => FirstOf(Append(s, f))
  BY <1>1, <1>2 DEF FirstOf
<1> QED
  BY Zenon, <1>1, <1>3, <1>4, <1>5

\* What is taken from a queue
LEMMA Popped ==
  ASSUME NEW s \in Seq(Functors), s # <<>>
  PROVE  /\ Head(s) \in Functors /\ Tail(s) \in Seq(Functors)
         /\ Elements(s) = Elements(Tail(s)) \cup {Head(s)}
         /\ NoneOf(s) => NoneOf(Tail(s)) /\ Head(s) # "established"
         /\ FirstOf(s) => NoneOf(Tail(s)) /\ Head(s) = "established"
<1>1. /\ Head(s) \in Functors /\ Tail(s) \in Seq(Functors) /\ Head(s) = s[1]
      /\ Len(s) \in Nat \ {0} /\ Len(Tail(s)) = Len(s) - 1
      /\ \A i \in 1 .. Len(s) - 1 : Tail(s)[i] = s[i + 1]
  BY EmptySeq, HeadTailProperties
<1>2. DOMAIN s = 1 .. Len(s) /\ DOMAIN Tail(s) = 1 .. Len(s) - 1
  BY <1>1
<1>3. Elements(s) = Elements(Tail(s)) \cup {Head(s)}
  <2>1. Elements(Tail(s)) \subseteq Elements(s) /\ Head(s) \in Elements(s)
    BY <1>1, <1>2 DEF Elements
  <2>2. ASSUME NEW i \in DOMAIN s  PROVE s[i] \in Elements(Tail(s)) \cup {Head(s)}
    <3>1. CASE i = 1
      BY Zenon, <1>1, <3>1
    <3>2. CASE i # 1
      <4>1. i - 1 \in 1 .. Len(s) - 1 /\ Tail(s)[i - 1] = s[i]
        BY <1>1, <1>2, <3>2
      <4> QED
        BY Zenon, <1>2, <4>1 DEF Elements
    <3> QED
      BY Zenon, <3>1, <3>2
  <2> QED
    BY Zenon, <2>1, <2>2 DEF Elements
<1>4. NoneOf(s) => NoneOf(Tail(s)) /\ Head(s) # "established"
  BY <1>1, <1>2 DEF NoneOf
<1>5. FirstOf(s) => NoneOf(Tail(s)) /\ Head(s) = "established"
  BY <1>1, <1>2 DEF NoneOf, FirstOf
<1> QED
  BY Zenon, <1>1, <1>3, <1>4, <1>5

\* An empty queue has nothing in it.
LEMMA EmptyQueue ==
  Elements(<<>>) = {} /\ <<>> \in Seq(Functors) /\ NoneOf(<<>>) /\ ~FirstOf(<<>>)
BY DEF Elements, NoneOf, FirstOf
-----------------------------------------------------------------------------
(* Bytes                                                                   *)

\* The numbers of the bytes
Numbers == Nat

\* Concatenation is associative.
LEMMA ConcatAssoc ==
  \A x, y, z \in Seq(Numbers) : (x \o y) \o z = x \o (y \o z)
BY ConcatAssociative

\* What is at a place of two sequences in a row
LEMMA ConcatAt ==
  ASSUME NEW S, NEW x \in Seq(S), NEW y \in Seq(S), NEW i \in 1 .. Len(x) + Len(y)
  PROVE  (x \o y)[i] = IF i <= Len(x) THEN x[i] ELSE y[i - Len(x)]
BY Zenon, ConcatProperties

\* A sequence of bytes cut in two is the same bytes.
LEMMA CutInTwo ==
  ASSUME NEW s \in Seq(Nat), NEW r \in 0 .. Len(s)
  PROVE  /\ SubSeq(s, 1, r) \in Seq(Nat) /\ SubSeq(s, r + 1, Len(s)) \in Seq(Nat)
         /\ SubSeq(s, 1, r) \o SubSeq(s, r + 1, Len(s)) = s
         /\ r = 0 => SubSeq(s, 1, r) = <<>>
<1> DEFINE a == SubSeq(s, 1, r)
           b == SubSeq(s, r + 1, Len(s))
<1>1. /\ a \in Seq(Nat) /\ Len(a) = r /\ \A i \in 1 .. r : a[i] = s[i]
  BY SubSeqProperties
<1>2. /\ b \in Seq(Nat) /\ Len(b) = Len(s) - r /\ \A i \in 1 .. Len(s) - r : b[i] = s[r + i]
  BY SubSeqProperties
<1> HIDE DEF a, b
<1>3. a \o b \in Seq(Nat) /\ Len(a \o b) = Len(s)
  BY <1>1, <1>2, ConcatProperties
<1>4. ASSUME NEW i \in 1 .. Len(s)  PROVE (a \o b)[i] = s[i]
  <2>1. i \in 1 .. Len(a) + Len(b)
    BY <1>1, <1>2
  <2>2. (a \o b)[i] = IF i <= r THEN a[i] ELSE b[i - r]
    BY Zenon, <1>1, <1>2, <2>1, ConcatAt
  <2>3. CASE i <= r
    <3>1. i \in 1 .. r
      BY <2>3
    <3> QED
      BY Zenon, <1>1, <2>2, <2>3, <3>1
  <2>4. CASE ~(i <= r)
    <3>1. i - r \in 1 .. Len(s) - r /\ r + (i - r) = i
      BY <2>4
    <3> QED
      BY Zenon, <1>2, <2>2, <2>4, <3>1
  <2> QED
    BY Zenon, <2>3, <2>4
<1>5. a \o b = s
  BY Zenon, <1>3, <1>4, SeqEqual
<1>6. r = 0 => a = <<>>
  BY Zenon, <1>1, EmptySeq
<1> QED
  BY Zenon, <1>1, <1>2, <1>5, <1>6 DEF a, b

\* The bytes of the next message
LEMMA MessageBytes ==
  ASSUME accepted \in Nat
  PROVE  Bytes(2) \in Seq(Nat) /\ Len(Bytes(2)) = 2
BY DEF Bytes

\* What is accepted is numbered on.
LEMMA NumberedOn ==
  ASSUME accepted \in Nat
  PROVE  [i \in 1 .. accepted |-> i] \o Bytes(2) = [i \in 1 .. accepted + 2 |-> i]
BY DEF Bytes

\* Bytes that join the wire and the output buffer are in order if the buffer was
\* empty, or nothing goes directly to the wire.
LEMMA Joined ==
  ASSUME NEW w \in Seq(Numbers), NEW u \in Seq(Numbers), NEW v \in Seq(Numbers)
  PROVE  /\ (w \o u) \o (<<>> \o v) = (w \o <<>>) \o (u \o v)
         /\ (w \o <<>>) \o (u \o v) = (w \o u) \o (<<>> \o v)
<1>1. (w \o u) \o v = w \o (u \o v)
  BY Zenon, ConcatAssoc
<1>2. <<>> \o v = v /\ w \o <<>> = w
  BY Zenon, ConcatEmptySeq
<1> QED
  BY ONLY Zenon, <1>1, <1>2

\* What sendInLoop does to the output and the channel
LEMMA SendEffect ==
  ASSUME TypeOK, SendInLoop(2)
  PROVE  /\ out' \in Seq(Nat) /\ wire' \in Seq(Nat) /\ accepted' \in Nat
         /\ failed' \in BOOLEAN
         /\ InOrder => InOrder'
         /\ (out # <<>> <=> IsWriting) => (out' # <<>> <=> "write" \in interest')
         /\ fin /\ CanWriteDirectly => out' = <<>>
         /\ pending' = pending \/ \E f \in {"writeComplete", "highWater"} :
              pending' = Append(pending, f)
         /\ interest' = interest \/ interest' = interest \cup {"write"}
         /\ index' = index \/ (index' = "kAdded" /\ state # "kDisconnected")
         /\ state = "kDisconnected" => interest' = interest
<1>1. CASE state = "kDisconnected"
  BY Zenon, <1>1 DEF SendInLoop, TypeOK, InOrder, CanWriteDirectly, IsWriting
<1>2. CASE state # "kDisconnected"
  <2>1. PICK r \in IF CanWriteDirectly THEN WriteResults(2) ELSE {0} :
          IF r = -1
          THEN failed' = TRUE /\ UNCHANGED <<out, wire, index, interest, pending>>
          ELSE LET rest == SubSeq(Bytes(2), r + 1, 2)
                   high == /\ Len(out) + Len(rest) >= HighWater
                           /\ Len(out) < HighWater
               IN  /\ wire' = wire \o SubSeq(Bytes(2), 1, r)
                   /\ out' = out \o rest
                   /\ UNCHANGED failed
                   /\ pending' = pending
                        \o (IF rest = <<>> THEN <<"writeComplete">> ELSE <<>>)
                        \o (IF rest # <<>> /\ high THEN <<"highWater">> ELSE <<>>)
                   /\ IF rest # <<>> /\ ~IsWriting
                      THEN UpdateChannel(interest \cup {"write"})
                      ELSE UNCHANGED <<index, interest>>
    BY Zenon, <1>2 DEF SendInLoop
  <2>2. accepted' = accepted + 2 /\ accepted \in Nat /\ out \in Seq(Nat) /\ wire \in Seq(Nat)
        /\ pending \in Seq(Functors)
    BY Zenon, <1>2 DEF SendInLoop, TypeOK
  <2>3. CASE r = -1
    BY <1>2, <2>1, <2>2, <2>3 DEF TypeOK, InOrder, CanWriteDirectly, IsWriting
  <2>4. CASE r # -1
    <3> DEFINE direct == SubSeq(Bytes(2), 1, r)
               rest == SubSeq(Bytes(2), r + 1, 2)
    <3>1. r \in 0 .. 2 /\ (r = 0 \/ CanWriteDirectly) /\ (CanWriteDirectly => ~fin)
      BY <2>4 DEF WriteResults
    <3>2. /\ direct \in Seq(Nat) /\ rest \in Seq(Nat) /\ direct \o rest = Bytes(2)
          /\ r = 0 => direct = <<>>
      BY Zenon, <3>1, <2>2, MessageBytes, CutInTwo
    <3>3. wire' = wire \o direct /\ out' = out \o rest /\ failed' = failed
      BY Zenon, <2>1, <2>4
    <3>4. pending' = pending
                        \o (IF rest = <<>> THEN <<"writeComplete">> ELSE <<>>)
                        \o (IF rest # <<>> /\ (/\ Len(out) + Len(rest) >= HighWater
                                              /\ Len(out) < HighWater)
                            THEN <<"highWater">> ELSE <<>>)
      BY Zenon, <2>1, <2>4
    <3>5. IF rest # <<>> /\ ~IsWriting
          THEN UpdateChannel(interest \cup {"write"})
          ELSE UNCHANGED <<index, interest>>
      BY Zenon, <2>1, <2>4
    <3> HIDE DEF direct, rest
    <3>6. out' \in Seq(Nat) /\ wire' \in Seq(Nat) /\ accepted' \in Nat
      BY <2>2, <3>2, <3>3, ConcatProperties
    <3>7. InOrder => InOrder'
      <4>1. CASE failed
        BY Zenon, <3>3, <4>1 DEF InOrder
      <4>2. CASE ~failed /\ wire \o out = [i \in 1 .. accepted |-> i]
        <5>1. out = <<>> \/ direct = <<>>
          BY Zenon, <3>1, <3>2 DEF CanWriteDirectly
        <5>2. wire' \o out' = (wire \o out) \o (direct \o rest)
          <6>1. /\ wire \in Seq(Numbers) /\ out \in Seq(Numbers)
                /\ direct \in Seq(Numbers) /\ rest \in Seq(Numbers)
            BY Zenon, <2>2, <3>2 DEF Numbers
          <6>2. CASE out = <<>>
            BY ONLY Zenon, <3>3, <6>1, <6>2, Joined
          <6>3. CASE direct = <<>>
            BY ONLY Zenon, <3>3, <6>1, <6>3, Joined
          <6> QED
            BY Zenon, <5>1, <6>2, <6>3
        <5>3. wire' \o out' = [i \in 1 .. accepted' |-> i]
          BY Zenon, <2>2, <3>2, <4>2, <5>2, NumberedOn
        <5> QED
          BY Zenon, <5>3 DEF InOrder
      <4> QED
        BY Zenon, <4>1, <4>2 DEF InOrder
    <3>8. out' = <<>> <=> out = <<>> /\ rest = <<>>
      BY <2>2, <3>2, <3>3
    <3>9. (out # <<>> <=> IsWriting) => (out' # <<>> <=> "write" \in interest')
      BY Zenon, <3>5, <3>8 DEF IsWriting, UpdateChannel
    <3>10. pending' = pending \/ \E f \in {"writeComplete", "highWater"} :
             pending' = Append(pending, f)
      <4>1. \A p \in Seq(Functors) : p \o <<>> = p /\ \A f \in Functors : p \o <<f>> = Append(p, f)
        BY Zenon, ConcatEmptySeq, AppendIsConcat
      <4>2. "writeComplete" \in Functors /\ "highWater" \in Functors
        BY Zenon DEF Functors, Shared
      <4>3. CASE rest = <<>>
        <5>1. Append(pending, "writeComplete") \in Seq(Functors)
          BY Zenon, <2>2, <4>2, Pushed
        <5>2. pending' = (pending \o <<"writeComplete">>) \o <<>>
          BY ONLY Zenon, <3>4, <4>3
        <5>3. pending' = Append(pending, "writeComplete")
          BY ONLY Zenon, <2>2, <4>1, <4>2, <5>1, <5>2
        <5> QED
          BY ONLY Zenon, <5>3
      <4>4. CASE rest # <<>>
        <5>1. \/ pending' = (pending \o <<>>) \o <<"highWater">>
              \/ pending' = (pending \o <<>>) \o <<>>
          BY ONLY Zenon, <3>4, <4>4
        <5> QED
          BY ONLY Zenon, <2>2, <4>1, <4>2, <5>1
      <4> QED
        BY Zenon, <4>3, <4>4
    <3>11. /\ interest' = interest \/ interest' = interest \cup {"write"}
           /\ index' = index \/ index' = "kAdded"
      BY Zenon, <3>5 DEF UpdateChannel
    <3>12. failed' \in BOOLEAN
      BY Zenon, <3>3 DEF TypeOK
    <3> QED
      BY Zenon, <1>2, <3>1, <3>6, <3>7, <3>9, <3>10, <3>11, <3>12
  <2> QED
    BY Zenon, <2>3, <2>4
<1> QED
  BY Zenon, <1>1, <1>2
\* What handleWrite does to the output and the channel
LEMMA WriteEffect ==
  ASSUME TypeOK, EventWrite
  PROVE  /\ out' \in Seq(Nat) /\ wire' \in Seq(Nat)
         /\ failed' \in BOOLEAN /\ fin' \in BOOLEAN
         /\ InOrder => InOrder'
         /\ (out # <<>> <=> IsWriting) => (out' # <<>> <=> "write" \in interest')
         /\ (out # <<>> <=> IsWriting) /\ (fin => out = <<>>) => (fin' => out' = <<>>)
         /\ pending' = pending \/ pending' = Append(pending, "writeComplete")
         /\ interest' = interest \/ interest' = interest \ {"write"}
         /\ index' = index \/ (IsWriting /\ index' = IF index = "kAdded" /\ interest' = {}
                                                    THEN "kDeleted" ELSE "kAdded")
<1>0. out \in Seq(Nat) /\ wire \in Seq(Nat) /\ failed \in BOOLEAN /\ fin \in BOOLEAN
      /\ accepted' = accepted
  BY Zenon DEF TypeOK, EventWrite
<1>1. CASE ~IsWriting
  <2>1. UNCHANGED <<index, interest, out, wire, failed, fin, pending>>
    BY Zenon, <1>1 DEF EventWrite
  <2> QED
    BY Zenon, <1>0, <1>1, <2>1 DEF InOrder, IsWriting
<1>2. CASE IsWriting
  <2>1. PICK r \in IF peer \in {"rst", "dead"} THEN {-1} ELSE (1 .. Len(out)) \cup {-1} :
          LET rest == IF r = -1 THEN <<>> ELSE SubSeq(out, r + 1, Len(out))
          IN  /\ out' = rest
              /\ wire' = IF r = -1 THEN wire ELSE wire \o SubSeq(out, 1, r)
              /\ failed' = (failed \/ r = -1)
              /\ IF rest # <<>>
                 THEN UNCHANGED <<index, interest, fin, pending>>
                 ELSE /\ UpdateChannel(interest \ {"write"})
                      /\ pending' = Append(pending, "writeComplete")
                      /\ IF state = "kDisconnecting" THEN ShutdownInLoop(FALSE)
                         ELSE UNCHANGED fin
    BY Zenon, <1>2 DEF EventWrite
  <2> DEFINE rest == IF r = -1 THEN <<>> ELSE SubSeq(out, r + 1, Len(out))
  <2>2. out' = rest /\ failed' = (failed \/ r = -1)
        /\ wire' = IF r = -1 THEN wire ELSE wire \o SubSeq(out, 1, r)
    BY Zenon, <2>1
  <2>3. IF rest # <<>>
        THEN UNCHANGED <<index, interest, fin, pending>>
        ELSE /\ UpdateChannel(interest \ {"write"})
             /\ pending' = Append(pending, "writeComplete")
             /\ IF state = "kDisconnecting" THEN ShutdownInLoop(FALSE)
                ELSE UNCHANGED fin
    BY Zenon, <2>1
  <2>4. out' \in Seq(Nat) /\ wire' \in Seq(Nat) /\ (InOrder => InOrder')
    <3>1. CASE r = -1
      <4>1. out' = <<>> /\ wire' = wire /\ failed'
        BY Zenon, <2>2, <3>1
      <4>2. InOrder'
        BY ONLY Zenon, <4>1 DEF InOrder
      <4> QED
        BY <1>0, <4>1, <4>2
    <3>2. CASE r # -1
      <4> DEFINE a == SubSeq(out, 1, r)
                 b == SubSeq(out, r + 1, Len(out))
      <4>1. r \in 0 .. Len(out)
        BY <1>0, <3>2
      <4>2. a \in Seq(Nat) /\ b \in Seq(Nat) /\ a \o b = out
        BY Zenon, <1>0, <4>1, CutInTwo
      <4>3. out' = b /\ wire' = wire \o a /\ failed' = failed
        BY Zenon, <1>0, <2>2, <3>2
      <4> HIDE DEF a, b
      <4>4. wire' \in Seq(Nat)
        BY Zenon, <1>0, <4>2, <4>3, ConcatProperties
      <4>5. wire' \o out' = wire \o out
        <5>1. wire \in Seq(Numbers) /\ a \in Seq(Numbers) /\ b \in Seq(Numbers)
          BY Zenon, <1>0, <4>2 DEF Numbers
        <5>2. (wire \o a) \o b = wire \o (a \o b)
          BY ONLY Zenon, <5>1, ConcatAssoc
        <5> QED
          BY ONLY Zenon, <4>2, <4>3, <5>2
      <4> QED
        BY Zenon, <1>0, <4>2, <4>3, <4>4, <4>5 DEF InOrder
    <3> QED
      BY Zenon, <3>1, <3>2
  <2> HIDE DEF rest
  <2>5. fin' \in BOOLEAN /\ failed' \in BOOLEAN /\ (out' # <<>> => fin' = fin)
    BY Zenon, <1>0, <2>2, <2>3 DEF ShutdownInLoop
  <2>6. /\ out' # <<>> <=> "write" \in interest'
        /\ interest' = interest \/ interest' = interest \ {"write"}
        /\ index' = index \/ index' = IF index = "kAdded" /\ interest' = {}
                                      THEN "kDeleted" ELSE "kAdded"
        /\ pending' = pending \/ pending' = Append(pending, "writeComplete")
    BY Zenon, <1>2, <2>2, <2>3 DEF UpdateChannel, IsWriting
  <2>7. (out # <<>> <=> IsWriting) /\ (fin => out = <<>>) => (fin' => out' = <<>>)
    BY Zenon, <1>2, <2>5
  <2> QED
    BY Zenon, <1>2, <2>4, <2>5, <2>6, <2>7
<1> QED
  BY Zenon, <1>1, <1>2
-----------------------------------------------------------------------------
(* Types                                                                   *)

\* The functors by their names, and what a push of one makes of a queue
LEMMA PushTypes ==
  ASSUME TypeOK
  PROVE  /\ pending \in Seq(Functors) /\ batch \in Seq(Functors)
         /\ \A f \in Functors : Append(pending, f) \in Seq(Functors)
         /\ {"established", "forceClose", "destroyed", "writeComplete", "highWater", "send",
             "shutdown", "startRead", "stopRead"} \subseteq Functors
<1>1. {"established", "forceClose", "destroyed", "writeComplete", "highWater", "send",
       "shutdown", "startRead", "stopRead"} \subseteq Functors
  BY Zenon DEF Functors, Shared, Raw
<1>2. pending \in Seq(Functors) /\ batch \in Seq(Functors)
  BY Zenon DEF TypeOK
<1> QED
  BY Zenon, <1>1, <1>2, Pushed

\* The types, a few variables at a time
ConnType ==
  /\ state \in States /\ index \in {"kNew", "kAdded", "kDeleted"}
  /\ interest \in SUBSET {"read", "write"}
DataType ==
  /\ out \in Seq(Nat) /\ wire \in Seq(Nat) /\ accepted \in Nat
  /\ fin \in BOOLEAN /\ failed \in BOOLEAN
LoopType ==
  /\ peer \in {"open", "fin", "rst", "dead"}
  /\ lpc \in {"poll", "event", "message", "functors", "overflow", "gone"}
  /\ revents \in SUBSET {"in", "out", "hup", "err"}
QueueType == pending \in Seq(Functors) /\ batch \in Seq(Functors) /\ held \in BOOLEAN
OwnerType ==
  /\ base \in Seq({"remove"}) /\ owned \in BOOLEAN /\ owner \in BOOLEAN /\ quit \in BOOLEAN
  /\ misuse \in {"none", "freed", "owner", "loop"}
UserType ==
  /\ upc \in [Users -> {"idle", "shutdown", "forceClose", "forceClosePush", "shutdownPush"}
                        \cup Raw]
  /\ uref \in [Users -> BOOLEAN]
  /\ delayed \in BOOLEAN
CountType ==
  /\ ops \in 0 .. MaxOps /\ reads \in 0 .. MaxReads
  /\ ups \in Nat /\ downs \in Nat /\ closes \in Nat /\ destroys \in Nat
  /\ upset \in SUBSET Upsets /\ sameLoop \in BOOLEAN

\* They are all of TypeOK.
LEMMA TypeParts ==
  /\ TypeOK <=> /\ ConnType /\ DataType /\ LoopType /\ QueueType /\ OwnerType /\ UserType
                /\ CountType
  /\ TypeOK' <=> /\ ConnType' /\ DataType' /\ LoopType' /\ QueueType' /\ OwnerType' /\ UserType'
                 /\ CountType'
BY Zenon DEF TypeOK, ConnType, DataType, LoopType, QueueType, OwnerType, UserType, CountType

\* What a step leaves alone keeps its type.
LEMMA TypesStay ==
  /\ ConnType /\ UNCHANGED connVars => ConnType'
  /\ DataType /\ UNCHANGED dataVars => DataType'
  /\ LoopType /\ UNCHANGED <<peer, loopVars>> => LoopType'
  /\ QueueType /\ UNCHANGED queueVars => QueueType'
  /\ OwnerType /\ UNCHANGED <<ownerVars, misuse>> => OwnerType'
  /\ UserType /\ UNCHANGED <<userVars, delayed>> => UserType'
  /\ CountType /\ UNCHANGED <<limits, callbacks, upset, sameLoop>> => CountType'
<1>1. ConnType /\ UNCHANGED connVars => ConnType'
  BY Zenon DEF ConnType, connVars
<1>2. DataType /\ UNCHANGED dataVars => DataType'
  BY Zenon DEF DataType, dataVars
<1>3. LoopType /\ UNCHANGED <<peer, loopVars>> => LoopType'
  BY Zenon DEF LoopType, loopVars
<1>4. QueueType /\ UNCHANGED queueVars => QueueType'
  BY Zenon DEF QueueType, queueVars
<1>5. OwnerType /\ UNCHANGED <<ownerVars, misuse>> => OwnerType'
  BY Zenon DEF OwnerType, ownerVars
<1>6. UserType /\ UNCHANGED <<userVars, delayed>> => UserType'
  BY Zenon DEF UserType, userVars
<1>7. CountType /\ UNCHANGED <<limits, callbacks, upset, sameLoop>> => CountType'
  BY Zenon DEF CountType, limits, callbacks
<1> QED
  BY Zenon, <1>1, <1>2, <1>3, <1>4, <1>5, <1>6, <1>7

\* The steps of handleEvent, but for those that close the connection
LEMMA EventTypes ==
  ASSUME TypeOK,
         PollEvent \/ EventError \/ ReadData \/ MessageReturns \/ ReadError \/
         EventWrite
  PROVE  TypeOK'
<1>0. ConnType /\ DataType /\ LoopType /\ QueueType /\ OwnerType /\ UserType /\ CountType
  BY Zenon, TypeParts
<1>1. CASE PollEvent
  <2>1. LoopType'
    BY <1>0, <1>1 DEF LoopType, PollEvent, Ready
  <2> QED
    BY Zenon, <1>0, <1>1, <2>1, TypesStay, TypeParts DEF PollEvent
<1>2. CASE EventError
  <2>1. LoopType'
    BY Zenon, <1>0, <1>2 DEF LoopType, EventError
  <2> QED
    BY Zenon, <1>0, <1>2, <2>1, TypesStay, TypeParts DEF EventError
<1>3. CASE ReadData
  <2>1. LoopType'
    BY Zenon, <1>0, <1>3 DEF LoopType, ReadData, ReadEvent
  <2>2. CountType'
    BY <1>0, <1>3, ConnectionAssumption DEF CountType, ReadData, callbacks
  <2> QED
    BY Zenon, <1>0, <1>3, <2>1, <2>2, TypesStay, TypeParts DEF ReadData
<1>4. CASE MessageReturns
  <2>1. LoopType'
    BY Zenon, <1>0, <1>4 DEF LoopType, MessageReturns
  <2> QED
    BY Zenon, <1>0, <1>4, <2>1, TypesStay, TypeParts DEF MessageReturns
<1>5. CASE ReadError
  <2>1. LoopType'
    BY Zenon, <1>0, <1>5 DEF LoopType, ReadError, ReadEvent
  <2> QED
    BY Zenon, <1>0, <1>5, <2>1, TypesStay, TypeParts DEF ReadError
<1>6. CASE EventWrite
  <2>1. ConnType'
    BY Zenon, <1>0, <1>6, WriteEffect DEF ConnType, EventWrite
  <2>2. DataType'
    BY Zenon, <1>0, <1>6, WriteEffect DEF DataType, EventWrite
  <2>3. LoopType'
    BY Zenon, <1>0, <1>6 DEF LoopType, EventWrite
  <2>4. QueueType'
    BY Zenon, <1>0, <1>6, WriteEffect, PushTypes DEF QueueType, EventWrite
  <2> QED
    BY Zenon, <1>0, <1>6, <2>1, <2>2, <2>3, <2>4, TypesStay, TypeParts DEF EventWrite
<1> QED
  BY Zenon, <1>1, <1>2, <1>3, <1>4, <1>5, <1>6

\* What handleClose does
LEMMA CloseTypes ==
  ASSUME TypeOK, HandleClose
  PROVE  /\ state' = "kDisconnected" /\ interest' = {}
         /\ index' = IF index = "kAdded" THEN "kDeleted" ELSE "kAdded"
         /\ pending' \in Seq(Functors) /\ base' \in Seq({"remove"}) /\ owned' \in BOOLEAN
         /\ downs' = downs + 1 /\ closes' = closes + 1
         /\ misuse' \in {"none", "freed", "owner", "loop"}
<1>1. Append(pending, "destroyed") \in Seq(Functors) /\ Append(base, "remove") \in Seq({"remove"})
  BY Zenon, PushTypes, AppendProperties DEF TypeOK
<1> QED
  BY Zenon, <1>1 DEF HandleClose, UpdateChannel, RemoveConnection, TypeOK

\* The rest of handleEvent, and the batch of functors
LEMMA ClosingTypes ==
  ASSUME TypeOK,
         (EventClose /\ HandleClose) \/ (EventClose /\ "in" \in revents) \/ ReadEof \/
         StartFunctors \/ FunctorsDone \/ LoopEnds
  PROVE  TypeOK'
<1>0. ConnType /\ DataType /\ LoopType /\ QueueType /\ OwnerType /\ UserType /\ CountType
  BY Zenon, TypeParts
<1>1. CASE (EventClose /\ HandleClose)
  <2>1. ConnType'
    BY Zenon, <1>0, <1>1, CloseTypes DEF ConnType, States
  <2>2. LoopType'
    BY Zenon, <1>0, <1>1 DEF LoopType, EventClose
  <2>3. QueueType'
    BY Zenon, <1>0, <1>1, CloseTypes DEF QueueType, EventClose
  <2>4. OwnerType'
    BY Zenon, <1>0, <1>1, CloseTypes DEF OwnerType, EventClose
  <2>5. CountType'
    BY <1>0, <1>1, CloseTypes DEF CountType, EventClose, limits
  <2> QED
    BY Zenon, <1>0, <1>1, <2>1, <2>2, <2>3, <2>4, <2>5, TypesStay, TypeParts DEF EventClose
<1>2. CASE (EventClose /\ "in" \in revents)
  <2>1. LoopType'
    BY Zenon, <1>0, <1>2 DEF LoopType, EventClose
  <2>2. QueueType'
    BY Zenon, <1>0, <1>2 DEF QueueType, EventClose
  <2>3. OwnerType'
    BY Zenon, <1>0, <1>2 DEF OwnerType, EventClose
  <2>4. CountType'
    BY Zenon, <1>0, <1>2 DEF CountType, EventClose, limits
  <2> QED
    BY Zenon, <1>0, <1>2, <2>1, <2>2, <2>3, <2>4, TypesStay, TypeParts DEF EventClose
<1>3. CASE ReadEof
  <2>1. ConnType'
    BY Zenon, <1>0, <1>3, CloseTypes DEF ConnType, ReadEof, States
  <2>2. LoopType'
    BY Zenon, <1>0, <1>3 DEF LoopType, ReadEof, ReadEvent
  <2>3. QueueType'
    BY Zenon, <1>0, <1>3, CloseTypes DEF QueueType, ReadEof
  <2>4. OwnerType'
    BY Zenon, <1>0, <1>3, CloseTypes DEF OwnerType, ReadEof
  <2>5. CountType'
    BY <1>0, <1>3, CloseTypes DEF CountType, ReadEof, limits
  <2> QED
    BY Zenon, <1>0, <1>3, <2>1, <2>2, <2>3, <2>4, <2>5, TypesStay, TypeParts DEF ReadEof
<1>4. CASE StartFunctors
  <2>1. LoopType'
    BY Zenon, <1>0, <1>4 DEF LoopType, StartFunctors
  <2>2. QueueType'
    BY Zenon, <1>0, <1>4, EmptyQueue DEF QueueType, StartFunctors
  <2> QED
    BY Zenon, <1>0, <1>4, <2>1, <2>2, TypesStay, TypeParts DEF StartFunctors
<1>5. CASE FunctorsDone
  <2>1. LoopType'
    BY Zenon, <1>0, <1>5 DEF LoopType, FunctorsDone
  <2>2. QueueType'
    BY Zenon, <1>0, <1>5 DEF QueueType, FunctorsDone
  <2> QED
    BY Zenon, <1>0, <1>5, <2>1, <2>2, TypesStay, TypeParts DEF FunctorsDone
<1>6. CASE LoopEnds
  <2>1. LoopType'
    BY Zenon, <1>0, <1>6 DEF LoopType, LoopEnds
  <2>2. QueueType'
    BY Zenon, <1>0, <1>6, EmptyQueue DEF QueueType, LoopEnds
  <2>3. UserType'
    BY Zenon, <1>0, <1>6 DEF UserType, LoopEnds, userVars
  <2>4. CountType'
    BY Zenon, <1>0, <1>6 DEF CountType, LoopEnds, Note, Upsets, limits, callbacks
  <2> QED
    BY Zenon, <1>0, <1>6, <2>1, <2>2, <2>3, <2>4, TypesStay, TypeParts DEF LoopEnds
<1> QED
  BY Zenon, <1>1, <1>2, <1>3, <1>4, <1>5, <1>6

\* Taking a functor from the batch
LEMMA TakeTypes ==
  ASSUME TypeOK, NEW f, Take(f)
  PROVE  /\ f \in Functors /\ batch' \in Seq(Functors) /\ held' \in BOOLEAN
         /\ batch # <<>> /\ batch \in Seq(Functors) /\ f = Head(batch) /\ batch' = Tail(batch)
         /\ lpc = "functors"
BY Zenon, Popped DEF TypeOK, Take

\* The functors of the loop
LEMMA FunctorTypes ==
  ASSUME TypeOK,
         ConnectEstablished \/ ConnectDestroyed \/ (ForceCloseInLoop /\ HandleClose)
         \/ (ForceCloseInLoop /\ state \notin Open) \/ UserFunctor \/ RunFreed \/
         RunSend \/ RunShutdown \/ RunStartRead \/ RunStopRead
  PROVE  TypeOK'
<1>0. ConnType /\ DataType /\ LoopType /\ QueueType /\ OwnerType /\ UserType /\ CountType
  BY Zenon, TypeParts
<1>1. CASE ConnectEstablished
  <2>1. ConnType'
    BY Zenon, <1>0, <1>1 DEF ConnType, ConnectEstablished, UpdateChannel, States
  <2>2. UserType'
    BY Zenon, <1>0, <1>1 DEF UserType, ConnectEstablished
  <2>3. CountType'
    BY <1>0, <1>1 DEF CountType, ConnectEstablished, limits
  <2>4. QueueType'
    BY Zenon, <1>0, <1>1, TakeTypes DEF QueueType, ConnectEstablished, Run
  <2> QED
    BY Zenon, <1>0, <1>1, <2>1, <2>2, <2>3, <2>4, TypesStay, TypeParts DEF
       ConnectEstablished, Run
<1>2. CASE ConnectDestroyed
  <2>1. ConnType'
    BY Zenon, <1>0, <1>2 DEF ConnType, ConnectDestroyed, DestroyConnection, RemoveChannel, States
  <2>2. CountType'
    BY <1>0, <1>2 DEF CountType, ConnectDestroyed, DestroyConnection, Note, Upsets, limits
  <2>3. QueueType'
    BY Zenon, <1>0, <1>2, TakeTypes DEF QueueType, ConnectDestroyed, Run
  <2> QED
    BY Zenon, <1>0, <1>2, <2>1, <2>2, <2>3, TypesStay, TypeParts DEF ConnectDestroyed, Run
<1>3. CASE (ForceCloseInLoop /\ HandleClose)
  <2>1. ConnType'
    BY Zenon, <1>0, <1>3, CloseTypes DEF ConnType, States
  <2>2. OwnerType'
    BY Zenon, <1>0, <1>3, CloseTypes DEF OwnerType, ForceCloseInLoop
  <2>3. CountType'
    BY <1>0, <1>3, CloseTypes DEF CountType, ForceCloseInLoop, limits
  <2>4. QueueType'
    BY Zenon, <1>0, <1>3, TakeTypes, CloseTypes DEF QueueType, ForceCloseInLoop, Run
  <2> QED
    BY Zenon, <1>0, <1>3, <2>1, <2>2, <2>3, <2>4, TypesStay, TypeParts DEF ForceCloseInLoop,
       Run
<1>4. CASE (ForceCloseInLoop /\ state \notin Open)
  <2>1. OwnerType'
    BY Zenon, <1>0, <1>4 DEF OwnerType, ForceCloseInLoop, Open
  <2>2. CountType'
    BY Zenon, <1>0, <1>4 DEF CountType, ForceCloseInLoop, limits, Open
  <2>3. QueueType'
    BY Zenon, <1>0, <1>4, TakeTypes DEF QueueType, ForceCloseInLoop, Open, Run, Open
  <2> QED
    BY Zenon, <1>0, <1>4, <2>1, <2>2, <2>3, TypesStay, TypeParts DEF ForceCloseInLoop, Open,
       Run
<1>5. CASE UserFunctor
  <2>1. QueueType'
    BY Zenon, <1>0, <1>5, TakeTypes DEF QueueType, UserFunctor, Run
  <2> QED
    BY Zenon, <1>0, <1>5, <2>1, TypesStay, TypeParts DEF UserFunctor, Run
<1>6. CASE RunFreed
  <2>1. OwnerType'
    BY Zenon, <1>0, <1>6 DEF OwnerType, RunFreed, ownerVars
  <2>2. QueueType'
    BY Zenon, <1>0, <1>6, TakeTypes DEF QueueType, RunFreed, Run
  <2> QED
    BY Zenon, <1>0, <1>6, <2>1, <2>2, TypesStay, TypeParts DEF RunFreed, Run
<1>7. CASE RunSend
  <2>1. ConnType'
    BY Zenon, <1>0, <1>7, SendEffect DEF ConnType, RunSend
  <2>2. DataType'
    BY Zenon, <1>0, <1>7, SendEffect DEF DataType, RunSend
  <2>3. QueueType'
    BY Zenon, <1>0, <1>7, TakeTypes, SendEffect, PushTypes DEF QueueType, RunSend, Run
  <2> QED
    BY Zenon, <1>0, <1>7, <2>1, <2>2, <2>3, TypesStay, TypeParts DEF RunSend, Run
<1>8. CASE RunShutdown
  <2>1. DataType'
    BY Zenon, <1>0, <1>8 DEF DataType, RunShutdown, ShutdownInLoop
  <2>2. QueueType'
    BY Zenon, <1>0, <1>8, TakeTypes DEF QueueType, RunShutdown, Run
  <2> QED
    BY Zenon, <1>0, <1>8, <2>1, <2>2, TypesStay, TypeParts DEF RunShutdown, Run
<1>9. CASE RunStartRead
  <2>1. ConnType'
    BY Zenon, <1>0, <1>9 DEF ConnType, RunStartRead, UpdateChannel
  <2>2. CountType'
    BY Zenon, <1>0, <1>9 DEF CountType, RunStartRead, Note, Upsets, limits, callbacks
  <2>3. QueueType'
    BY Zenon, <1>0, <1>9, TakeTypes DEF QueueType, RunStartRead, Run
  <2> QED
    BY Zenon, <1>0, <1>9, <2>1, <2>2, <2>3, TypesStay, TypeParts DEF RunStartRead, Run
<1>10. CASE RunStopRead
  <2>1. LoopType'
    BY Zenon, <1>0, <1>10 DEF LoopType, RunStopRead
  <2>2. QueueType'
    BY Zenon, <1>0, <1>10, TakeTypes DEF QueueType, RunStopRead, Run
  <2> QED
    BY Zenon, <1>0, <1>10, <2>1, <2>2, TypesStay, TypeParts DEF RunStopRead, Run
<1> QED
  BY Zenon, <1>1, <1>2, <1>3, <1>4, <1>5, <1>6, <1>7, <1>8, <1>9, <1>10

\* The calls made by the message callback, and the timer
LEMMA CallTypes ==
  ASSUME TypeOK,
         LoopSend \/ LoopShutdown \/ LoopForceClose \/ LoopForceCloseWithDelay \/
         LoopStopRead \/ DelayOver
  PROVE  TypeOK'
<1>0. ConnType /\ DataType /\ LoopType /\ QueueType /\ OwnerType /\ UserType /\ CountType
  BY Zenon, TypeParts
<1>1. CASE LoopSend
  <2>1. ConnType'
    BY Zenon, <1>0, <1>1, SendEffect DEF ConnType, LoopSend
  <2>2. DataType'
    BY Zenon, <1>0, <1>1, SendEffect DEF DataType, LoopSend
  <2>3. QueueType'
    BY Zenon, <1>0, <1>1, SendEffect, PushTypes DEF QueueType, LoopSend
  <2>4. CountType'
    BY <1>0, <1>1, ConnectionAssumption DEF CountType, LoopSend, Op, callbacks
  <2> QED
    BY Zenon, <1>0, <1>1, <2>1, <2>2, <2>3, <2>4, TypesStay, TypeParts DEF LoopSend
<1>2. CASE LoopShutdown
  <2>1. ConnType'
    BY Zenon, <1>0, <1>2 DEF ConnType, LoopShutdown, States
  <2>2. DataType'
    BY Zenon, <1>0, <1>2 DEF DataType, LoopShutdown, ShutdownInLoop
  <2>3. CountType'
    BY <1>0, <1>2, ConnectionAssumption DEF CountType, LoopShutdown, Op, callbacks
  <2> QED
    BY Zenon, <1>0, <1>2, <2>1, <2>2, <2>3, TypesStay, TypeParts DEF LoopShutdown
<1>3. CASE LoopForceClose
  <2>1. ConnType'
    BY Zenon, <1>0, <1>3 DEF ConnType, LoopForceClose, States
  <2>2. QueueType'
    BY Zenon, <1>0, <1>3, PushTypes DEF QueueType, LoopForceClose
  <2>3. CountType'
    BY <1>0, <1>3, ConnectionAssumption DEF CountType, LoopForceClose, Op, callbacks
  <2> QED
    BY Zenon, <1>0, <1>3, <2>1, <2>2, <2>3, TypesStay, TypeParts DEF LoopForceClose
<1>4. CASE LoopForceCloseWithDelay
  <2>1. ConnType'
    BY Zenon, <1>0, <1>4 DEF ConnType, LoopForceCloseWithDelay, States
  <2>2. UserType'
    BY Zenon, <1>0, <1>4 DEF UserType, LoopForceCloseWithDelay, userVars
  <2>3. CountType'
    BY <1>0, <1>4, ConnectionAssumption DEF CountType, LoopForceCloseWithDelay, Op,
       callbacks
  <2> QED
    BY Zenon, <1>0, <1>4, <2>1, <2>2, <2>3, TypesStay, TypeParts DEF LoopForceCloseWithDelay
<1>5. CASE LoopStopRead
  <2>1. LoopType'
    BY Zenon, <1>0, <1>5 DEF LoopType, LoopStopRead
  <2>2. CountType'
    BY <1>0, <1>5, ConnectionAssumption DEF CountType, LoopStopRead, Op, callbacks
  <2> QED
    BY Zenon, <1>0, <1>5, <2>1, <2>2, TypesStay, TypeParts DEF LoopStopRead
<1>6. CASE DelayOver
  <2>1. ConnType'
    BY Zenon, <1>0, <1>6 DEF ConnType, DelayOver, States
  <2>2. QueueType'
    BY Zenon, <1>0, <1>6, PushTypes DEF QueueType, DelayOver
  <2>3. UserType'
    BY Zenon, <1>0, <1>6 DEF UserType, DelayOver, userVars
  <2> QED
    BY Zenon, <1>0, <1>6, <2>1, <2>2, <2>3, TypesStay, TypeParts DEF DelayOver
<1> QED
  BY Zenon, <1>1, <1>2, <1>3, <1>4, <1>5, <1>6

\* The users
LEMMA UserTypes ==
  ASSUME TypeOK, NEW u \in Users, User(u)
  PROVE  TypeOK'
<1>0. ConnType /\ DataType /\ LoopType /\ QueueType /\ OwnerType /\ UserType /\ CountType
  BY Zenon, TypeParts
<1>1. CASE UserTests(u)
  <2>1. UserType'
    BY Zenon, <1>0, <1>1 DEF UserType, UserTests, Raw
  <2>2. CountType'
    BY <1>0, <1>1, ConnectionAssumption DEF CountType, UserTests, Op, callbacks
  <2> QED
    BY Zenon, <1>0, <1>1, <2>1, <2>2, TypesStay, TypeParts DEF UserTests
<1>2. CASE UserSetsState(u)
  <2>1. ConnType'
    BY Zenon, <1>0, <1>2 DEF ConnType, UserSetsState, States
  <2>2. UserType'
    BY Zenon, <1>0, <1>2 DEF UserType, UserSetsState
  <2>3. CountType'
    BY Zenon, <1>0, <1>2 DEF CountType, UserSetsState, Note, Upsets, limits, callbacks
  <2> QED
    BY Zenon, <1>0, <1>2, <2>1, <2>2, <2>3, TypesStay, TypeParts DEF UserSetsState
<1>3. CASE UserPushes(u)
  <2>1. QueueType'
    BY Zenon, <1>0, <1>3, PushTypes DEF QueueType, UserPushes, UserType, Raw
  <2>2. UserType'
    BY Zenon, <1>0, <1>3 DEF UserType, UserPushes
  <2>3. OwnerType'
    BY Zenon, <1>0, <1>3 DEF OwnerType, UserPushes, ownerVars
  <2> QED
    BY Zenon, <1>0, <1>3, <2>1, <2>2, <2>3, TypesStay, TypeParts DEF UserPushes
<1>4. CASE UserReleases(u)
  <2>1. UserType'
    BY Zenon, <1>0, <1>4 DEF UserType, UserReleases
  <2> QED
    BY Zenon, <1>0, <1>4, <2>1, TypesStay, TypeParts DEF UserReleases
<1> QED
  BY Zenon, <1>1, <1>2, <1>3, <1>4 DEF User

\* The owner and the peer
LEMMA OwnerTypes ==
  ASSUME TypeOK,
         RemoveConnectionInLoop \/ OwnerDestroyed \/ OwnerQuitsLoop \/ PeerCloses
  PROVE  TypeOK'
<1>0. ConnType /\ DataType /\ LoopType /\ QueueType /\ OwnerType /\ UserType /\ CountType
  BY Zenon, TypeParts
<1>1. CASE RemoveConnectionInLoop
  <2>1. QueueType'
    BY Zenon, <1>0, <1>1, PushTypes DEF QueueType, RemoveConnectionInLoop
  <2>2. OwnerType'
    BY Zenon, <1>0, <1>1, HeadTailProperties DEF OwnerType, RemoveConnectionInLoop
  <2> QED
    BY Zenon, <1>0, <1>1, <2>1, <2>2, TypesStay, TypeParts DEF RemoveConnectionInLoop
<1>2. CASE OwnerDestroyed
  <2>1. ConnType'
    BY Zenon, <1>0, <1>2 DEF ConnType, OwnerDestroyed, DestroyConnection, RemoveChannel, States,
       connVars
  <2>2. QueueType'
    BY Zenon, <1>0, <1>2, PushTypes DEF QueueType, OwnerDestroyed, DestroyConnection
  <2>3. OwnerType'
    BY Zenon, <1>0, <1>2 DEF OwnerType, OwnerDestroyed
  <2>4. CountType'
    <3>1. CASE DestroyConnection
      BY <1>0, <1>2, <3>1 DEF CountType, OwnerDestroyed, DestroyConnection, Note, Upsets, limits
    <3>2. CASE UNCHANGED <<downs, destroys, upset>>
      BY Zenon, <1>0, <1>2, <3>2 DEF CountType, OwnerDestroyed, limits
    <3> QED
      BY Zenon, <1>2, <3>1, <3>2 DEF OwnerDestroyed
  <2> QED
    BY Zenon, <1>0, <1>2, <2>1, <2>2, <2>3, <2>4, TypesStay, TypeParts DEF OwnerDestroyed
<1>3. CASE PeerCloses
  <2>1. LoopType'
    BY Zenon, <1>0, <1>3 DEF LoopType, PeerCloses, loopVars
  <2> QED
    BY Zenon, <1>0, <1>3, <2>1, TypesStay, TypeParts DEF PeerCloses
<1>4. CASE OwnerQuitsLoop
  <2>1. OwnerType'
    BY Zenon, <1>0, <1>4 DEF OwnerType, OwnerQuitsLoop
  <2> QED
    BY Zenon, <1>0, <1>4, <2>1, TypesStay, TypeParts DEF OwnerQuitsLoop
<1> QED
  BY Zenon, <1>1, <1>2, <1>3, <1>4

\* Every step keeps the types.
LEMMA NextTypes ==
  ASSUME TypeOK, [Next]_vars
  PROVE  TypeOK'
<1>1. CASE UNCHANGED vars
  <2>1. UNCHANGED <<connVars, dataVars, peer, loopVars, queueVars, ownerVars, delayed, userVars,
                    limits, callbacks, misuse, upset, sameLoop>>
    BY Zenon, <1>1 DEF vars
  <2> QED
    BY Zenon, <2>1, TypesStay, TypeParts
<1>2. CASE Loop
  BY Zenon, <1>2, EventTypes, ClosingTypes, FunctorTypes
     DEF Loop, RunFunctor, EventClose, ForceCloseInLoop, Open
<1>3. CASE Next /\ ~Loop
  BY Zenon, <1>3, EventTypes, CallTypes, UserTypes, OwnerTypes DEF Next, LoopUser
<1> QED
  BY Zenon, <1>1, <1>2, <1>3

-----------------------------------------------------------------------------
(* The output                                                              *)

\* A step that moves no bytes keeps the output in order, if it closes the
\* write side only of a channel that is not writing.
LEMMA OutputStays ==
  ASSUME TypeOK, Output, UNCHANGED <<out, accepted, wire, failed>>,
         closes' + destroys' = 0 =>
           /\ closes + destroys = 0 /\ (fin' => fin \/ ~IsWriting)
           /\ "write" \in interest' <=> "write" \in interest
  PROVE  Output'
<1>1. InOrder'
  BY Zenon DEF Output, InOrder
<1>2. Buffered'
  BY Zenon DEF Output, Buffered, IsWriting
<1>3. FinAfterOutput'
  BY Zenon DEF Output, Buffered, FinAfterOutput
<1> QED
  BY Zenon, <1>1, <1>2, <1>3 DEF Output

\* The steps that leave the output alone
LEMMA OutputAlone ==
  ASSUME TypeOK, Output, UNCHANGED <<interest, dataVars, callbacks>>
  PROVE  Output'
BY Zenon, OutputStays DEF dataVars, callbacks

\* A connection that is closed or destroyed may drop its output.
LEMMA OutputDropped ==
  ASSUME TypeOK, Output, UNCHANGED dataVars,
         (closes' = closes + 1 /\ destroys' = destroys)
           \/ (destroys' = destroys + 1 /\ closes' = closes)
  PROVE  Output'
<1>1. closes' + destroys' # 0
  BY DEF TypeOK
<1> QED
  BY Zenon, <1>1, OutputStays DEF dataVars

\* sendInLoop keeps the output in order, and a connection whose write side is
\* closed buffers nothing.
LEMMA OutputSent ==
  ASSUME TypeOK, Output, SendInLoop(2), UNCHANGED <<fin, callbacks>>
  PROVE  Output'
<1>1. InOrder'
  BY Zenon, SendEffect DEF Output
<1>2. UNCHANGED <<fin, closes, destroys>>
  BY Zenon DEF callbacks
<1>3. Buffered'
  BY Zenon, <1>2, SendEffect DEF Output, Buffered, IsWriting
<1>4. FinAfterOutput'
  <2>1. SUFFICES ASSUME fin, closes + destroys = 0  PROVE out' = <<>>
    BY <1>2 DEF FinAfterOutput
  <2>2. CanWriteDirectly
    BY Zenon, <2>1 DEF Output, Buffered, FinAfterOutput, CanWriteDirectly
  <2> QED
    BY Zenon, <2>1, <2>2, SendEffect
<1> QED
  BY Zenon, <1>1, <1>3, <1>4 DEF Output

\* handleWrite keeps the output in order.
LEMMA OutputWritten ==
  ASSUME TypeOK, Output, EventWrite
  PROVE  Output'
<1>1. InOrder'
  BY Zenon, WriteEffect DEF Output
<1>2. UNCHANGED <<closes, destroys>>
  BY Zenon DEF EventWrite, callbacks
<1>3. Buffered'
  BY Zenon, <1>2, WriteEffect DEF Output, Buffered, IsWriting
<1>4. FinAfterOutput'
  BY Zenon, <1>2, WriteEffect DEF Output, Buffered, FinAfterOutput
<1> QED
  BY Zenon, <1>1, <1>3, <1>4 DEF Output

\* Every step keeps the output in order.
LEMMA NextOutput ==
  ASSUME TypeOK, Output, [Next]_vars
  PROVE  Output'
<1>1. CASE UNCHANGED vars
  BY Zenon, <1>1, OutputAlone DEF vars, connVars
<1>2. CASE \/ PollEvent \/ EventError \/ ReadData \/ MessageReturns \/ ReadError
           \/ StartFunctors \/ FunctorsDone \/ UserFunctor \/ RunFreed \/ RunStopRead
           \/ LoopStopRead \/ RemoveConnectionInLoop \/ PeerCloses \/ LoopEnds \/ OwnerQuitsLoop
  BY Zenon, <1>2, OutputAlone
     DEF PollEvent, EventError, ReadData, MessageReturns, ReadError, StartFunctors, FunctorsDone,
         UserFunctor, RunFreed, RunStopRead, LoopStopRead, RemoveConnectionInLoop, PeerCloses,
         LoopEnds, OwnerQuitsLoop, connVars
<1>3. CASE LoopForceClose \/ LoopForceCloseWithDelay \/ DelayOver
  BY Zenon, <1>3, OutputAlone DEF LoopForceClose, LoopForceCloseWithDelay, DelayOver
<1>4. ASSUME NEW u \in Users, User(u)  PROVE Output'
  BY Zenon, <1>4, OutputAlone
     DEF User, UserTests, UserSetsState, UserPushes, UserReleases, connVars
<1>5. CASE EventClose \/ ReadEof \/ ForceCloseInLoop
  <2>1. UNCHANGED <<dataVars, destroys>>
    BY Zenon, <1>5 DEF EventClose, ReadEof, ForceCloseInLoop
  <2>2. HandleClose \/ UNCHANGED <<interest, dataVars, callbacks>>
    BY Zenon, <1>5 DEF EventClose, ReadEof, ForceCloseInLoop, connVars, callbacks
  <2> QED
    BY Zenon, <2>1, <2>2, OutputAlone, OutputDropped DEF HandleClose
<1>6. CASE ConnectDestroyed \/ OwnerDestroyed
  <2>1. UNCHANGED <<dataVars, closes>>
    BY Zenon, <1>6 DEF ConnectDestroyed, OwnerDestroyed
  <2>2. DestroyConnection \/ UNCHANGED <<interest, dataVars, callbacks>>
    BY Zenon, <1>6 DEF ConnectDestroyed, OwnerDestroyed, connVars, callbacks
  <2> QED
    BY Zenon, <2>1, <2>2, OutputAlone, OutputDropped DEF DestroyConnection
<1>7. CASE RunShutdown \/ LoopShutdown
  <2>1. UNCHANGED <<out, accepted, wire, failed, interest, callbacks>> /\ fin' = (fin \/ ~IsWriting)
    BY Zenon, <1>7 DEF RunShutdown, LoopShutdown, ShutdownInLoop, connVars
  <2> QED
    BY Zenon, <2>1, OutputStays DEF callbacks
<1>8. CASE ConnectEstablished \/ RunStartRead
  <2>1. UNCHANGED <<dataVars, closes, destroys>>
    BY Zenon, <1>8 DEF ConnectEstablished, RunStartRead, callbacks
  <2>2. interest' = interest \/ interest' = interest \cup {"read"}
    BY Zenon, <1>8 DEF ConnectEstablished, RunStartRead, UpdateChannel
  <2>3. "write" \in interest' <=> "write" \in interest
    BY Zenon, <2>2
  <2> QED
    BY Zenon, <2>1, <2>3, OutputStays DEF dataVars
<1>9. CASE RunSend \/ LoopSend
  BY Zenon, <1>9, OutputSent DEF RunSend, LoopSend
<1>10. CASE EventWrite
  BY Zenon, <1>10, OutputWritten
<1> QED
  BY Zenon, <1>1, <1>2, <1>3, <1>4, <1>5, <1>6, <1>7, <1>8, <1>9, <1>10
     DEF Next, Loop, RunFunctor, LoopUser

-----------------------------------------------------------------------------
(* The life of the connection                                              *)

\* A push, if any, of a functor that is not connectEstablished
Pushes ==
  \/ pending' = pending
  \/ \E f \in Functors \ {"established"} : pending' = Append(pending, f)

\* A push adds to the queue and changes nothing else in it.
LEMMA PushKeeps ==
  ASSUME TypeOK, Pushes
  PROVE  /\ Elements(pending) \subseteq Elements(pending')
         /\ NoneOf(pending) => NoneOf(pending')
         /\ FirstOf(pending) => FirstOf(pending')
<1>1. CASE pending' = pending
  BY Zenon, <1>1
<1>2. ASSUME NEW f \in Functors, f # "established", pending' = Append(pending, f)
      PROVE  /\ Elements(pending') = Elements(pending) \cup {f}
             /\ NoneOf(pending) => NoneOf(pending')
             /\ FirstOf(pending) => FirstOf(pending')
  BY Zenon, <1>2, PushTypes, Pushed
<1> QED
  BY Zenon, <1>1, <1>2 DEF Pushes

\* connectEstablished stays where it is when a functor is pushed.
LEMMA ComesPush ==
  ASSUME TypeOK, Comes, Pushes, batch' = batch,
         state' = "kConnecting" <=> state = "kConnecting"
  PROVE  Comes'
<1>1. CASE state = "kConnecting"
  BY Zenon, <1>1, PushKeeps DEF Comes
<1>2. CASE state # "kConnecting"
  BY Zenon, <1>2, PushKeeps DEF Comes
<1> QED
  BY Zenon, <1>1, <1>2

\* The functor that is taken is connectEstablished if the connection waits for
\* it, and only then; afterwards it is nowhere.
LEMMA ComesTake ==
  ASSUME TypeOK, Comes, NEW f, Take(f), Pushes
  PROVE  /\ state = "kConnecting" <=> f = "established"
         /\ state' # "kConnecting" => Comes'
<1>1. /\ batch \in Seq(Functors) /\ batch # <<>> /\ f = Head(batch) /\ batch' = Tail(batch)
  BY Zenon, TakeTypes
<1>2. /\ NoneOf(batch) => NoneOf(batch') /\ f # "established"
      /\ FirstOf(batch) => NoneOf(batch') /\ f = "established"
  BY Zenon, <1>1, Popped
<1>3. CASE state = "kConnecting"
  <2>1. FirstOf(batch) /\ NoneOf(pending)
    BY Zenon, <1>1, <1>3 DEF Comes
  <2> QED
    BY Zenon, <1>2, <1>3, <2>1, PushKeeps DEF Comes
<1>4. CASE state # "kConnecting"
  BY Zenon, <1>2, <1>4, PushKeeps DEF Comes
<1> QED
  BY Zenon, <1>3, <1>4

\* What keeps the connection is not lost by a push,
LEMMA KeeperPush ==
  ASSUME TypeOK, Keeper, Pushes, UNCHANGED <<batch, base, owned>>
  PROVE  Keeper'
<1>1. Elements(pending) \subseteq Elements(pending')
  BY Zenon, PushKeeps
<1> QED
  BY Zenon, <1>1 DEF Keeper

\* nor when a functor is taken that is not connectDestroyed.
LEMMA KeeperTake ==
  ASSUME TypeOK, Keeper, NEW f, Take(f), f # "destroyed", Pushes, UNCHANGED <<base, owned>>
  PROVE  Keeper'
<1>1. Elements(pending) \subseteq Elements(pending')
  BY Zenon, PushKeeps
<1>2. Elements(batch) = Elements(batch') \cup {f}
  BY Zenon, TakeTypes, Popped
<1> QED
  BY Zenon, <1>1, <1>2 DEF Keeper

\* Steps that keep the state, and the channel of a connection that is not open
LEMMA CalmStays ==
  ASSUME TypeOK, Calm, Pushes, state' = state,
         batch' = batch \/ \E f : f \notin {"established", "destroyed"} /\ Take(f),
         state \in Open => index' = "kAdded" /\ "read" \in interest',
         state \notin Open => UNCHANGED <<index, interest>>,
         UNCHANGED <<base, owned, callbacks, sameLoop>>, LoopAt', UsersAt'
  PROVE  Calm'
<1>1. ChannelOk' /\ Reports'
  BY Zenon DEF Calm, ChannelOk, Reports, callbacks, Open
<1>2. Comes'
  <2>1. CASE batch' = batch
    BY Zenon, <2>1, ComesPush DEF Calm
  <2>2. ASSUME NEW f, f # "established", Take(f)  PROVE Comes'
    BY Zenon, <2>2, ComesTake DEF Calm
  <2> QED
    BY Zenon, <2>1, <2>2
<1>3. KeptWhile'
  <2>1. SUFFICES ASSUME Keeper  PROVE Keeper'
    BY Zenon DEF Calm, KeptWhile, ChannelOk, callbacks, Open
  <2>2. CASE batch' = batch
    BY Zenon, <2>1, <2>2, KeeperPush
  <2>3. ASSUME NEW f, f # "destroyed", Take(f)  PROVE Keeper'
    BY Zenon, <2>1, <2>3, KeeperTake
  <2> QED
    BY Zenon, <2>2, <2>3
<1> QED
  BY Zenon, <1>1, <1>2, <1>3 DEF Calm

\* Steps that leave the connection and its users alone
LEMMA CalmAlone ==
  ASSUME TypeOK, Calm, Pushes, UNCHANGED <<connVars, userVars>>,
         batch' = batch \/ \E f : f \notin {"established", "destroyed"} /\ Take(f),
         UNCHANGED <<base, owned, callbacks, sameLoop>>, LoopAt'
  PROVE  Calm'
<1>1. UsersAt'
  BY Zenon DEF Calm, UsersAt, userVars, connVars
<1>2. state \in Open => index' = "kAdded" /\ "read" \in interest'
  BY Zenon DEF Calm, ChannelOk, connVars
<1> QED
  BY Zenon, <1>1, <1>2, CalmStays DEF connVars

\* handleClose of a connection that is open
LEMMA CalmClose ==
  ASSUME TypeOK, Calm, HandleClose, state \in Open, batch' = batch \/ Take("forceClose"),
         UNCHANGED <<userVars, ups, destroys, sameLoop>>, LoopAt'
  PROVE  Calm'
<1>1. /\ state' = "kDisconnected" /\ interest' = {}
      /\ index' = IF index = "kAdded" THEN "kDeleted" ELSE "kAdded"
      /\ downs' = downs + 1 /\ closes' = closes + 1
  BY Zenon, CloseTypes
<1>2. index = "kAdded" /\ ups = 1 /\ downs = 0 /\ closes \in Nat /\ destroys \in Nat
      /\ state # "kConnecting"
  BY Zenon DEF Calm, ChannelOk, Reports, Open, TypeOK
<1>3. ChannelOk'
  BY Zenon, <1>1, <1>2 DEF Calm, ChannelOk, Open
<1>4. Pushes
  BY Zenon, PushTypes DEF HandleClose, RemoveConnection, Pushes
<1>5. Comes'
  BY Zenon, <1>1, <1>2, <1>4, ComesPush, ComesTake DEF Calm
<1>6. Reports'
  BY <1>1, <1>2 DEF Reports
<1>7. Keeper'
  <2>1. CASE sameLoop
    <3>1. pending' = Append(pending, "destroyed")
      BY Zenon, <2>1 DEF HandleClose, RemoveConnection
    <3> QED
      BY <3>1, PushTypes, Pushed DEF Keeper
  <2>2. CASE ~sameLoop
    <3>1. base' = Append(base, "remove") /\ base \in Seq({"remove"})
      BY Zenon, <2>2 DEF HandleClose, RemoveConnection, TypeOK
    <3>2. "remove" \in Elements(base')
      BY <3>1, AppendProperties DEF Elements
    <3> QED
      BY Zenon, <3>2 DEF Keeper
  <2> QED
    BY Zenon, <2>1, <2>2
<1>8. UsersAt'
  BY Zenon, <1>1 DEF Calm, UsersAt, userVars
<1> QED
  BY Zenon, <1>3, <1>5, <1>6, <1>7, <1>8 DEF Calm, KeptWhile

\* connectDestroyed of a connection that has been up
LEMMA CalmDestroy ==
  ASSUME TypeOK, Calm, DestroyConnection, upset' = {}, state # "kConnecting", Pushes,
         batch' = batch \/ Take("destroyed"),
         UNCHANGED <<userVars, ups, closes, sameLoop>>, LoopAt'
  PROVE  Calm'
<1>1. /\ closes \in Nat /\ destroys \in Nat /\ state \in States
      /\ closes + destroys > 0 => state = "kDisconnected"
      /\ downs = IF state = "kDisconnected" THEN 1 ELSE 0
      /\ state = "kDisconnected" => interest = {}
      /\ ups = 1
  BY Zenon DEF Calm, ChannelOk, Reports, TypeOK
<1>2. ~(state = "kDisconnecting" /\ closes = 0)
  BY Zenon DEF DestroyConnection, Note
<1>3. state # "kDisconnecting"
  BY <1>1, <1>2
<1>4. state' = "kDisconnected" /\ interest' = {} /\ downs' = 1 /\ index' = "kNew"
      /\ destroys' = destroys + 1
  BY <1>1, <1>3 DEF DestroyConnection, RemoveChannel, States
<1>5. ChannelOk' /\ Reports' /\ KeptWhile'
  BY <1>1, <1>4 DEF ChannelOk, Reports, KeptWhile, Open
<1>6. Comes'
  BY Zenon, <1>4, ComesPush, ComesTake DEF Calm
<1>7. UsersAt'
  BY Zenon, <1>4 DEF Calm, UsersAt, userVars
<1> QED
  BY Zenon, <1>5, <1>6, <1>7 DEF Calm

\* Steps that set kDisconnecting, of a connection that is open
LEMMA CalmDisconnecting ==
  ASSUME TypeOK, Calm, state \in Open, state' = "kDisconnecting", Pushes,
         UNCHANGED <<index, interest, batch, base, owned, callbacks, sameLoop>>, LoopAt', UsersAt'
  PROVE  Calm'
<1>1. ChannelOk' /\ Reports'
  BY Zenon DEF Calm, ChannelOk, Reports, Open, callbacks
<1>2. Comes'
  BY Zenon, ComesPush DEF Calm, Open
<1>3. KeptWhile'
  <2>1. SUFFICES ASSUME Keeper  PROVE Keeper'
    BY Zenon DEF Calm, KeptWhile, callbacks
  <2> QED
    BY Zenon, <2>1, KeeperPush
<1> QED
  BY Zenon, <1>1, <1>2, <1>3 DEF Calm

\* The events of the loop, but for those that close the connection
LEMMA CalmEvents ==
  ASSUME TypeOK, Calm,
         PollEvent \/ EventError \/ ReadData \/ MessageReturns \/ ReadError \/ EventWrite
  PROVE  Calm'
<1>1. CASE PollEvent
  <2>1. state \in Open
    BY Zenon, <1>1 DEF Calm, ChannelOk, PollEvent, Registered, TypeOK, States, Open
  <2>2. LoopAt'
    BY Zenon, <1>1, <2>1 DEF Calm, LoopAt, PollEvent, queueVars, connVars
  <2> QED
    BY Zenon, <1>1, <2>2, CalmAlone DEF PollEvent, queueVars, ownerVars, Pushes
<1>2. CASE EventError \/ ReadError
  <2>1. LoopAt'
    BY Zenon, <1>2 DEF Calm, LoopAt, EventError, ReadError, ReadEvent, queueVars, connVars
  <2> QED
    BY Zenon, <1>2, <2>1, CalmAlone DEF EventError, ReadError, queueVars, ownerVars, Pushes
<1>3. CASE ReadData \/ MessageReturns
  <2>1. LoopAt'
    BY Zenon, <1>3 DEF Calm, LoopAt, ReadData, ReadEvent, MessageReturns, queueVars, connVars
  <2> QED
    BY Zenon, <1>3, <2>1, CalmAlone DEF ReadData, MessageReturns, queueVars, ownerVars, Pushes
<1>4. CASE EventWrite
  <2>1. LoopAt'
    BY Zenon, <1>4 DEF Calm, LoopAt, EventWrite
  <2>2. Pushes
    BY Zenon, <1>4, WriteEffect, PushTypes DEF Pushes
  <2>3. UsersAt' /\ UNCHANGED <<state, batch, base, owned, callbacks, sameLoop>>
    BY Zenon, <1>4 DEF Calm, UsersAt, EventWrite, userVars, ownerVars
  <2>4. state \in Open => index' = "kAdded" /\ "read" \in interest'
    BY Zenon, <1>4, WriteEffect DEF Calm, ChannelOk
  <2>5. state \notin Open => UNCHANGED <<index, interest>>
    BY Zenon, <1>4, WriteEffect DEF Calm, ChannelOk, IsWriting, Open, TypeOK, States
  <2> QED
    BY Zenon, <2>1, <2>2, <2>3, <2>4, <2>5, CalmStays
<1> QED
  BY Zenon, <1>1, <1>2, <1>3, <1>4

\* The steps that close the connection, and the batch of functors
LEMMA CalmClosing ==
  ASSUME TypeOK, Calm, EventClose \/ ReadEof \/ StartFunctors \/ FunctorsDone
  PROVE  Calm'
<1>1. CASE EventClose \/ ReadEof
  <2>1. state \in Open /\ lpc = "event"
    BY Zenon, <1>1 DEF Calm, LoopAt, EventClose, ReadEof, ReadEvent
  <2>2. CASE EventClose /\ "in" \in revents
    <3>1. LoopAt'
      BY Zenon, <2>1, <2>2 DEF Calm, LoopAt, EventClose, connVars
    <3> QED
      BY Zenon, <2>2, <3>1, CalmAlone DEF EventClose, callbacks, Pushes
  <2>3. CASE ReadEof \/ "in" \notin revents
    <3>1. HandleClose /\ UNCHANGED <<userVars, batch, ups, destroys, sameLoop>>
      BY Zenon, <1>1, <2>3 DEF EventClose, ReadEof
    <3>2. LoopAt'
      BY Zenon, <1>1, <2>1, <2>3, <3>1 DEF Calm, LoopAt, EventClose, ReadEof, ReadEvent
    <3> QED
      BY Zenon, <2>1, <3>1, <3>2, CalmClose
  <2> QED
    BY Zenon, <1>1, <2>2, <2>3
<1>2. CASE StartFunctors
  <2>1. batch = <<>> /\ batch' = pending /\ pending' = <<>> /\ lpc' = "functors"
    BY Zenon, <1>2 DEF Calm, LoopAt, StartFunctors
  <2>2. UNCHANGED <<connVars, base, owned, callbacks, sameLoop, userVars>>
    BY Zenon, <1>2 DEF StartFunctors, ownerVars
  <2>3. ChannelOk' /\ Reports' /\ UsersAt'
    BY Zenon, <2>2 DEF Calm, ChannelOk, Reports, UsersAt, connVars, callbacks, userVars
  <2>4. LoopAt'
    BY Zenon, <2>1 DEF LoopAt
  <2>5. Comes'
    BY Zenon, <2>1, <2>2, EmptyQueue DEF Calm, Comes, connVars
  <2>6. Elements(pending') \cup Elements(batch') = Elements(pending) \cup Elements(batch)
    BY Zenon, <2>1, EmptyQueue
  <2>7. KeptWhile'
    BY Zenon, <2>2, <2>6 DEF Calm, KeptWhile, Keeper, connVars, callbacks
  <2> QED
    BY Zenon, <2>3, <2>4, <2>5, <2>7 DEF Calm
<1>3. CASE FunctorsDone
  <2>1. LoopAt'
    BY Zenon, <1>3 DEF LoopAt, FunctorsDone
  <2> QED
    BY Zenon, <1>3, <2>1, CalmAlone DEF FunctorsDone, ownerVars, Pushes
<1> QED
  BY Zenon, <1>1, <1>2, <1>3

\* The io loop ends, with connectDestroyed run.
LEMMA CalmLoopEnds ==
  ASSUME TypeOK, Calm, LoopEnds, upset' = {}
  PROVE  Calm'
<1>1. /\ UNCHANGED <<connVars, base, owned, callbacks, sameLoop, userVars, batch>>
      /\ batch = <<>> /\ pending' = <<>> /\ lpc' = "gone" /\ destroys # 0
  BY Zenon DEF LoopEnds, ownerVars, Note
<1>2. destroys > 0
  BY <1>1 DEF TypeOK
<1>3. state = "kDisconnected" /\ index = "kNew" /\ downs = 1
  BY Zenon, <1>2 DEF Calm, ChannelOk, Reports
<1>4. ChannelOk' /\ Reports' /\ UsersAt'
  BY Zenon, <1>1 DEF Calm, ChannelOk, Reports, UsersAt, connVars, callbacks, userVars
<1>5. LoopAt'
  BY Zenon, <1>1, <1>2 DEF LoopAt, callbacks
<1>6. Comes'
  BY Zenon, <1>1, <1>3, EmptyQueue DEF Comes, connVars
<1>7. KeptWhile'
  BY <1>1, <1>3 DEF KeptWhile, connVars, callbacks
<1> QED
  BY Zenon, <1>4, <1>5, <1>6, <1>7 DEF Calm

\* The loop is in no place of LoopAt while it runs functors.
LEMMA LoopRuns ==
  ASSUME lpc = "functors", lpc' = lpc \/ lpc' = "overflow"
  PROVE  LoopAt'
BY Zenon DEF LoopAt

\* The functors that only take their place in the batch
LEMMA CalmFunctors ==
  ASSUME TypeOK, Calm, UserFunctor \/ RunFreed \/ RunShutdown \/ RunStopRead
  PROVE  Calm'
<1>1. PICK f : Take(f) /\ f \notin {"established", "destroyed"}
  <2>1. CASE UserFunctor \/ RunShutdown \/ RunStopRead
    BY <2>1 DEF UserFunctor, RunShutdown, RunStopRead, Run
  <2>2. CASE RunFreed
    <3>1. PICK f : Take(f)
      BY Zenon, <2>2 DEF RunFreed
    <3>2. Elements(batch) = Elements(batch') \cup {f}
      BY Zenon, <3>1, TakeTypes, Popped
    <3>3. f \notin Shared
      BY Zenon, <2>2, <3>2 DEF RunFreed, Alive
    <3> QED
      BY Zenon, <3>1, <3>3 DEF Shared
  <2> QED
    BY Zenon, <2>1, <2>2
<1>2. /\ UNCHANGED <<connVars, userVars, pending, base, owned, callbacks, sameLoop>>
      /\ lpc' = lpc \/ lpc' = "overflow"
  BY Zenon DEF UserFunctor, RunFreed, RunShutdown, RunStopRead, ownerVars, loopVars
<1>3. LoopAt'
  BY Zenon, <1>1, <1>2, TakeTypes, LoopRuns
<1> QED
  BY Zenon, <1>1, <1>2, <1>3, CalmAlone DEF Pushes

\* connectEstablished
LEMMA CalmEstablished ==
  ASSUME TypeOK, Calm, ConnectEstablished
  PROVE  Calm'
<1>1. /\ Take("established") /\ Pushes
      /\ UNCHANGED <<base, owned, upc, downs, closes, destroys, sameLoop, lpc>>
      /\ state' = "kConnected" /\ ups' = ups + 1 /\ uref' = [u \in Users |-> TRUE]
  BY Zenon DEF ConnectEstablished, Run, Pushes, ownerVars, loopVars
<1>2. state = "kConnecting" /\ Comes'
  BY Zenon, <1>1, ComesTake DEF Calm
<1>3. ChannelOk'
  BY Zenon, <1>1, <1>2 DEF Calm, ChannelOk, ConnectEstablished, UpdateChannel, Open
<1>4. Reports'
  BY <1>1, <1>2 DEF Calm, Reports
<1>5. KeptWhile'
  BY Zenon, <1>1, <1>2, KeeperTake DEF Calm, KeptWhile, Reports
<1>6. LoopAt'
  BY Zenon, <1>1, TakeTypes, LoopRuns
<1>7. UsersAt'
  BY Zenon, <1>1 DEF UsersAt
<1> QED
  BY Zenon, <1>2, <1>3, <1>4, <1>5, <1>6, <1>7 DEF Calm

\* connectDestroyed and forceCloseInLoop
LEMMA CalmEnds ==
  ASSUME TypeOK, Calm, ConnectDestroyed \/ ForceCloseInLoop, upset' = {}
  PROVE  Calm'
<1>1. CASE ConnectDestroyed
  <2>1. /\ Take("destroyed") /\ DestroyConnection /\ Pushes
        /\ UNCHANGED <<userVars, ups, closes, sameLoop, lpc>>
    BY Zenon, <1>1 DEF ConnectDestroyed, Run, Pushes, loopVars
  <2>2. state # "kConnecting"
    BY <2>1, ComesTake DEF Calm
  <2>3. LoopAt'
    BY Zenon, <2>1, TakeTypes, LoopRuns
  <2> QED
    BY Zenon, <2>1, <2>2, <2>3, CalmDestroy
<1>2. CASE ForceCloseInLoop
  <2>1. /\ Take("forceClose")
        /\ UNCHANGED <<userVars, ups, destroys, sameLoop, lpc>>
    BY Zenon, <1>2 DEF ForceCloseInLoop, Run, loopVars
  <2>2. LoopAt'
    BY Zenon, <2>1, TakeTypes, LoopRuns
  <2>3. CASE state \in Open
    <3>1. HandleClose
      BY Zenon, <1>2, <2>3 DEF ForceCloseInLoop, Open
    <3> QED
      BY Zenon, <2>1, <2>2, <2>3, <3>1, CalmClose
  <2>4. CASE state \notin Open
    <3>1. UNCHANGED <<connVars, pending, base, owned, callbacks>>
      BY Zenon, <1>2, <2>4 DEF ForceCloseInLoop, Open, callbacks
    <3>2. "forceClose" \notin {"established", "destroyed"}
      BY Zenon
    <3> QED
      BY Zenon, <2>1, <2>2, <3>1, <3>2, CalmAlone DEF Pushes
  <2> QED
    BY Zenon, <2>3, <2>4
<1> QED
  BY Zenon, <1>1, <1>2

\* The functors and the calls that send, and startReadInLoop
LEMMA CalmChannel ==
  ASSUME TypeOK, Calm, RunSend \/ LoopSend \/ RunStartRead, upset' = {}
  PROVE  Calm'
<1>1. CASE RunSend \/ LoopSend
  <2>1. /\ SendInLoop(2)
        /\ UNCHANGED <<state, base, owned, callbacks, sameLoop, lpc, revents, userVars>>
    BY Zenon, <1>1 DEF RunSend, LoopSend, ownerVars, loopVars
  <2>2. Pushes
    BY Zenon, <2>1, SendEffect DEF Pushes, Functors, Shared
  <2>3. /\ batch' = batch \/ \E f : f \notin {"established", "destroyed"} /\ Take(f)
        /\ state # "kConnecting"
    <3>1. CASE RunSend
      BY <2>2, <3>1, ComesTake DEF RunSend, Run, Calm
    <3>2. CASE LoopSend
      BY Zenon, <3>2 DEF LoopSend
    <3> QED
      BY Zenon, <1>1, <3>1, <3>2
  <2>4. LoopAt'
    <3>1. CASE RunSend
      BY Zenon, <2>1, <3>1, TakeTypes, LoopRuns DEF RunSend, Run
    <3>2. CASE LoopSend
      BY Zenon, <2>1, <3>2 DEF LoopSend, LoopAt, Calm
    <3> QED
      BY Zenon, <1>1, <3>1, <3>2
  <2>5. UsersAt'
    BY Zenon, <2>1 DEF Calm, UsersAt, userVars
  <2>6. state \in Open => index' = "kAdded" /\ "read" \in interest'
    BY Zenon, <2>1, SendEffect DEF Calm, ChannelOk
  <2>7. state \notin Open => UNCHANGED <<index, interest>>
    BY Zenon, <2>1, <2>3, SendEffect DEF Open, TypeOK, States
  <2> QED
    BY Zenon, <2>1, <2>2, <2>3, <2>4, <2>5, <2>6, <2>7, CalmStays
<1>2. CASE RunStartRead
  <2>1. /\ Take("startRead") /\ Pushes
        /\ UNCHANGED <<state, base, owned, callbacks, sameLoop, lpc, userVars>>
    BY Zenon, <1>2 DEF RunStartRead, Run, Pushes, ownerVars, loopVars
  <2>2. state # "kConnecting"
    BY <2>1, ComesTake DEF Calm
  <2>3. state \in Open
    BY Zenon, <1>2, <2>2 DEF RunStartRead, Note, Open, TypeOK, States
  <2>4. UNCHANGED connVars
    BY Zenon, <1>2, <2>1, <2>3 DEF RunStartRead, Calm, ChannelOk, connVars
  <2>5. LoopAt'
    BY Zenon, <2>1, TakeTypes, LoopRuns
  <2>6. "startRead" \notin {"established", "destroyed"}
    BY Zenon
  <2> QED
    BY Zenon, <2>1, <2>4, <2>5, <2>6, CalmAlone
<1> QED
  BY Zenon, <1>1, <1>2

\* The calls of the message callback and of the timer
LEMMA CalmCalls ==
  ASSUME TypeOK, Calm,
         LoopShutdown \/ LoopForceClose \/ LoopForceCloseWithDelay \/ LoopStopRead \/ DelayOver
  PROVE  Calm'
<1>1. UNCHANGED <<index, interest, batch, base, owned, callbacks, sameLoop, revents, userVars>>
  BY Zenon DEF LoopShutdown, LoopForceClose, LoopForceCloseWithDelay, LoopStopRead, DelayOver,
     connVars, loopVars, queueVars, ownerVars
<1>2. Pushes
  BY Zenon DEF LoopShutdown, LoopForceClose, LoopForceCloseWithDelay, LoopStopRead, DelayOver,
     queueVars, Pushes, Functors, Shared
<1>3. LoopAt'
  BY Zenon, <1>1 DEF LoopShutdown, LoopForceClose, LoopForceCloseWithDelay, LoopStopRead, DelayOver,
     loopVars, queueVars, connVars, Calm, LoopAt, Open
<1>4. CASE state' = state
  <2>1. UNCHANGED connVars
    BY Zenon, <1>1, <1>4 DEF connVars
  <2> QED
    BY Zenon, <1>1, <1>2, <1>3, <2>1, CalmAlone
<1>5. CASE state' # state
  <2>1. state \in Open /\ state' = "kDisconnecting"
    BY Zenon, <1>5 DEF LoopShutdown, LoopForceClose, LoopForceCloseWithDelay, LoopStopRead,
       DelayOver,
       connVars, Open
  <2>2. UsersAt'
    BY Zenon, <1>1, <2>1 DEF Calm, UsersAt, userVars
  <2> QED
    BY Zenon, <1>1, <1>2, <1>3, <2>1, <2>2, CalmDisconnecting
<1> QED
  BY Zenon, <1>4, <1>5

\* The users in other threads
LEMMA CalmUsers ==
  ASSUME TypeOK, Calm, upset' = {}, NEW u \in Users, User(u)
  PROVE  Calm'
<1>1. /\ UNCHANGED <<index, interest, batch, base, owned, callbacks, sameLoop, lpc, revents>>
  BY Zenon DEF User, UserTests, UserSetsState, UserPushes, UserReleases,
     connVars, loopVars, queueVars, ownerVars
<1>2. Pushes
  <2>1. CASE UserPushes(u)
    <3>1. upc[u] \in {"forceClosePush", "shutdownPush"} \cup Raw
      BY Zenon, <2>1 DEF UserPushes, TypeOK
    <3> QED
      BY Zenon, <2>1, <3>1 DEF UserPushes, Pushes, Functors, Shared, Raw
  <2>2. CASE ~UserPushes(u)
    BY Zenon, <2>2 DEF User, UserTests, UserSetsState, UserReleases, queueVars, Pushes
  <2> QED
    BY Zenon, <2>1, <2>2
<1>3. upc \in [Users -> {"idle", "shutdown", "forceClose", "forceClosePush", "shutdownPush"}
                          \cup Raw] /\ uref \in [Users -> BOOLEAN]
  BY Zenon DEF TypeOK
<1>4. CASE UserSetsState(u)
  <2>1. uref[u] /\ state # "kConnecting"
    BY Zenon, <1>4 DEF UserSetsState, Calm, UsersAt
  <2>2. state \in Open /\ state' = "kDisconnecting"
    BY Zenon, <1>4, <2>1 DEF UserSetsState, Note, Open, TypeOK, States
  <2>3. UsersAt'
    BY Zenon, <1>3, <1>4, <2>1, <2>2 DEF UserSetsState, Calm, UsersAt
  <2>4. LoopAt'
    BY Zenon, <1>1, <2>2 DEF Calm, LoopAt, Open, callbacks
  <2> QED
    BY Zenon, <1>1, <1>2, <2>2, <2>3, <2>4, CalmDisconnecting
<1>5. CASE UserTests(u) \/ UserPushes(u) \/ UserReleases(u)
  <2>1. state' = state
    BY Zenon, <1>5 DEF UserTests, UserPushes, UserReleases, connVars
  <2>2. UsersAt'
    <3>1. CASE UserTests(u)
      BY Zenon, <1>3, <2>1, <3>1 DEF UserTests, Calm, UsersAt
    <3>2. CASE UserPushes(u)
      BY Zenon, <1>3, <2>1, <3>2 DEF UserPushes, Calm, UsersAt
    <3>3. CASE UserReleases(u)
      BY Zenon, <1>3, <2>1, <3>3 DEF UserReleases, Calm, UsersAt
    <3> QED
      BY Zenon, <1>5, <3>1, <3>2, <3>3
  <2>3. LoopAt'
    BY Zenon, <1>1, <2>1 DEF Calm, LoopAt, callbacks
  <2>4. state \in Open => index' = "kAdded" /\ "read" \in interest'
    BY Zenon, <1>1 DEF Calm, ChannelOk
  <2> QED
    BY Zenon, <1>1, <1>2, <2>1, <2>2, <2>3, <2>4, CalmStays
<1> QED
  BY Zenon, <1>4, <1>5 DEF User

\* The owner, its loop and the peer
LEMMA CalmOwner ==
  ASSUME TypeOK, Calm, upset' = {},
         RemoveConnectionInLoop \/ OwnerDestroyed \/ OwnerQuitsLoop \/ PeerCloses
  PROVE  Calm'
<1>1. UNCHANGED <<userVars, batch, lpc, revents, ups, closes, sameLoop>>
  BY Zenon DEF RemoveConnectionInLoop, OwnerDestroyed, OwnerQuitsLoop, PeerCloses, loopVars,
     queueVars, callbacks
<1>2. Pushes
  BY Zenon DEF RemoveConnectionInLoop, OwnerDestroyed, OwnerQuitsLoop, PeerCloses, queueVars,
     Pushes, Functors, Shared
<1>3. ASSUME pending' = Append(pending, "destroyed"), UNCHANGED <<connVars, downs, destroys>>
      PROVE  Calm'
  <2>1. ChannelOk' /\ Reports' /\ LoopAt' /\ UsersAt'
    BY Zenon, <1>1, <1>3 DEF Calm, ChannelOk, Reports, LoopAt, UsersAt, connVars, userVars
  <2>2. Comes'
    BY Zenon, <1>1, <1>2, <1>3, ComesPush DEF Calm, connVars
  <2>3. "destroyed" \in Functors
    BY Zenon DEF Functors, Shared
  <2>4. Elements(pending') = Elements(pending) \cup {"destroyed"}
    BY Zenon, <1>3, <2>3, PushTypes, Pushed
  <2>5. KeptWhile'
    BY Zenon, <2>4 DEF KeptWhile, Keeper
  <2> QED
    BY Zenon, <2>1, <2>2, <2>5 DEF Calm
<1>4. CASE RemoveConnectionInLoop
  <2>1. UNCHANGED <<connVars, callbacks>>
    BY Zenon, <1>4 DEF RemoveConnectionInLoop
  <2>2. CASE owner
    BY Zenon, <1>3, <1>4, <2>1, <2>2 DEF RemoveConnectionInLoop, callbacks
  <2>3. CASE ~owner
    <3>1. lpc = "gone"
      BY Zenon, <1>4, <2>3 DEF RemoveConnectionInLoop, OwnerLoopFree
    <3>2. index = "kNew" /\ downs = 1
      BY Zenon, <3>1 DEF Calm, LoopAt, ChannelOk, Reports
    <3>3. ChannelOk' /\ Reports' /\ LoopAt' /\ UsersAt'
      BY Zenon, <1>1, <2>1 DEF Calm, ChannelOk, Reports, LoopAt, UsersAt, connVars, userVars,
         callbacks
    <3>4. Comes'
      BY Zenon, <1>1, <1>2, <2>1, ComesPush DEF Calm, connVars
    <3>5. KeptWhile'
      BY <2>1, <3>2 DEF KeptWhile, connVars, callbacks
    <3> QED
      BY Zenon, <3>3, <3>4, <3>5 DEF Calm
  <2> QED
    BY Zenon, <2>2, <2>3
<1>5. CASE PeerCloses \/ OwnerQuitsLoop
  <2>1. UNCHANGED <<connVars, base, owned, callbacks>>
    BY Zenon, <1>5 DEF PeerCloses, OwnerQuitsLoop, ownerVars
  <2>2. LoopAt'
    BY Zenon, <1>1, <2>1 DEF Calm, LoopAt, connVars, callbacks
  <2> QED
    BY Zenon, <1>1, <1>2, <2>1, <2>2, CalmAlone
<1>6. CASE OwnerDestroyed
  <2>1. CASE ~owned
    <3>1. UNCHANGED <<connVars, base, owned, callbacks>>
      BY Zenon, <1>6, <2>1 DEF OwnerDestroyed, callbacks, TypeOK
    <3>2. LoopAt'
      BY Zenon, <1>1, <3>1 DEF Calm, LoopAt, connVars, callbacks
    <3> QED
      BY Zenon, <1>1, <1>2, <3>1, <3>2, CalmAlone
  <2>2. CASE owned /\ sameLoop
    <3>1. DestroyConnection /\ lpc = "functors"
      BY Zenon, <1>6, <2>2 DEF OwnerDestroyed
    <3>2. LoopAt'
      BY Zenon, <1>1, <3>1, LoopRuns
    <3>3. state # "kConnecting"
      BY Zenon, <2>2 DEF Calm, Reports
    <3> QED
      BY Zenon, <1>1, <1>2, <3>1, <3>2, <3>3, CalmDestroy
  <2>3. CASE owned /\ ~sameLoop
    BY Zenon, <1>3, <1>6, <2>3 DEF OwnerDestroyed
  <2> QED
    BY Zenon, <2>1, <2>2, <2>3
<1> QED
  BY Zenon, <1>4, <1>5, <1>6

\* What upset the close is not forgotten.
LEMMA UpsetGrows ==
  ASSUME [Next]_vars
  PROVE  upset' = {} => upset = {}
<1>1. CASE UNCHANGED vars
  BY Zenon, <1>1 DEF vars
<1>2. CASE \/ PollEvent \/ LoopUser \/ DelayOver \/ RemoveConnectionInLoop
           \/ OwnerQuitsLoop \/ PeerCloses
  BY Zenon, <1>2 DEF PollEvent, LoopUser, LoopSend, LoopShutdown, LoopForceClose,
     LoopForceCloseWithDelay, LoopStopRead, DelayOver, RemoveConnectionInLoop, OwnerQuitsLoop,
     PeerCloses
<1>3. CASE Loop /\ ~RunFunctor
  BY Zenon, <1>3 DEF Loop, EventClose, EventError, ReadData, MessageReturns, ReadEof, ReadError,
     EventWrite, StartFunctors, FunctorsDone, LoopEnds, Note
<1>4. CASE RunFunctor
  BY Zenon, <1>4 DEF RunFunctor, ConnectEstablished, ConnectDestroyed, DestroyConnection,
     ForceCloseInLoop, UserFunctor, RunFreed, RunSend, RunShutdown, RunStartRead, RunStopRead, Note
<1>5. CASE \E u \in Users : User(u)
  BY Zenon, <1>5 DEF User, UserTests, UserSetsState, UserPushes, UserReleases, Note
<1>6. CASE OwnerDestroyed
  BY Zenon, <1>6 DEF OwnerDestroyed, DestroyConnection, Note
<1> QED
  BY Zenon, <1>1, <1>2, <1>3, <1>4, <1>5, <1>6 DEF Next, Loop

\* Every step
LEMMA NextCalm ==
  ASSUME TypeOK, upset = {} => Calm, [Next]_vars
  PROVE  upset' = {} => Calm'
<1>1. SUFFICES ASSUME upset' = {}  PROVE Calm'
  BY Zenon
<1>2. Calm
  BY Zenon, <1>1, UpsetGrows
<1>3. CASE UNCHANGED vars
  BY Zenon, <1>2, <1>3 DEF vars, connVars, loopVars, queueVars, ownerVars, userVars, callbacks,
     Calm, ChannelOk, Comes, Reports, Keeper, KeptWhile, LoopAt, UsersAt
<1>4. CASE PollEvent \/ Loop
  BY Zenon, <1>1, <1>2, <1>4, CalmEvents, CalmClosing, CalmLoopEnds, CalmFunctors,
     CalmEstablished, CalmEnds, CalmChannel DEF Loop, RunFunctor
<1>5. CASE LoopUser \/ DelayOver
  BY Zenon, <1>1, <1>2, <1>5, CalmCalls, CalmChannel DEF LoopUser
<1>6. CASE \E u \in Users : User(u)
  BY Zenon, <1>1, <1>2, <1>6, CalmUsers
<1>7. CASE RemoveConnectionInLoop \/ OwnerDestroyed \/ OwnerQuitsLoop \/ PeerCloses
  BY Zenon, <1>1, <1>2, <1>7, CalmOwner
<1> QED
  BY Zenon, <1>3, <1>4, <1>5, <1>6, <1>7 DEF Next

-----------------------------------------------------------------------------
(* The results                                                             *)

\* A connection as the owner makes it
LEMMA InitConn == Init => ConnInv
<1> SUFFICES ASSUME Init  PROVE ConnInv
  BY Zenon
<1>1. TypeOK
  <2>1. pending \in Seq(Functors) /\ batch \in Seq(Functors) /\ base \in Seq({"remove"})
    <3>1. "established" \in Functors
      BY Zenon DEF Functors, Shared
    <3>2. pending = <<>> \/ pending = <<"established">>
      BY Zenon DEF Init
    <3>3. batch = <<>> /\ base = <<>>
      BY Zenon DEF Init
    <3>4. /\ <<>> \in Seq(Functors) /\ <<>> \in Seq({"remove"})
      OBVIOUS
    <3>5. <<"established">> \in Seq(Functors)
      BY ONLY <3>1
    <3> QED
      BY Zenon, <3>2, <3>3, <3>4, <3>5
  <2>2. ops \in 0..MaxOps /\ reads \in 0..MaxReads
    BY ConnectionAssumption DEF Init
  <2>3. /\ upc \in [Users -> {"idle", "shutdown", "forceClose", "forceClosePush",
                              "shutdownPush"} \cup Raw]
        /\ uref \in [Users -> BOOLEAN]
    BY Zenon DEF Init
  <2>4. ConnType /\ LoopType
    BY Zenon DEF Init, ConnType, LoopType, States
  <2>5. QueueType /\ UserType
    BY Zenon, <2>1, <2>3 DEF Init, QueueType, UserType
  <2>6. DataType
    <3>1. <<>> \in Seq(Nat) /\ 0 \in Nat
      OBVIOUS
    <3>2. out = <<>> /\ wire = <<>> /\ accepted = 0 /\ fin = FALSE /\ failed = FALSE
      BY Zenon DEF Init
    <3> QED
      BY Zenon, <3>1, <3>2 DEF DataType
  <2>7. OwnerType
    BY Zenon, <2>1 DEF Init, OwnerType
  <2>8. CountType
    BY <2>2 DEF Init, CountType
  <2> QED
    BY Zenon, <2>4, <2>5, <2>6, <2>7, <2>8, TypeParts
<1>2. Output
  <2>1. wire \o out = [i \in 1..accepted |-> i]
    BY DEF Init
  <2> QED
    BY <2>1 DEF Output, InOrder, Buffered, FinAfterOutput, IsWriting, Init
<1>3. Calm
  <2>1. ChannelOk /\ Reports /\ LoopAt /\ UsersAt
    BY DEF Init, ChannelOk, Reports, LoopAt, UsersAt, Open
  <2>2. Comes
    BY DEF Init, Comes, FirstOf, NoneOf
  <2>3. KeptWhile
    BY Zenon DEF Init, KeptWhile, Keeper
  <2> QED
    BY Zenon, <2>1, <2>2, <2>3 DEF Calm
<1> QED
  BY Zenon, <1>1, <1>2, <1>3 DEF ConnInv

\* The invariant holds in every state the connection reaches.
LEMMA ConnInvariant == FairSpec => []ConnInv
<1>1. ConnInv /\ [Next]_vars => ConnInv'
  BY Zenon, NextTypes, NextOutput, NextCalm DEF ConnInv
<1> QED
  BY <1>1, InitConn, PTL DEF FairSpec, Spec

\* Nobody keeps a connection that nobody refers to.
LEMMA KeeperRefers == Keeper => Alive
BY Zenon DEF Keeper, Alive, Shared

\* Whatever calls the users make and in whatever order the threads run, what
\* sendInLoop and handleWrite write is what was accepted, in order, and
\* shutdown closes the write side behind the last byte.
THEOREM PeerSeesOutputThenFin == FairSpec => []OutputThenFin
<1>1. ConnInv => OutputThenFin
  BY Zenon DEF ConnInv, Output, OutputThenFin
<1> QED
  BY <1>1, ConnInvariant, PTL

\* connectEstablished, handleClose and connectDestroyed call the connection
\* callback once for "up", and at most once for "down"; they have done both
\* when the last reference is dropped.  Not after one of the Upsets: the races on
\* m_state, and an io loop that ~TcpServer ends before connectDestroyed has run.
THEOREM UsersSeeUpThenDown == FairSpec => []UpThenDown
<1>1. ConnInv => UpThenDown
  <2>1. SUFFICES ASSUME ConnInv, upset = {}  PROVE UpThenDown
    BY Zenon DEF UpThenDown
  <2>2. Reports /\ KeptWhile
    BY Zenon, <2>1 DEF ConnInv, Calm
  <2>3. ~Alive => downs # 0
    BY Zenon, <2>2, KeeperRefers DEF KeptWhile
  <2> QED
    BY <2>2, <2>3 DEF Reports, UpThenDown
<1> QED
  BY <1>1, ConnInvariant, PTL

\* epoll never holds the channel of a connection that is gone: the assertion
\* of ~Channel holds, except after one of the Upsets, of which one is an io loop
\* that ~TcpServer ends before connectDestroyed has run.
THEOREM EpollHoldsLiving == FairSpec => []RegisteredMeansAlive
<1>1. ConnInv => RegisteredMeansAlive
  BY Zenon, KeeperRefers DEF ConnInv, Calm, KeptWhile, RegisteredMeansAlive
<1> QED
  BY <1>1, ConnInvariant, PTL
=============================================================================
