-------------------------------- MODULE Rpc ---------------------------------
(***************************************************************************)
(* youth/net/rpc: a client's RpcChannel that several threads call, the     *)
(* server's RpcChannel, made by RpcServer for the connection, and the      *)
(* codec between each of them and the byte stream, which cuts messages     *)
(* into pieces of any size.                                                *)
(*                                                                         *)
(* A message is a record; on the wire it is a frame of units <<message,    *)
(* k>>: the length, the tag, the serialised message and the checksum.      *)
(* TcpConnection is used by what it does: what is sent while kConnected    *)
(* arrives in order, in pieces.                                            *)
(***************************************************************************)
EXTENDS Naturals, Sequences, FiniteSets, SequencesExt

CONSTANTS
  Threads,         \* threads of the client that make calls
  MaxCalls,        \* bound: calls
  Ids,             \* an int64_t has the values 0..Ids-1
  Kinds,           \* what a call asks for: "ok", or the reason for an error
  Sizes,           \* units of a serialised message
  kMaxMessageLen,  \* in units
  Goods            \* whether the receiver can parse a request

ASSUME RpcAssumption ==
  /\ MaxCalls \in Nat /\ Ids \in Nat \ {0} /\ MaxCalls <= Ids
  /\ Kinds \subseteq {"ok", "NO_SERVICE", "NO_METHOD", "INVALID_REQUEST"}
  /\ Sizes \subseteq Nat /\ kMaxMessageLen \in Nat
  /\ Goods \subseteq BOOLEAN

VARIABLES
  m_id,         \* the next id
  pc, id, what, \* each thread: where it is in CallMethod, its id and its call
  calls,        \* calls made so far, numbered from 1
  outstandings, \* m_outstandings, as pairs of an id and a call
  stream,       \* what has been sent to each side and not read by it
  inbuf,        \* the input buffer of each side
  conn,         \* TcpConnection::m_state of each side
  channel,      \* whether the server's RpcChannel exists
  closures,     \* messages whose service has yet to run its closure
  sent,         \* history: messages sent to each side
  got,          \* history: messages given to each side's callback
  completed     \* history: calls whose done has run, with the response they got

vars == <<m_id, pc, id, what, calls, outstandings, stream, inbuf, conn, channel, closures,
          sent, got, completed>>

Sides == {"client", "server"}

-----------------------------------------------------------------------------
(* The codec                                                               *)

kHeaderLen == 1
kMinMessageLen == 2   \* the tag and the checksum

Length(m) == kMinMessageLen + m.size

\* fillEmptyBuffer
Frame(m) == [k \in 1..(kHeaderLen + Length(m)) |-> <<m, k>>]

\* peekInt32: the length, when the buffer starts with a frame
PeekInt32(b) == IF b[1][2] = 1 THEN Length(b[1][1]) ELSE 0

\* parse: the checksum over all units of the frame, the tag and the message
Parse(b, len) ==
  /\ \A k \in 1..(kHeaderLen + len) : k <= Len(b) /\ b[k] = <<b[1][1], k>>
  /\ b[1][1].good

Complete(b, len) == Len(b) >= kHeaderLen + len

Retrieve(b, n) == SubSeq(b, n + 1, Len(b))

(* onMessage: the messages given to the callback, what is left in the      *)
(* buffer, and whether the error callback was called.  RpcChannel gives    *)
(* the codec no raw callback, so m_rawCb is empty.                         *)
OnBad_Skip(b, len) == [messages |-> <<>>, rest |-> Retrieve(b, kHeaderLen + len), error |-> TRUE]
OnBad(b, len) == [messages |-> <<>>, rest |-> b, error |-> TRUE]

RECURSIVE OnMessage(_)
OnMessage_Once(b) ==
  IF Len(b) >= kMinMessageLen + kHeaderLen /\ Complete(b, PeekInt32(b))
  THEN [messages |-> <<b[1][1]>>, rest |-> Retrieve(b, kHeaderLen + PeekInt32(b)),
        error |-> FALSE]
  ELSE [messages |-> <<>>, rest |-> b, error |-> FALSE]

OnMessage(b) ==
  LET len == PeekInt32(b)
      stop == [messages |-> <<>>, rest |-> b, error |-> FALSE]
      more == OnMessage(Retrieve(b, kHeaderLen + len))
  IN CASE Len(b) < kMinMessageLen + kHeaderLen -> stop
       [] Len(b) >= kMinMessageLen + kHeaderLen /\ (len > kMaxMessageLen \/ len < kMinMessageLen) ->
            [stop EXCEPT !.error = TRUE]
       [] Len(b) >= kMinMessageLen + kHeaderLen /\ len \in kMinMessageLen..kMaxMessageLen ->
            IF ~Complete(b, len) THEN stop
            ELSE IF Parse(b, len) THEN [more EXCEPT !.messages = <<b[1][1]>> \o @]
            ELSE OnBad(b, len)

-----------------------------------------------------------------------------
(* The client                                                              *)

Init ==
  /\ m_id \in 0..Ids - 1          \* the constructor leaves it uninitialised
  /\ pc = [t \in Threads |-> "idle"] /\ id = [t \in Threads |-> 0]
  /\ what = [t \in Threads |-> 0] /\ calls = 0 /\ outstandings = {}
  /\ stream = [s \in Sides |-> <<>>] /\ inbuf = [s \in Sides |-> <<>>]
  /\ conn = [s \in Sides |-> "kConnected"]
  /\ channel = TRUE /\ closures = {}
  /\ sent = [s \in Sides |-> <<>>] /\ got = [s \in Sides |-> <<>>]
  /\ completed = <<>>

FetchId_NoAdd(t) ==
  /\ pc[t] = "idle" /\ calls < MaxCalls
  /\ calls' = calls + 1 /\ what' = [what EXCEPT ![t] = calls + 1]
  /\ id' = [id EXCEPT ![t] = m_id]
  /\ pc' = [pc EXCEPT ![t] = "insert"]
  /\ UNCHANGED <<m_id, outstandings, stream, inbuf, conn, channel, closures, sent, got,
                 completed>>

FetchId(t) ==
  /\ pc[t] = "idle" /\ calls < MaxCalls
  /\ calls' = calls + 1 /\ what' = [what EXCEPT ![t] = calls + 1]
  /\ id' = [id EXCEPT ![t] = m_id] /\ m_id' = (m_id + 1) % Ids
  /\ pc' = [pc EXCEPT ![t] = "insert"]
  /\ UNCHANGED <<outstandings, stream, inbuf, conn, channel, closures, sent, got, completed>>

\* m_outstandings[id] = out
Inserted(i, call) == {o \in outstandings : o[1] # i} \cup {<<i, call>>}

Insert(t) ==
  /\ pc[t] = "insert"
  /\ outstandings' = Inserted(id[t], what[t])
  /\ pc' = [pc EXCEPT ![t] = "send"]
  /\ UNCHANGED <<m_id, id, what, calls, stream, inbuf, conn, channel, closures, sent, got,
                 completed>>

\* m_codec.send: nothing is sent unless the sender is connected.
Accepted(from, ms) == IF conn[from] = "kConnected" THEN ms ELSE <<>>
Frames(from, ms) == FlattenSeq([n \in 1..Len(Accepted(from, ms)) |-> Frame(ms[n])])
Sent(from, to, ms) ==
  /\ stream' = [stream EXCEPT ![to] = @ \o Frames(from, ms)]
  /\ sent' = [sent EXCEPT ![to] = @ \o Accepted(from, ms)]

Send(t) ==
  /\ pc[t] = "send"
  /\ \E kind \in Kinds, size \in Sizes, good \in Goods :
       Sent("client", "server",
            <<[type |-> "REQUEST", id |-> id[t], call |-> what[t], kind |-> kind, size |-> size,
               good |-> good]>>)
  /\ pc' = [pc EXCEPT ![t] = "idle"]
  /\ UNCHANGED <<m_id, id, what, calls, outstandings, inbuf, conn, channel, closures, got,
                 completed>>

OnResponse(acc, m) ==
  LET found == {o \in acc.outstandings : o[1] = m.id}
  IN [outstandings |-> acc.outstandings \ found,
      completed |-> acc.completed \o SetToSeq({<<o[2], m.call>> : o \in found})]

\* defaultErrorCallback
ErrorCallback(side, error) ==
  conn' = IF error /\ conn[side] = "kConnected" THEN [conn EXCEPT ![side] = "kDisconnecting"]
          ELSE conn

\* TcpConnection::handleRead and RpcChannel::onMessage
ClientReceives ==
  \E n \in 1..Len(stream["client"]) :
    \E r \in {OnMessage(inbuf["client"] \o SubSeq(stream["client"], 1, n))} :
       /\ conn["client"] # "kDisconnected"
       /\ stream' = [stream EXCEPT !["client"] = SubSeq(@, n + 1, Len(@))]
       /\ inbuf' = [inbuf EXCEPT !["client"] = r.rest]
       /\ got' = [got EXCEPT !["client"] = @ \o r.messages]
       /\ LET acc == FoldLeft(OnResponse, [outstandings |-> outstandings, completed |-> completed],
                              r.messages)
          IN outstandings' = acc.outstandings /\ completed' = acc.completed
       /\ ErrorCallback("client", r.error)
       /\ UNCHANGED <<m_id, pc, id, what, calls, channel, closures, sent>>

-----------------------------------------------------------------------------
(* The server                                                              *)

\* doneCallback, or the error that onRpcMessage answers with
ResponseTo(m) ==
  [type |-> "RESPONSE", id |-> m.id, call |-> m.call, kind |-> m.kind, size |-> m.size,
   good |-> TRUE]

\* onRpcMessage of a REQUEST: an error is answered at once, and a service that
\* is found runs its closure at once or later.
ServerReceives ==
  \E n \in 1..Len(stream["server"]) :
    \E r \in {OnMessage(inbuf["server"] \o SubSeq(stream["server"], 1, n))} :
       /\ conn["server"] # "kDisconnected" /\ channel
       /\ inbuf' = [inbuf EXCEPT !["server"] = r.rest]
       /\ got' = [got EXCEPT !["server"] = @ \o r.messages]
       /\ \E later \in SUBSET {m \in ToSet(r.messages) : m.kind = "ok"} :
            LET now == SelectSeq(r.messages, LAMBDA m : m \notin later)
                answers == [k \in 1..Len(now) |-> ResponseTo(now[k])]
                rest == [stream EXCEPT !["server"] = SubSeq(@, n + 1, Len(@))]
            IN /\ closures' = closures \cup later
               /\ stream' = [rest EXCEPT !["client"] = @ \o Frames("server", answers)]
               /\ sent' = [sent EXCEPT !["client"] = @ \o Accepted("server", answers)]
       /\ ErrorCallback("server", r.error)
       /\ UNCHANGED <<m_id, pc, id, what, calls, outstandings, channel, completed>>

\* A service runs its closure, which calls doneCallback on the channel.  It
\* holds a bare pointer: once the channel is gone it uses freed memory, of
\* which only the outcome that nothing is sent is modelled.
RunClosure ==
  \E m \in closures :
    /\ closures' = closures \ {m}
    /\ IF channel THEN Sent("server", "client", <<ResponseTo(m)>>) ELSE UNCHANGED <<stream, sent>>
    /\ UNCHANGED <<m_id, pc, id, what, calls, outstandings, inbuf, conn, channel, got, completed>>

\* The connection goes down at a side; RpcServer::onConnection drops the channel.
Down(side) ==
  /\ conn[side] # "kDisconnected"
  /\ conn' = [conn EXCEPT ![side] = "kDisconnected"]
  /\ channel' = (channel /\ side # "server")
  /\ UNCHANGED <<m_id, pc, id, what, calls, outstandings, stream, inbuf, closures, sent, got,
                 completed>>

Next ==
  \/ \E t \in Threads : FetchId(t)
  \/ \E t \in Threads : Insert(t)
  \/ \E t \in Threads : Send(t)
  \/ ClientReceives
  \/ ServerReceives
  \/ RunClosure
  \/ \E side \in Sides : Down(side)

Spec == Init /\ [][Next]_vars

(***************************************************************************)
(* A thread in CallMethod goes on, the loops read what has arrived, and    *)
(* services run their closures.                                            *)
(***************************************************************************)
FairSpec ==
  /\ Spec
  /\ \A t \in Threads : WF_vars(Insert(t)) /\ WF_vars(Send(t))
  /\ WF_vars(ClientReceives) /\ WF_vars(ServerReceives) /\ WF_vars(RunClosure)

-----------------------------------------------------------------------------
(* Properties                                                              *)

\* The type of every variable.
TypeOK ==
  /\ m_id \in 0..Ids - 1 /\ calls \in 0..MaxCalls
  /\ pc \in [Threads -> {"idle", "insert", "send"}]
  /\ id \in [Threads -> 0..Ids - 1] /\ what \in [Threads -> 0..MaxCalls]
  /\ outstandings \subseteq (0..Ids - 1) \X (1..MaxCalls)
  /\ conn \in [Sides -> {"kConnected", "kDisconnecting", "kDisconnected"}]
  /\ channel \in BOOLEAN

\* The done of a call runs once, with the response to that call.
DoneOnce ==
  /\ \A n \in 1..Len(completed) : completed[n][1] = completed[n][2]
  /\ \A n, k \in 1..Len(completed) : n # k => completed[n][1] # completed[k][1]

\* The callback of a codec gets what was sent.
WholeMessages == \A s \in Sides : IsPrefix(got[s], sent[s])

(***************************************************************************)
(* RpcChannel: each call's done runs at most once, and with the response   *)
(* to that call, whatever m_id started from and whatever order threads and *)
(* services take.  ProtobufCodecLite::onMessage: however they are cut, the *)
(* codec gives its callback the messages that were sent, whole and in      *)
(* order, and none after one that it rejects, though more arrives and      *)
(* onMessage is called again.                                              *)
(***************************************************************************)
RightResponse == DoneOnce /\ WholeMessages

\* While the connection is up every call's done runs.
CallsComplete ==
  \A c \in 1..MaxCalls :
    calls >= c ~> \/ \E n \in 1..Len(completed) : completed[n][1] = c
                 \/ \E s \in Sides : conn[s] # "kConnected"
=============================================================================
