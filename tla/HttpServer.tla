----------------------------- MODULE HttpServer -----------------------------
(***************************************************************************)
(* One connection of youth/net/http: HttpServer::onMessage, the parser     *)
(* HttpContext, the request it fills, the handlers of HttpMethodBuilder    *)
(* that store, fetch and delete a file, and the write-complete callback    *)
(* that sends a file block by block.                                       *)
(*                                                                         *)
(* The peer's bytes are tokens <<kind, request>>: a request line, a header *)
(* line, the end of a line, or a byte of a body.  They arrive in pieces of *)
(* any size.  TcpConnection is used by what it does: send and shutdown do  *)
(* nothing unless the state is kConnected, output leaves in order, and the *)
(* write-complete callback is queued each time the output has all left.    *)
(***************************************************************************)
EXTENDS Naturals, Sequences, FiniteSets, SequencesExt

CONSTANTS
  Kinds,         \* the requests the peer may make
  MaxRequests,   \* bound: requests on the connection
  Setups,        \* what the application may have set and registered
  Disk           \* the file on disk at first: each block of m_bufSize is text, or
                 \* has a zero byte in it

ASSUME HttpAssumption ==
  /\ \A k \in Kinds :
       /\ k.method \in {"GET", "POST", "PUT", "DELETE", "HEAD"}
       /\ k.target \in {"method", "file", "nowhere"}
       /\ k.version \in {"Http10", "Http11", "Unknown"}
       /\ k.len \in Nat /\ k.number \in BOOLEAN
  /\ MaxRequests \in Nat /\ Disk \in Seq({"block", "zero"})
  /\ Setups \subseteq SUBSET {"httpCallback", "readyReadCallback", "methods"}

VARIABLES
  setup,    \* the callbacks that are set, and whether methods are registered
  sent,     \* the requests the peer has made
  stream,   \* what it has sent and the server has not read
  inbuf,    \* m_inputBuffer
  state,    \* HttpContext::m_state
  req,      \* HttpContext::m_request
  fs,       \* HttpContext::m_context, the file of a PUT or a GET, and the disk
  tcp,      \* the connection
  crashed,  \* an exception has left the handler
  handled,  \* history: the requests given to onRequest, and what was read of them
  peer      \* history: what the peer did that the server does not expect

vars == <<setup, sent, stream, inbuf, state, req, fs, tcp, crashed, handled, peer>>

-----------------------------------------------------------------------------
(* What the peer sends                                                     *)

\* Content-Length, the length of the body or something that is no number
HasHeader(k) == k.method \in {"POST", "PUT"}

Body(i, k) == [n \in 1..k.len |-> <<"body", i>>]

Wire(i, k) ==
  <<<<"line", i>>, <<"crlf", i>>>>
    \o (IF HasHeader(k) THEN <<<<"header", i>>, <<"crlf", i>>>> ELSE <<>>)
    \o <<<<"crlf", i>>>> \o Body(i, k)

-----------------------------------------------------------------------------
(* The request                                                             *)

\* all is history: the bytes given to appendBody
NewRequest == [line |-> 0, header |-> 0, body |-> <<>>, contentLength |-> 0, readSize |-> 0,
               all |-> <<>>]

\* swap leaves the two counters as they are.
Swapped(q) ==
  [NewRequest EXCEPT !.contentLength = q.contentLength, !.readSize = q.readSize]

InitContentLength(q) ==
  IF q.contentLength > 0 \/ q.header = 0 THEN q
  ELSE [q EXCEPT !.contentLength = sent[q.header].len]

\* std::stoll throws for what is no number.
StollThrows(q) == q.contentLength = 0 /\ q.header # 0 /\ ~sent[q.header].number

GotAllBody_NoReadSize(q) == Len(q.body) = InitContentLength(q).contentLength
GotAllBody(q) == Len(q.body) + q.readSize = InitContentLength(q).contentLength

\* readAll takes the body out of the request, and counts it.
ReadAll(q) == [q EXCEPT !.readSize = @ + Len(q.body), !.body = <<>>]

-----------------------------------------------------------------------------
(* The parser                                                              *)

\* findCRLF: the index of the first end of a line, 0 without one
FindCRLF(b) == SelectInSeq(b, LAMBDA t : t[1] = "crlf")

\* setMethod and the tests of the path and the version
ProcessRequestLine(text) ==
  Len(text) = 1 /\ text[1][1] = "line" /\ sent[text[1][2]].version # "Unknown"

IsHeader(text) == \E n \in 1..Len(text) : text[n][1] = "header"

\* addHeader; a line of something else with a colon is another field
AddHeader(q, text) == IF Len(text) = 1 THEN [q EXCEPT !.header = text[1][2]] ELSE q

ParseBody_Any(q) == "GotAll"
ParseBody(q) ==
  IF InitContentLength(q).contentLength = 0 \/ GotAllBody(q) THEN "GotAll" ELSE "ExpectBody"

RECURSIVE ParseRequest(_, _, _)
ParseRequest(st, q, b) ==
  LET k == FindCRLF(b)
      text == SubSeq(b, 1, k - 1)
      rest == SubSeq(b, k + 1, Len(b))
      r == InitContentLength(q)
      stop(ok, s, q1, b1) ==
        [ok |-> ok, throws |-> FALSE, state |-> s, req |-> q1, buf |-> b1]
  IN CASE st = "ExpectBody" ->
            LET q1 == IF r.contentLength = 0 THEN r ELSE [r EXCEPT !.body = @ \o b, !.all = @ \o b]
            IN stop(TRUE, ParseBody(q1), q1, IF r.contentLength = 0 THEN b ELSE <<>>)
       [] st # "ExpectBody" /\ k = 0 -> stop(TRUE, st, q, b)
       [] st = "ExpectRequestLine" /\ k # 0 ->
            IF ProcessRequestLine(text)
            THEN ParseRequest("ExpectHeaders", [q EXCEPT !.line = text[1][2]], rest)
            ELSE stop(FALSE, st, q, b)
       [] st = "ExpectHeaders" /\ k # 0 ->
            IF IsHeader(text) THEN ParseRequest(st, AddHeader(q, text), rest)
            ELSE IF StollThrows(q) THEN [stop(TRUE, st, q, b) EXCEPT !.throws = TRUE]
            ELSE stop(TRUE, IF r.contentLength = 0 THEN "GotAll" ELSE "ExpectBody", r, rest)

-----------------------------------------------------------------------------
(* The connection                                                          *)

\* shutdown
Shutdown(t) == [t EXCEPT !.state = "kDisconnecting"]

\* The write-complete callback, when the output has all left.
Complete(t) == [t EXCEPT !.writing = FALSE, !.queued = @ + IF t.notify THEN 1 ELSE 0]

\* send: all of it leaves at once, or some stays in the output buffer.
Sends(t, items) ==
  LET t1 == [t EXCEPT !.out = @ \o items]
  IN CASE t.state # "kConnected" -> {t}
       [] t.state = "kConnected" /\ t.writing -> {t1}
       [] t.state = "kConnected" /\ ~t.writing ->
            {Complete(t1)} \cup (IF items = <<>> THEN {} ELSE {[t1 EXCEPT !.writing = TRUE]})

-----------------------------------------------------------------------------
(* HttpMethodBuilder                                                       *)

Opened(f, mode) == [f EXCEPT !.mode = mode, !.open = TRUE, !.pos = 0]

\* File::open with WriteOnly empties the file.
OpenedToWrite(f) == [Opened(f, "w") EXCEPT !.disk = <<>>, !.exists = TRUE]

\* File::write
WriteTo(f, data) == IF f.mode = "w" /\ f.open THEN [f EXCEPT !.disk = @ \o data] ELSE f

\* What a handler leaves: the request, the file, the connection.
Result(q, f, t) == [req |-> q, fs |-> f, tcp |-> t]

\* Where the path of the request leads
Target(q) ==
  IF sent[q.line].target = "method" /\ "methods" \notin setup THEN "nowhere"
  ELSE sent[q.line].target

PutReadyRead(q, f, t) ==
  IF sent[q.line].method # "PUT" THEN Result(q, f, t)
  ELSE IF f.mode = "none" /\ Target(q) = "nowhere" THEN Result(q, f, Shutdown(t))
  ELSE Result(ReadAll(q), WriteTo(IF f.mode = "none" THEN OpenedToWrite(f) ELSE f, q.body), t)

\* onReadyRead: the application's callback reads the body or not; readyRead of a
\* registered method does nothing.
OnReadyRead(q, f, t) ==
  IF "readyReadCallback" \in setup THEN {Result(q, f, t), Result(ReadAll(q), f, t)}
  ELSE IF Target(q) = "method" THEN {Result(q, f, t)}
  ELSE {PutReadyRead(q, f, t)}

\* The response, the file and the connection after a request.
Reply(q, f, notify, status, close) ==
  [req |-> q, fs |-> f, notify |-> notify, status |-> status, close |-> close]

PutFinish(q, f, t) ==
  LET w == WriteTo(f, q.body)
  IN Reply(ReadAll(q), [w EXCEPT !.open = FALSE], t.notify, 200, TRUE)

GetFile_NoCallback(q, f, t, close) ==
  IF Target(q) = "nowhere" \/ ~f.exists THEN Reply(q, f, t.notify, 400, TRUE)
  ELSE Reply(q, Opened(f, "r"), t.notify, 200, close)

GetFile(q, f, t, close) ==
  IF Target(q) = "nowhere" \/ ~f.exists THEN Reply(q, f, t.notify, 400, TRUE)
  ELSE Reply(q, Opened(f, "r"), TRUE, 200, close)

DeletePath(q, f, t) ==
  IF Target(q) = "nowhere" \/ ~f.exists THEN Reply(q, f, t.notify, 400, TRUE)
  ELSE Reply(q, [f EXCEPT !.exists = FALSE], t.notify, 200, TRUE)

\* The handlers of the application: read the body or not, close or not.
Calls(q, f, t, close) ==
  {Reply(q1, f, t.notify, 200, c) : q1 \in {q, ReadAll(q)}, c \in {close, TRUE}}

\* isEmpty: no method was registered, and the builder's onReadyRead, which makes a
\* list for every method it looks up, has not run.
NoMethods == "methods" \notin setup /\ "readyReadCallback" \in setup

\* The builder has to answer for itself.
Builtin(q) == "httpCallback" \notin setup /\ ~NoMethods /\ Target(q) # "method"

\* HttpServer::onRequest up to the response
Replies(q, f, t) ==
  LET k == sent[q.line]
      close == k.version = "Http10"
      notFound == Reply(q, f, t.notify, 404, TRUE)
  IN CASE "httpCallback" \in setup -> Calls(q, f, t, close)
       [] "httpCallback" \notin setup /\ NoMethods -> {notFound}
       [] "httpCallback" \notin setup /\ Target(q) = "method" -> Calls(q, f, t, close)
       [] Builtin(q) /\ k.method = "PUT" -> {PutFinish(q, f, t)}
       [] Builtin(q) /\ k.method = "GET" -> {GetFile(q, f, t, close)}
       [] Builtin(q) /\ k.method = "DELETE" -> {DeletePath(q, f, t)}
       [] Builtin(q) /\ k.method \in {"POST", "HEAD"} -> {notFound}

\* putFinish takes the file out of an empty std::any: the path could not be opened,
\* or the application's callback took the place of putReadyRead.
Throws(q, f) == Builtin(q) /\ sent[q.line].method = "PUT" /\ f.mode = "none"

-----------------------------------------------------------------------------
(* The handlers                                                            *)

Init ==
  /\ sent = <<>> /\ stream = <<>> /\ inbuf = <<>>
  /\ state = "ExpectRequestLine" /\ req = NewRequest
  /\ fs = [mode |-> "none", open |-> FALSE, pos |-> 0, exists |-> TRUE,
            disk |-> [n \in 1..Len(Disk) |-> <<Disk[n], n>>]]
  /\ tcp = [state |-> "kConnected", out |-> <<>>, writing |-> FALSE, queued |-> 0,
             notify |-> FALSE]
  /\ setup \in Setups /\ crashed = FALSE /\ handled = <<>> /\ peer = {}

Response(i, status) == <<"response", i, status>>
Answered(i) == \E n \in 1..Len(tcp.out) : tcp.out[n][1] = "response" /\ tcp.out[n][2] = i

\* The peer has got its response, and the connection is there for another.
Settled ==
  /\ stream = <<>> /\ tcp.state = "kConnected" /\ fs.mode # "r"
  /\ \A i \in 1..Len(sent) : Answered(i)

\* The peer makes a request; it is hasty when it does not wait until it may.
Request(k) ==
  /\ Len(sent) < MaxRequests
  /\ sent' = Append(sent, k)
  /\ stream' = stream \o Wire(Len(sent) + 1, k)
  /\ peer' = IF Settled THEN peer ELSE peer \cup {"hasty"}
  /\ UNCHANGED <<setup, inbuf, state, req, fs, tcp, crashed, handled>>

\* A piece that holds bytes of a body, and something else as well
Mixed(piece) ==
  /\ \E n \in 1..Len(piece) : piece[n][1] = "body"
  /\ \E n \in 1..Len(piece) : piece[n][1] # "body"

\* onMessage when parseRequest throws: nothing catches it, and the process ends.
ParseThrows(p) ==
  /\ p.throws
  /\ crashed' = TRUE /\ req' = p.req /\ state' = p.state
  /\ UNCHANGED <<fs, tcp, handled>>

\* onMessage when parseRequest returns false
BadRequest(p) ==
  /\ ~p.throws /\ ~p.ok
  /\ \E t \in Sends(tcp, <<Response(p.buf[1][2], 400)>>) : tcp' = Shutdown(t)
  /\ req' = p.req /\ state' = p.state
  /\ UNCHANGED <<fs, crashed, handled>>

\* onMessage when a line is not complete
Incomplete(p) ==
  /\ ~p.throws /\ p.ok /\ p.state \in {"ExpectRequestLine", "ExpectHeaders"}
  /\ req' = p.req /\ state' = p.state
  /\ UNCHANGED <<fs, tcp, crashed, handled>>

\* onMessage when gotBody
MoreBody(p) ==
  /\ p.ok /\ p.state = "ExpectBody"
  /\ \E r \in OnReadyRead(p.req, fs, tcp) : req' = r.req /\ fs' = r.fs /\ tcp' = r.tcp
  /\ state' = p.state
  /\ UNCHANGED <<crashed, handled>>

GotRequest(p) ==
  /\ p.ok /\ p.state = "GotAll"
  /\ \E r \in OnReadyRead(p.req, fs, tcp) :
       \/ /\ Throws(r.req, r.fs)
          /\ crashed' = TRUE /\ tcp' = r.tcp /\ req' = r.req /\ fs' = r.fs
          /\ state' = p.state
          /\ UNCHANGED handled
       \/ /\ ~Throws(r.req, r.fs)
          /\ \E y \in Replies(r.req, r.fs, r.tcp) :
               /\ \E t \in Sends([r.tcp EXCEPT !.notify = y.notify],
                                 <<Response(r.req.line, y.status)>>) :
                    tcp' = IF y.close THEN Shutdown(t) ELSE t
               /\ req' = Swapped(y.req) /\ fs' = y.fs
          /\ state' = "ExpectRequestLine"
          /\ handled' = Append(handled, [line |-> r.req.line, body |-> r.req.all])
          /\ UNCHANGED crashed

\* TcpConnection::handleRead and HttpServer::onMessage
Receive ==
  /\ ~crashed
  /\ \E n \in 1..Len(stream) :
       LET piece == SubSeq(stream, 1, n) IN
       /\ stream' = SubSeq(stream, n + 1, Len(stream))
       /\ peer' = IF Mixed(piece) THEN peer \cup {"mixed"} ELSE peer
       /\ \E p \in {ParseRequest(state, req, inbuf \o piece)} :
            /\ inbuf' = p.buf
            /\ \/ ParseThrows(p)
               \/ BadRequest(p)
               \/ Incomplete(p)
               \/ MoreBody(p)
               \/ GotRequest(p)
  /\ UNCHANGED <<setup, sent>>

\* TcpConnection::handleWrite: the rest of the output leaves.
OutputLeft ==
  /\ ~crashed /\ tcp.writing
  /\ tcp' = Complete(tcp)
  /\ UNCHANGED <<setup, sent, stream, inbuf, state, req, fs, crashed, handled, peer>>

\* What std::string makes of a block: it ends at the first zero byte.
UpToZero(block) == IF block[1] = "zero" THEN <<"cut", block[2]>> ELSE block

\* File::readMaxSize: the array that is read into has no terminator, so that the
\* string goes on with what is on the stack until a zero byte comes, in the block
\* or behind it.
ReadMaxSize(f) ==
  LET block == IF f.open /\ f.mode = "r" /\ f.pos < Len(f.disk)
               THEN <<f.disk[f.pos + 1]>> ELSE <<>>
  IN IF block # <<>> /\ block[1][1] = "zero" THEN {<<UpToZero(block[1])>>}
     ELSE {block, Append(block, <<"junk", 0>>)}

AtEnd(f) == ~f.open \/ f.pos >= Len(f.disk)

\* HttpMethodBuilder::writeCompleteCallback
WriteCompleteCallback ==
  /\ ~crashed /\ tcp.queued > 0
  /\ LET f == [fs EXCEPT !.pos = IF @ < Len(fs.disk) THEN @ + 1 ELSE @]
     IN /\ \E data \in ReadMaxSize(fs) :
             \E t \in Sends([tcp EXCEPT !.queued = @ - 1], data) :
               tcp' = IF AtEnd(f) THEN Shutdown(t) ELSE t
        /\ fs' = f
  /\ UNCHANGED <<setup, sent, stream, inbuf, state, req, crashed, handled, peer>>

Next ==
  \/ \E k \in Kinds : Request(k)
  \/ Receive
  \/ OutputLeft
  \/ WriteCompleteCallback

Spec == Init /\ [][Next]_vars

(***************************************************************************)
(* The connection's loop reads what has arrived, writes while there is     *)
(* room, and runs its queue.  The peer need not do anything.               *)
(***************************************************************************)
FairSpec == Spec /\ WF_vars(Receive) /\ WF_vars(OutputLeft) /\ WF_vars(WriteCompleteCallback)

-----------------------------------------------------------------------------
(* Properties                                                              *)

\* The type of every variable; the parser rests only where it can go on,
\* since its loop never ends in the state GotAll.
TypeOK ==
  /\ sent \in Seq(Kinds)
  /\ state \in {"ExpectRequestLine", "ExpectHeaders", "ExpectBody"} \/ crashed
  /\ {req.line, req.header} \subseteq 0..Len(sent)
  /\ tcp.state \in {"kConnected", "kDisconnecting"}
  /\ setup \in Setups /\ peer \subseteq {"hasty", "mixed"}
  /\ fs.mode \in {"none", "r", "w"} /\ fs.pos \in 0..Len(fs.disk)

\* No request before the i-th has a body: HttpRequest::swap leaves the length
\* of a body and the count of what was read of it for the next request.
FirstBody(i) == \A j \in 1..Len(sent) : j < i => sent[j].len = 0

(***************************************************************************)
(* However the bytes are cut into pieces, the requests that reach          *)
(* HttpServer::onRequest are those the peer made, in its order and each    *)
(* with its own body, as long as no request follows one that has a body.   *)
(***************************************************************************)
RequestsAsSent ==
  \A n \in 1..Len(handled) :
    FirstBody(n) => handled[n] = [line |-> n, body |-> Body(n, sent[n])]

\* What has been sent of blocks of the file
BlocksSent == SelectSeq(tcp.out, LAMBDA x : x[1] \in {"block", "cut", "body"})

\* A peer that asks for the connection to be closed, with HTTP/1.0, or that
\* makes a request while a file is sent, does not get the file.
FileDisturbed == "hasty" \in peer \/ \E i \in 1..Len(sent) : sent[i].version = "Http10"

(***************************************************************************)
(* Every block of a file that is found is sent, once and in its order, and *)
(* then the connection is shut down: "File Get - done" (HttpMethod.cc:245).*)
(* It is not that the peer gets the file as it is: File::readMaxSize makes *)
(* a string of an array without a terminator (File.cc:44-46), so that a    *)
(* block with a zero byte is sent only up to it, and what lies on the      *)
(* stack behind any other block may be sent after it.                      *)
(***************************************************************************)
EveryBlockIsSent ==
  fs.mode = "r" ~>
    \/ /\ BlocksSent = [n \in 1..Len(fs.disk) |-> UpToZero(fs.disk[n])]
       /\ tcp.state = "kDisconnecting" /\ ~tcp.writing
    \/ FileDisturbed

\* A PUT that ends the process or whose response finds the connection shut down:
\* its file cannot be opened, or nothing opened it, since the application has
\* its own ready-read callback.
PutFails(k) ==
  /\ k.method = "PUT"
  /\ IF "readyReadCallback" \in setup
     THEN setup = {"readyReadCallback", "methods"} /\ k.target # "method"
     ELSE k.target = "nowhere"

(***************************************************************************)
(* A peer that waits for each response gets one to its request, if the     *)
(* body of the request arrives apart from its headers, and none before it  *)
(* on the connection had a body.  Excepted are a Content-Length that is no *)
(* number, for which std::stoll throws and ends the server                 *)
(* (HttpRequest.cpp:104); a PUT to a path that cannot be opened, for which *)
(* putReadyRead shuts the connection down without sending the response it  *)
(* has made, and any_cast then throws in putFinish (HttpMethod.cc:170-175, *)
(* 191); and, where the application has set its own ready-read callback    *)
(* beside registered methods, a PUT of any file, for which any_cast throws *)
(* as well.                                                                *)
(***************************************************************************)
GetsResponse ==
  \A i \in 1..MaxRequests :
    (Len(sent) >= i /\ sent[i].number /\ ~PutFails(sent[i])) ~>
      (Answered(i) \/ peer # {} \/ ~FirstBody(i))
=============================================================================
