------------------------------ MODULE Logging -------------------------------
(***************************************************************************)
(* youth/utils: a log line from the macro that begins it to the place      *)
(* where it is written.  Logging and LogOut make the line, LogStream       *)
(* formats what is inserted into its LogBuffer, and the destructor of      *)
(* Logging puts the line out, and flushes and aborts after a FATAL one.    *)
(*                                                                         *)
(* A character is a string of length one; the header, the errno text and   *)
(* the place in the source are one character each.  A floating point       *)
(* value is a number of millionths.  Lines fit into the LogBuffer, which   *)
(* LogStream takes for granted.                                            *)
(***************************************************************************)
EXTENDS Integers, Sequences
LOCAL INSTANCE SequencesExt

CONSTANTS
  Threads,                          \* the threads that log
  Items,                            \* what they insert
  LevelsUsed, LevelsSet,            \* the levels of lines, and of setLogLevel
  MaxLines, MaxItems,               \* bound: lines in all, items of a line
  iFloatMaxStrLen, iDoubleMaxStrLen \* the room for a float and for a double

DEBUG == 0
INFO == 1
WARN == 2
ERROR == 3
FATAL == 4

ASSUME LoggingAssumption ==
  /\ Items \subseteq [type : {"int", "float", "double", "bool", "pointer", "text"},
                      value : Int, text : Seq(STRING)]
  /\ LevelsUsed \subseteq DEBUG .. FATAL /\ LevelsSet \subseteq DEBUG .. FATAL
  /\ MaxLines \in Nat /\ MaxItems \in Nat
  /\ iFloatMaxStrLen \in Nat \ {0} /\ iDoubleMaxStrLen \in Nat \ {0}

Sinks == {"stdout", "file", "async"}

VARIABLES
  s_logLevel,
  s_outputFunc, s_flushFunc,  \* the sinks that they write to, and flush
  writer,   \* per thread: where it is, the level, the line and what was inserted
  sink,     \* per sink: lines that are buffered, and lines that are out
  aborted,  \* the thread that has ended the process, if any
  lines     \* how much of MaxLines is used

lineVars == <<s_logLevel, s_outputFunc, s_flushFunc, writer, sink, aborted, lines>>

None == "none"

-----------------------------------------------------------------------------
(* LogStream                                                               *)

digits ==
  <<"9", "8", "7", "6", "5", "4", "3", "2", "1", "0", "1", "2", "3", "4", "5", "6", "7", "8", "9">>
zero(lsd) == digits[10 + lsd]

digitsHex ==
  <<"0", "1", "2", "3", "4", "5", "6", "7", "8", "9", "A", "B", "C", "D", "E", "F">>

\* Division as in C, towards zero; the remainder has the sign of the dividend.
Quot(i, n) == IF i < 0 THEN -((-i) \div n) ELSE i \div n
Rem(i, n) == i - n * Quot(i, n)

\* Mutant: while (i != 0) { ... } in place of do { ... } while (i != 0).
convert_While(value) ==
  LET low[i \in Int] ==
        IF i = 0 THEN <<>> ELSE <<zero(Rem(i, 10))>> \o low[Quot(i, 10)]
  IN  Reverse(low[value] \o (IF value < 0 THEN <<"-">> ELSE <<>>))

\* convert: the digits from the lowest, the sign, and the whole reversed
convert(value) ==
  LET low[i \in Int] ==
        <<zero(Rem(i, 10))>> \o (IF Quot(i, 10) = 0 THEN <<>> ELSE low[Quot(i, 10)])
  IN  Reverse(low[value] \o (IF value < 0 THEN <<"-">> ELSE <<>>))

convertHex(value) ==
  LET low[i \in Nat] ==
        <<digitsHex[(i % 16) + 1]>> \o (IF i \div 16 = 0 THEN <<>> ELSE low[i \div 16])
  IN  Reverse(low[value])

\* "%.6d": at least six digits, and a sign
SixDigits(n) ==
  LET d == convert(IF n < 0 THEN -n ELSE n)
  IN  (IF n < 0 THEN <<"-">> ELSE <<>>) \o [i \in 1 .. 6 - Len(d) |-> "0"] \o d

\* snprintf into max bytes, and appendLen of the length it returns: what does
\* not fit is a terminator and bytes that were there before.
Snprintf(text, max) ==
  IF Len(text) < max THEN text
  ELSE SubSeq(text, 1, max - 1) \o [i \in 1 .. Len(text) - max + 1 |-> "?"]

FloatText(v) ==
  LET iValue == Quot(v, 1000000)
  IN  Snprintf(convert(iValue) \o <<".">> \o SixDigits(v - iValue * 1000000), iFloatMaxStrLen)

\* "%lf"
DoubleText(v) ==
  LET a == IF v < 0 THEN -v ELSE v
  IN  Snprintf((IF v < 0 THEN <<"-">> ELSE <<>>) \o convert(a \div 1000000)
                 \o <<".">> \o SixDigits(a % 1000000), iDoubleMaxStrLen)

\* strlen: a text ends before its first terminator.
UpToNul(text) ==
  LET nul == SelectInSeq(text, LAMBDA c : c = "NUL")
  IN  IF nul = 0 THEN text ELSE SubSeq(text, 1, nul - 1)

BoolText(v) == IF v # 0 THEN <<"t", "r", "u", "e">> ELSE <<"f", "a", "l", "s", "e">>

\* The overloads of operator<<: what each appends to the LogBuffer
Inserted(item) ==
  CASE item.type = "int" -> convert(item.value)
    [] item.type = "float" -> FloatText(item.value)
    [] item.type = "double" -> DoubleText(item.value)
    [] item.type = "bool" -> BoolText(item.value)
    [] item.type = "pointer" -> <<"0", "x">> \o convertHex(item.value)
    [] item.type = "text" -> UpToNul(item.text)

-----------------------------------------------------------------------------
(* LogOut and Logging                                                      *)

s_arrLevel == <<"[DEBUG]", "[INFO]", "[WARN]", "[ERROR]", "[FATAL]">>

\* LogOut::LogOut, with the errno text of LOG_ERROR and LOG_FATAL
Header(level) ==
  <<s_arrLevel[level + 1]>> \o (IF level >= ERROR THEN <<"errno">> ELSE <<>>)

\* LogOut::finishLog
FinishLog(line) == line \o <<"place", "LF">>

Idle == [pc |-> "idle", level |-> DEBUG, line |-> <<>>, items |-> <<>>, to |-> {}]

LineTypeOK ==
  /\ s_logLevel \in DEBUG .. FATAL
  /\ s_outputFunc \subseteq Sinks /\ s_flushFunc \subseteq Sinks
  /\ \A t \in Threads :
       /\ writer[t].pc \in {"idle", "stream", "output", "flush", "abort"}
       /\ writer[t].level \in DEBUG .. FATAL
       /\ writer[t].to \subseteq Sinks
  /\ DOMAIN sink = Sinks
  /\ aborted \in Threads \cup {None}
  /\ lines \in 0 .. MaxLines

LineInit ==
  /\ s_logLevel = INFO
  /\ s_outputFunc = {"stdout"} /\ s_flushFunc = {"stdout"}
  /\ writer = [t \in Threads |-> Idle]
  /\ sink = [s \in Sinks |-> [buffered |-> <<>>, out |-> <<>>]]
  /\ aborted = None
  /\ lines = 0

\* The static functions are called before threads log.
Quiet == aborted = None /\ \A t \in Threads : writer[t] = Idle

SetLogLevel(level) ==
  /\ Quiet
  /\ s_logLevel' = level
  /\ UNCHANGED <<s_outputFunc, s_flushFunc, writer, sink, aborted, lines>>

\* Mutant: the flush function is left as it was.
FlushFor_Kept(mode) == s_flushFunc

\* The flush function that goes with a mode; LOGGER_MODE_STDOUT changes nothing.
FlushFor(mode) ==
  CASE mode = {"stdout"} -> s_flushFunc
    [] OTHER -> mode

\* setOutputMode
SetOutputMode(mode) ==
  /\ Quiet
  /\ s_outputFunc' = IF mode = {"stdout"} THEN s_outputFunc ELSE mode
  /\ s_flushFunc' = FlushFor(mode)
  /\ UNCHANGED <<s_logLevel, writer, sink, aborted, lines>>

\* LogAsync::start calls setOutputFunc; setFlushFunc is private.
SetOutputFunc ==
  /\ Quiet
  /\ s_outputFunc' = {"async"}
  /\ UNCHANGED <<s_logLevel, s_flushFunc, writer, sink, aborted, lines>>

\* The macros: LOG_ERROR and LOG_FATAL do not look at the level.
Begin(t, level) ==
  /\ aborted = None /\ writer[t] = Idle
  /\ lines < MaxLines
  /\ level < ERROR => s_logLevel <= level
  /\ writer' = [writer EXCEPT ![t].pc = "stream", ![t].level = level,
                              ![t].line = Header(level)]
  /\ lines' = lines + 1
  /\ UNCHANGED <<s_logLevel, s_outputFunc, s_flushFunc, sink, aborted>>

\* operator<<
Insert(t, item) ==
  /\ aborted = None /\ writer[t].pc = "stream"
  /\ Len(writer[t].items) < MaxItems
  /\ writer' = [writer EXCEPT ![t].line = @ \o Inserted(item),
                              ![t].items = Append(@, item)]
  /\ UNCHANGED <<s_logLevel, s_outputFunc, s_flushFunc, sink, aborted, lines>>

\* Logging::~Logging begins.
Finish(t) ==
  /\ aborted = None /\ writer[t].pc = "stream"
  /\ writer' = [writer EXCEPT ![t].line = FinishLog(@), ![t].pc = "output",
                              ![t].to = s_outputFunc]
  /\ UNCHANGED <<s_logLevel, s_outputFunc, s_flushFunc, sink, aborted, lines>>

\* s_outputFunc: each sink takes the line under its own lock, stdout before the
\* file.  After the last one only a FATAL line has more to do.
Output(t) ==
  /\ aborted = None /\ writer[t].pc = "output"
  /\ LET w == writer[t]
         s == IF "stdout" \in w.to THEN "stdout" ELSE CHOOSE x \in w.to : TRUE
         left == w.to \ {s}
         entry == [chars |-> w.line, level |-> w.level, items |-> w.items, by |-> t]
     IN  /\ sink' = [sink EXCEPT ![s].buffered = Append(@, entry)]
         /\ writer' = [writer EXCEPT ![t] =
              IF left # {} THEN [w EXCEPT !.to = left]
              ELSE IF w.level = FATAL THEN [w EXCEPT !.pc = "flush", !.to = {}]
              ELSE Idle]
  /\ UNCHANGED <<s_logLevel, s_outputFunc, s_flushFunc, aborted, lines>>

\* s_flushFunc, before the abort
Flush(t) ==
  /\ aborted = None /\ writer[t].pc = "flush"
  /\ sink' = [s \in Sinks |->
       IF s \in s_flushFunc
       THEN [buffered |-> <<>>, out |-> sink[s].out \o sink[s].buffered]
       ELSE sink[s]]
  /\ writer' = [writer EXCEPT ![t].pc = "abort"]
  /\ UNCHANGED <<s_logLevel, s_outputFunc, s_flushFunc, aborted, lines>>

\* The buffer of a sink may be written out at any time.
Spill(s) ==
  /\ aborted = None /\ sink[s].buffered # <<>>
  /\ sink' = [sink EXCEPT ![s].out = Append(@, Head(sink[s].buffered)),
                          ![s].buffered = Tail(@)]
  /\ UNCHANGED <<s_logLevel, s_outputFunc, s_flushFunc, writer, aborted, lines>>

Abort(t) ==
  /\ aborted = None /\ writer[t].pc = "abort"
  /\ aborted' = t
  /\ UNCHANGED <<s_logLevel, s_outputFunc, s_flushFunc, writer, sink, lines>>

LineNext ==
  \/ \E level \in LevelsSet : SetLogLevel(level)
  \/ \E mode \in {{"stdout"}, {"file"}, {"stdout", "file"}} : SetOutputMode(mode)
  \/ SetOutputFunc
  \/ \E t \in Threads :
       \/ \E level \in LevelsUsed : Begin(t, level)
       \/ \E item \in Items : Insert(t, item)
       \/ Finish(t) \/ Output(t) \/ Flush(t) \/ Abort(t)
  \/ \E s \in Sinks : Spill(s)

-----------------------------------------------------------------------------
(* Properties                                                              *)

\* A number as it is written in base b: as many digits as it needs, by their
\* places, the highest first.
Numeral(n, b) ==
  LET k == CHOOSE x \in 1 .. 12 : n \div b ^ (x - 1) < b /\ (x > 1 => n \div b ^ (x - 1) > 0)
  IN  [i \in 1 .. k |-> digitsHex[((n \div b ^ (k - i)) % b) + 1]]

Signed(n, text) == IF n < 0 THEN <<"-">> \o text ELSE text
Size(n) == IF n < 0 THEN -n ELSE n

\* Six places after the point
Decimal(v) ==
  LET frac == Numeral((Size(v) % 1000000) + 1000000, 10)
  IN  Signed(v, Numeral(Size(v) \div 1000000, 10) \o <<".">> \o Tail(frac))

\* How a reader would write what was inserted
Written(item) ==
  CASE item.type = "int" -> Signed(item.value, Numeral(Size(item.value), 10))
    [] item.type \in {"float", "double"} -> Decimal(item.value)
    [] item.type = "pointer" -> <<"0", "x">> \o Numeral(item.value, 16)
    [] item.type = "bool" -> BoolText(item.value)
    [] item.type = "text" -> item.text

\* What LogStream can write: a text without a terminator in it, a float that is
\* not negative, or is whole, and numbers that fit into the room that snprintf is
\* given
CanWrite(item) ==
  /\ item.type = "text" => "NUL" \notin Range(item.text)
  /\ item.type = "float" => /\ item.value >= 0 \/ Size(item.value) % 1000000 = 0
                            /\ Len(Decimal(item.value)) < iFloatMaxStrLen
  /\ item.type = "double" => Len(Decimal(item.value)) < iDoubleMaxStrLen

Entries(s) == Range(sink[s].out) \cup Range(sink[s].buffered)

\* What came out is what was inserted.
AsInserted ==
  \A s \in Sinks : \A e \in Entries(s) :
    (\A i \in DOMAIN e.items : CanWrite(e.items[i])) =>
      e.chars = Header(e.level)
                  \o FlattenSeq([i \in DOMAIN e.items |-> Written(e.items[i])])
                  \o <<"place", "LF">>

\* The FATAL line that ended the process is out.
FatalIsOut ==
  (aborted # None /\ s_outputFunc # {"async"}) =>
    \A s \in s_outputFunc :
      \E e \in Range(sink[s].out) : e.by = aborted /\ e.level = FATAL

(***************************************************************************)
(* Logging, LogOut and LogStream: every line that reaches a sink, whatever *)
(* other threads log meanwhile, is the header of its level, what was       *)
(* inserted, in order and in full, and its place in the source; integers   *)
(* come out as they are, the smallest of their type and zero included.     *)
(* Excepted are lines with something that LogStream cannot write: a string *)
(* with a terminator in it, which is cut there (LogStream.cpp:177); a      *)
(* float with a fraction that is below 0, which gets a second sign or      *)
(* loses its own; a float or double longer than its room; and lines longer *)
(* than the LogBuffer, of which the module has none.                       *)
(* And when a thread has ended the process ("flush the buffers before      *)
(* that", Logging.cpp:35), its FATAL line is out, wherever the mode sends  *)
(* it; not so once LogAsync has replaced the output function, for the      *)
(* flush function stays what it was.                                       *)
(***************************************************************************)
LinesComeOut == AsInserted /\ FatalIsOut
=============================================================================
