------------------------------- MODULE Buffer -------------------------------
(***************************************************************************)
(* youth/net/Buffer: a vector of bytes with a reader and a writer index,   *)
(* that moves its readable bytes to the front or grows when it is full.    *)
(*                                                                         *)
(* A buffer is a record, an operation of the class an operator on it, and  *)
(* an action applies the operation to the buffer of the specification.     *)
(* The assertions of prepend, unwrite and hasWritten are what their        *)
(* callers keep to, and guards here; that of retrieve is not, since        *)
(* retrieve is defined beyond it and TcpConnection uses that.              *)
(***************************************************************************)
EXTENDS Integers, Sequences

CONSTANTS
  Byte,          \* values of a byte
  Zero,          \* the byte 0, that fills a new vector
  kCheapPrepend,
  kInitialSize,
  ExtraSize,     \* sizeof extrabuf in readFd
  MaxLen,        \* bound: bytes in one call
  MaxSize        \* bound: size of the vector

ASSUME BufferAssumption ==
  /\ Zero \in Byte
  /\ kCheapPrepend \in Nat /\ kInitialSize \in Nat /\ ExtraSize \in Nat
  /\ MaxLen \in Nat /\ MaxSize \in Nat

VARIABLES
  buf,      \* m_bufferVec, its size, m_readerIndex and m_writerIndex
  expected  \* history: the bytes that are in it, by the calls made

vars == <<buf, expected>>

-----------------------------------------------------------------------------
(* The operations                                                          *)

NewBuffer == [vec |-> [i \in 0..(kCheapPrepend + kInitialSize - 1) |-> Zero],
              size |-> kCheapPrepend + kInitialSize,
              reader |-> kCheapPrepend, writer |-> kCheapPrepend]

Readable(b) == b.writer - b.reader
Writable(b) == b.size - b.writer
Prependable(b) == b.reader

\* The readable bytes, as toStringPiece returns them
Contents(b) == [i \in 1..Readable(b) |-> b.vec[b.reader + i - 1]]

\* makeSpace: resize
Grow(b, len) ==
  [vec |-> [i \in 0..(b.writer + len - 1) |-> IF i < b.size THEN b.vec[i] ELSE Zero],
   size |-> b.writer + len, reader |-> b.reader, writer |-> b.writer]

\* Mutant: the bytes are moved to the place before the one they are read from.
MoveToFront_Early(b) ==
  [vec |-> [i \in 0..(b.size - 1) |->
              IF i >= kCheapPrepend /\ i < kCheapPrepend + Readable(b)
              THEN b.vec[i - kCheapPrepend + b.reader - 1] ELSE b.vec[i]],
   size |-> b.size, reader |-> kCheapPrepend, writer |-> kCheapPrepend + Readable(b)]

\* makeSpace: move readable data to the front
MoveToFront(b) ==
  [vec |-> [i \in 0..(b.size - 1) |->
              IF i >= kCheapPrepend /\ i < kCheapPrepend + Readable(b)
              THEN b.vec[i - kCheapPrepend + b.reader] ELSE b.vec[i]],
   size |-> b.size, reader |-> kCheapPrepend, writer |-> kCheapPrepend + Readable(b)]

MakeSpace(b, len) ==
  IF Writable(b) + Prependable(b) < len + kCheapPrepend
  THEN Grow(b, len) ELSE MoveToFront(b)

EnsureWritable(b, len) == IF Writable(b) < len THEN MakeSpace(b, len) ELSE b

\* Bytes are copied to beginWrite, and hasWritten is called.
HasWritten(b, data) ==
  [vec |-> [i \in 0..(b.size - 1) |->
              IF i >= b.writer /\ i < b.writer + Len(data)
              THEN data[i - b.writer + 1] ELSE b.vec[i]],
   size |-> b.size, reader |-> b.reader, writer |-> b.writer + Len(data)]

AppendTo(b, data) == HasWritten(EnsureWritable(b, Len(data)), data)

RetrieveAll(b) == [vec |-> b.vec, size |-> b.size,
                   reader |-> kCheapPrepend, writer |-> kCheapPrepend]

Retrieve(b, len) ==
  IF len < Readable(b) THEN [b EXCEPT !.reader = b.reader + len] ELSE RetrieveAll(b)

Unwrite(b, len) == [b EXCEPT !.writer = b.writer - len]

Prepend(b, data) ==
  [vec |-> [i \in 0..(b.size - 1) |->
              IF i >= b.reader - Len(data) /\ i < b.reader
              THEN data[i - (b.reader - Len(data)) + 1] ELSE b.vec[i]],
   size |-> b.size, reader |-> b.reader - Len(data), writer |-> b.writer]

\* shrink, by way of another buffer that is swapped with this one
Shrink(b, reserve) ==
  AppendTo(EnsureWritable(NewBuffer, Readable(b) + reserve), Contents(b))

\* readFd, when readv has returned data: the rest is appended from extrabuf.
ReadFd(b, data) ==
  IF Len(data) <= Writable(b) THEN HasWritten(b, data)
  ELSE LET n == Writable(b)
           head == [i \in 1..n |-> data[i]]
           rest == [i \in 1..(Len(data) - n) |-> data[n + i]]
       IN  AppendTo(HasWritten(b, head), rest)

\* The most readv can return: extrabuf is only used beside a small buffer.
ReadvMax(b) ==
  IF Writable(b) < ExtraSize THEN Writable(b) + ExtraSize ELSE Writable(b)

-----------------------------------------------------------------------------
(* The actions                                                             *)

\* Sequences of n bytes
Bytes(n) == [1..n -> Byte]

Init == buf = NewBuffer /\ expected = <<>>

DoAppend(data) ==
  /\ buf.writer + Len(data) <= MaxSize
  /\ buf' = AppendTo(buf, data)
  /\ expected' = expected \o data

DoEnsureWritable(len) ==
  /\ buf.writer + len <= MaxSize
  /\ buf' = EnsureWritable(buf, len)
  /\ UNCHANGED expected

DoHasWritten(data) ==
  /\ Len(data) <= Writable(buf)
  /\ buf' = HasWritten(buf, data)
  /\ expected' = expected \o data

DoRetrieve(len) ==
  /\ buf' = Retrieve(buf, len)
  /\ expected' = IF len < Len(expected) THEN SubSeq(expected, len + 1, Len(expected)) ELSE <<>>

DoUnwrite(len) ==
  /\ len <= Readable(buf)
  /\ buf' = Unwrite(buf, len)
  /\ expected' = SubSeq(expected, 1, Len(expected) - len)

DoPrepend(data) ==
  /\ Len(data) <= Prependable(buf)
  /\ buf' = Prepend(buf, data)
  /\ expected' = data \o expected

DoShrink(reserve) ==
  /\ kCheapPrepend + Readable(buf) + reserve <= MaxSize
  /\ buf' = Shrink(buf, reserve)
  /\ UNCHANGED expected

DoReadFd(data) ==
  /\ Len(data) <= ReadvMax(buf)
  /\ buf.writer + Len(data) <= MaxSize
  /\ buf' = ReadFd(buf, data)
  /\ expected' = expected \o data

Next ==
  \/ \E n \in 0..MaxLen : \E data \in Bytes(n) :
       DoAppend(data) \/ DoHasWritten(data) \/ DoPrepend(data) \/ DoReadFd(data)
  \/ \E n \in 0..MaxLen :
       DoEnsureWritable(n) \/ DoRetrieve(n) \/ DoUnwrite(n) \/ DoShrink(n)

Spec == Init /\ [][Next]_vars

-----------------------------------------------------------------------------
(* Properties                                                              *)

\* The vector has its size, and the indices are in order and within it.
Valid(b) ==
  /\ b.size \in Nat /\ b.reader \in Nat /\ b.writer \in Nat
  /\ b.vec \in [0..(b.size - 1) -> Byte]
  /\ b.reader <= b.writer /\ b.writer <= b.size
  /\ kCheapPrepend <= b.size

\* The type of every variable, with m_readerIndex <= m_writerIndex <= size.
TypeOK ==
  /\ buf = [vec |-> buf.vec, size |-> buf.size, reader |-> buf.reader, writer |-> buf.writer]
  /\ Valid(buf)
  /\ expected \in Seq(Byte)

(***************************************************************************)
(* Through every sequence of appends, reads, retrievals, prepends, moves   *)
(* and growth, the readable bytes are those that the calls put there.      *)
(***************************************************************************)
ContentsKept == Contents(buf) = expected

(***************************************************************************)
(* The assertions of ensureWritableBytes and makeSpace: there is the room  *)
(* asked for, and bytes are only moved towards the front.                  *)
(***************************************************************************)
MakesRoom ==
  \A len \in 0..MaxLen :
    /\ Writable(EnsureWritable(buf, len)) >= len
    /\ (/\ Writable(buf) < len
        /\ ~(Writable(buf) + Prependable(buf) < len + kCheapPrepend)) =>
       kCheapPrepend < buf.reader
=============================================================================
