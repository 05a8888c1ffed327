----------------------------- MODULE BufferInt ------------------------------
(***************************************************************************)
(* The integers of youth/net/Buffer: appendInt*, prependInt*, peekInt* and *)
(* readInt*, in network byte order, on the buffer of Buffer.tla.  One end  *)
(* sends integers; their bytes arrive in pieces at the other, where readFd *)
(* puts them into the buffer and a caller reads an integer as soon as the  *)
(* buffer holds the bytes that the assertion of peekInt* asks for.         *)
(***************************************************************************)
EXTENDS Buffer
LOCAL INSTANCE SequencesExt
LOCAL INSTANCE FiniteSetsExt

CONSTANTS
  Base,       \* the number of values of a byte; Byte is 0 .. Base - 1
  Widths,     \* the sizes of the integers, in bytes
  MaxInts     \* bound: integers on their way

ASSUME IntAssumption ==
  /\ Base \in Nat \ {0, 1} /\ Byte = 0 .. Base - 1 /\ Zero = 0
  /\ Widths \subseteq Nat \ {0}
  /\ MaxInts \in Nat

VARIABLES
  wire,      \* bytes sent that have not arrived
  ints,      \* history: the integers that were put and not yet read, in order
  got, want  \* history: what the last read returned, and what was put

intVars == <<buf, expected, wire, ints, got, want>>

\* The integers of width w at the ends of their range, and next to 0
EdgeInts(w) == {-(Base^w \div 2), -1, 0, Base^w \div 2 - 1}

Ints == UNION {[width : {w}, value : EdgeInts(w)] : w \in Widths}

\* The bytes of a two's complement integer in a little-endian host, and back
ToBytes(x, w) == [i \in 1 .. w |-> ((x % Base^w) \div Base^(i - 1)) % Base]

FromBytes(s) ==
  LET w == Len(s)
      u == MapThenSumSet(LAMBDA i : s[i] * Base^(i - 1), 1 .. w)
  IN  IF u >= Base^w \div 2 THEN u - Base^w ELSE u

\* Mutant: the bytes stay in the order of the host.
NetworkToHost_None(s) == s

HostToNetwork(s) == Reverse(s)
NetworkToHost(s) == Reverse(s)

Encode(v) == HostToNetwork(ToBytes(v.value, v.width))

\* peekInt*: w bytes from peek()
PeekInt(b, w) == FromBytes(NetworkToHost([i \in 1 .. w |-> b.vec[b.reader + i - 1]]))

\* The type of every variable.
IntTypeOK ==
  /\ TypeOK
  /\ wire \in Seq(Byte) /\ ints \in Seq(Ints)
  /\ got \in Int /\ want \in Int

IntInit ==
  /\ Init
  /\ wire = <<>> /\ ints = <<>> /\ got = 0 /\ want = 0

\* The other end sends what its appendInt* made.
Send(v) ==
  /\ Len(ints) < MaxInts
  /\ wire' = wire \o Encode(v)
  /\ ints' = Append(ints, v)
  /\ UNCHANGED <<buf, expected, got, want>>

\* Some of it arrives.
Arrive(n) ==
  /\ n \in 1 .. Len(wire)
  /\ DoReadFd(SubSeq(wire, 1, n))
  /\ wire' = SubSeq(wire, n + 1, Len(wire))
  /\ UNCHANGED <<ints, got, want>>

\* appendInt*, into the buffer itself
AppendInt(v) ==
  /\ Len(ints) < MaxInts /\ wire = <<>>
  /\ DoAppend(Encode(v))
  /\ ints' = Append(ints, v)
  /\ UNCHANGED <<wire, got, want>>

\* prependInt*
PrependInt(v) ==
  /\ Len(ints) < MaxInts
  /\ DoPrepend(Encode(v))
  /\ ints' = <<v>> \o ints
  /\ UNCHANGED <<wire, got, want>>

\* readInt*: peekInt* and retrieve
ReadInt ==
  /\ ints # <<>>
  /\ LET w == Head(ints).width IN
       /\ Readable(buf) >= w
       /\ got' = PeekInt(buf, w)
       /\ DoRetrieve(w)
  /\ want' = Head(ints).value
  /\ ints' = Tail(ints)
  /\ UNCHANGED wire

IntNext ==
  \/ \E v \in Ints : Send(v) \/ AppendInt(v) \/ PrependInt(v)
  \/ \E n \in 1 .. Len(wire) : Arrive(n)
  \/ ReadInt

IntSpec == IntInit /\ [][IntNext]_intVars

-----------------------------------------------------------------------------
(* Properties                                                              *)

\* readInt* returns the integer that was put, signs and extremes included, in
\* the order of the calls and however the bytes are split on their way.
ReadsAsPut == got = want
=============================================================================
