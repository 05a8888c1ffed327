---------------------------- MODULE BufferProofs ----------------------------
(***************************************************************************)
(* Machine-checked proofs about Buffer, for every size of the vector, of   *)
(* the room for prepend and of what is read or written: the indices stay   *)
(* in order, and the readable bytes are those that were put there.         *)
(***************************************************************************)
EXTENDS Buffer, TLAPS, SequenceTheorems

\* A readable byte, or one just written, is within the vector.
LEMMA IndexInside ==
  \A r, w, n, s, i \in Int :
    0 <= r /\ w + n <= s /\ 1 <= i /\ i <= (w - r) + n => r + i - 1 \in 0..(s - 1)
OBVIOUS

\* A readable byte keeps its place in a vector that grew.
LEMMA IndexInGrown ==
  \A r, w, n, s, i \in Int :
    0 <= r /\ w <= s /\ s < w + n /\ i \in 1..(w - r)
      => r + i - 1 \in 0..(w + n - 1) /\ r + i - 1 < s
OBVIOUS

\* A byte that is written at a position has its place in what is written.
LEMMA PlaceInside ==
  \A lo, n, i \in Int : lo <= i /\ i < lo + n => i - lo + 1 \in 1..n
OBVIOUS

\* The same for bytes that end just before a position.
LEMMA PlaceBefore ==
  \A r, n, i \in Int : r - n <= i /\ i < r => i - (r - n) + 1 \in 1..n
OBVIOUS

\* A byte that is moved to the front was a readable one.
LEMMA MovedInside ==
  \A k, r, w, s, i \in Int :
    0 <= r /\ w <= s /\ k <= i /\ i < k + (w - r) => i - k + r \in 0..(s - 1)
OBVIOUS

\* Where a readable byte is once it is moved to the front.
LEMMA IndexAtFront ==
  \A k, r, w, s, i \in Int :
    0 <= k /\ k < r /\ w <= s /\ i \in 1..(w - r)
      => /\ k + i - 1 \in 0..(s - 1) /\ k + i - 1 >= k /\ k + i - 1 < k + (w - r)
         /\ (k + i - 1) - k + r = r + i - 1
OBVIOUS

\* Readable bytes are a sequence as long as the distance of the indices.
LEMMA ContentsType ==
  ASSUME NEW b, Valid(b)
  PROVE  /\ Contents(b) \in Seq(Byte)
         /\ Len(Contents(b)) = Readable(b) /\ Readable(b) \in Nat
         /\ \A i \in 1..Readable(b) : Contents(b)[i] = b.vec[b.reader + i - 1]
<1>1. Readable(b) \in Nat
  BY DEF Valid, Readable
<1>0. /\ b.reader \in Int /\ b.writer \in Int /\ b.size \in Int /\ 0 \in Int
      /\ 0 <= b.reader /\ b.writer + 0 <= b.size /\ b.vec \in [0..(b.size - 1) -> Byte]
      /\ Readable(b) = b.writer - b.reader
  BY DEF Valid, Readable
<1>2. ASSUME NEW i \in 1..Readable(b) PROVE b.vec[b.reader + i - 1] \in Byte
  <2>1. i \in Int /\ 1 <= i /\ i <= (b.writer - b.reader) + 0
    BY ONLY <1>0, i \in 1..Readable(b)
  <2>2. b.reader + i - 1 \in 0..(b.size - 1)
    BY ONLY <1>0, <2>1, IndexInside
  <2> QED
    BY ONLY <1>0, <2>2
<1>3. Contents(b) \in [1..Readable(b) -> Byte]
  BY <1>2 DEF Contents
<1>4. \A i \in 1..Readable(b) : Contents(b)[i] = b.vec[b.reader + i - 1]
  BY DEF Contents
<1> QED
  BY <1>1, <1>3, <1>4, LenProperties

\* Concatenation of bytes, element by element.
LEMMA ConcatBytes ==
  \A s, t \in Seq(Byte) :
    /\ s \o t \in Seq(Byte)
    /\ Len(s \o t) = Len(s) + Len(t)
    /\ \A i \in 1..(Len(s) + Len(t)) : (s \o t)[i] =
         IF i <= Len(s) THEN s[i] ELSE t[i - Len(s)]
BY ConcatProperties

\* Concatenation of bytes is associative.
LEMMA ConcatAssocBytes ==
  \A s, t, u \in Seq(Byte) : (s \o t) \o u = s \o (t \o u)
<1> TAKE s, t, u \in Seq(Byte)
<1> QED
  BY ONLY s \in Seq(Byte), t \in Seq(Byte), u \in Seq(Byte), ConcatAssociative

\* Part of a sequence of bytes, element by element.
LEMMA PartOfBytes ==
  ASSUME NEW s \in Seq(Byte), NEW m \in Nat, NEW n \in Nat, m <= n, n <= Len(s)
  PROVE  /\ SubSeq(s, m + 1, n) \in Seq(Byte)
         /\ Len(SubSeq(s, m + 1, n)) = n - m
         /\ \A i \in 1..(n - m) : SubSeq(s, m + 1, n)[i] = s[m + i]
<1>1. \A i \in (m + 1)..n : s[i] \in Byte
  BY LenProperties
<1>2. m + 1 \in Int /\ n \in Int
  OBVIOUS
<1>3. /\ SubSeq(s, m + 1, n) \in Seq(Byte)
      /\ Len(SubSeq(s, m + 1, n)) = IF m + 1 <= n THEN n - (m + 1) + 1 ELSE 0
      /\ \A i \in 1..(n - (m + 1) + 1) : SubSeq(s, m + 1, n)[i] = s[(m + 1) + i - 1]
  BY ONLY <1>1, <1>2, SubSeqProperties
<1>4. n - (m + 1) + 1 = n - m /\ \A i \in Int : (m + 1) + i - 1 = m + i
  OBVIOUS
<1>5. ASSUME NEW i \in 1..(n - m) PROVE SubSeq(s, m + 1, n)[i] = s[m + i]
  <2>1. i \in 1..(n - (m + 1) + 1) /\ (m + 1) + i - 1 = m + i
    BY <1>4
  <2> QED
    BY ONLY <1>3, <2>1
<1>6. Len(SubSeq(s, m + 1, n)) = n - m
  BY <1>3
<1> QED
  BY <1>3, <1>5, <1>6

\* A new buffer is valid and empty.
LEMMA NewBufferOK == Valid(NewBuffer) /\ Readable(NewBuffer) = 0 /\ Contents(NewBuffer) = <<>>
<1>1. Valid(NewBuffer) /\ Readable(NewBuffer) = 0
  BY BufferAssumption DEF Valid, NewBuffer, Readable
<1>2. Contents(NewBuffer) \in Seq(Byte) /\ Len(Contents(NewBuffer)) = 0
  BY <1>1, ContentsType
<1> QED
  BY <1>1, <1>2, EmptySeq

\* Two valid buffers with the same number of the same bytes have the same contents.
LEMMA SameContents ==
  ASSUME NEW a, NEW b, Valid(a), Valid(b), Readable(a) = Readable(b),
         \A i \in 1..Readable(b) : a.vec[a.reader + i - 1] = b.vec[b.reader + i - 1]
  PROVE  Contents(a) = Contents(b)
BY DEF Contents

\* Growth keeps the bytes and makes the room asked for.
LEMMA GrowOK ==
  ASSUME NEW b, Valid(b), NEW len \in Nat, Writable(b) < len
  PROVE  /\ Valid(Grow(b, len)) /\ Contents(Grow(b, len)) = Contents(b)
         /\ Writable(Grow(b, len)) = len
<1> DEFINE a == Grow(b, len)
<1>1. /\ a.size = b.writer + len /\ a.reader = b.reader /\ a.writer = b.writer
      /\ a.vec = [i \in 0..(b.writer + len - 1) |-> IF i < b.size THEN b.vec[i] ELSE Zero]
  BY DEF Grow
<1> HIDE DEF a
<1>2. /\ b.size < b.writer + len /\ b.size \in Nat /\ b.writer \in Nat /\ b.reader \in Nat
      /\ b.reader <= b.writer /\ b.writer <= b.size /\ kCheapPrepend <= b.size
      /\ Readable(b) = b.writer - b.reader
      /\ b.vec \in [0..(b.size - 1) -> Byte]
  BY DEF Valid, Writable, Readable
<1>3. a.vec \in [0..(a.size - 1) -> Byte]
  <2>1. ASSUME NEW i \in 0..(b.writer + len - 1) PROVE a.vec[i] \in Byte
    <3>1. CASE i < b.size
      <4>1. i \in 0..(b.size - 1)
        BY <1>2, <3>1
      <4>2. a.vec[i] = b.vec[i]
        BY <1>1, <3>1
      <4> QED
        BY <1>2, <4>1, <4>2
    <3>2. CASE ~(i < b.size)
      BY <1>1, <3>2, BufferAssumption
    <3> QED
      BY <3>1, <3>2
  <2>2. a.size - 1 = b.writer + len - 1
    <3>1. a.size = b.writer + len /\ b.writer \in Int /\ len \in Int
      BY <1>1, <1>2
    <3> QED
      BY ONLY <3>1
  <2>3. a.vec = [i \in 0..(b.writer + len - 1) |-> a.vec[i]]
    BY <1>1
  <2>4. a.vec \in [0..(b.writer + len - 1) -> Byte]
    BY ONLY <2>1, <2>3
  <2> QED
    BY ONLY <2>2, <2>4
<1>4. Valid(a)
  <2>1. /\ b.writer + len \in Nat /\ b.writer <= b.writer + len
        /\ kCheapPrepend <= b.writer + len
    BY ONLY <1>2, len \in Nat, BufferAssumption
  <2> QED
    BY ONLY <1>1, <1>2, <1>3, <2>1 DEF Valid
<1>5. ASSUME NEW i \in 1..Readable(b)
      PROVE  a.vec[a.reader + i - 1] = b.vec[b.reader + i - 1]
  <2>1. b.reader + i - 1 \in 0..(b.writer + len - 1) /\ b.reader + i - 1 < b.size
    BY ONLY <1>2, i \in 1..Readable(b), len \in Nat, IndexInGrown
  <2> QED
    BY ONLY <1>1, <2>1
<1>6. Readable(a) = Readable(b) /\ Writable(a) = len
  BY <1>1, <1>2 DEF Readable, Writable
<1>7. Contents(a) = Contents(b)
  BY <1>4, <1>5, <1>6, SameContents
<1> QED
  BY <1>4, <1>6, <1>7 DEF a

\* Moving the bytes to the front keeps them, when there is room in all.
LEMMA MoveToFrontOK ==
  ASSUME NEW b, Valid(b), NEW len \in Nat, Writable(b) < len,
         ~(Writable(b) + Prependable(b) < len + kCheapPrepend)
  PROVE  /\ Valid(MoveToFront(b)) /\ Contents(MoveToFront(b)) = Contents(b)
         /\ Writable(MoveToFront(b)) >= len
         /\ kCheapPrepend < b.reader
<1> DEFINE a == MoveToFront(b)
<1>1. /\ a.size = b.size /\ a.reader = kCheapPrepend
      /\ a.writer = kCheapPrepend + Readable(b)
      /\ a.vec = [i \in 0..(b.size - 1) |->
                    IF i >= kCheapPrepend /\ i < kCheapPrepend + Readable(b)
                    THEN b.vec[i - kCheapPrepend + b.reader] ELSE b.vec[i]]
  BY DEF MoveToFront
<1> HIDE DEF a
<1>2. /\ b.size \in Nat /\ b.writer \in Nat /\ b.reader \in Nat /\ kCheapPrepend \in Nat
      /\ b.reader <= b.writer /\ b.writer <= b.size /\ kCheapPrepend < b.reader
      /\ Readable(b) = b.writer - b.reader
      /\ b.vec \in [0..(b.size - 1) -> Byte]
  BY BufferAssumption DEF Valid, Writable, Prependable, Readable
<1>3. ASSUME NEW i \in 0..(b.size - 1) PROVE a.vec[i] \in Byte
  <2>1. CASE i >= kCheapPrepend /\ i < kCheapPrepend + Readable(b)
    <3>1. i - kCheapPrepend + b.reader \in 0..(b.size - 1)
      <4>1. /\ i \in Int /\ b.reader \in Int /\ b.writer \in Int /\ b.size \in Int
            /\ kCheapPrepend \in Int /\ 0 <= b.reader /\ b.writer <= b.size
            /\ kCheapPrepend <= i /\ i < kCheapPrepend + (b.writer - b.reader)
        BY ONLY <1>2, <2>1, i \in 0..(b.size - 1)
      <4> QED
        BY ONLY <4>1, MovedInside
    <3> QED
      BY <1>1, <1>2, <2>1, <3>1
  <2>2. CASE ~(i >= kCheapPrepend /\ i < kCheapPrepend + Readable(b))
    BY <1>1, <1>2, <2>2
  <2> QED
    BY <2>1, <2>2
<1>4. a.vec \in [0..(a.size - 1) -> Byte]
  BY <1>1, <1>3
<1>5. Valid(a)
  <2>1. /\ kCheapPrepend + Readable(b) \in Nat
        /\ kCheapPrepend <= kCheapPrepend + Readable(b)
        /\ kCheapPrepend + Readable(b) <= b.size /\ kCheapPrepend <= b.size
    BY ONLY <1>2
  <2> QED
    BY ONLY <1>1, <1>2, <1>4, <2>1 DEF Valid
<1>6. Readable(a) = Readable(b) /\ Writable(a) >= len
  BY <1>1, <1>2 DEF Readable, Writable, Prependable
<1>7. ASSUME NEW i \in 1..Readable(b)
      PROVE  a.vec[a.reader + i - 1] = b.vec[b.reader + i - 1]
  <2>1. /\ kCheapPrepend + i - 1 \in 0..(b.size - 1)
        /\ kCheapPrepend + i - 1 >= kCheapPrepend
        /\ kCheapPrepend + i - 1 < kCheapPrepend + Readable(b)
        /\ (kCheapPrepend + i - 1) - kCheapPrepend + b.reader = b.reader + i - 1
    BY ONLY <1>2, i \in 1..Readable(b), IndexAtFront
  <2> QED
    BY ONLY <1>1, <2>1
<1>8. Contents(a) = Contents(b)
  BY <1>5, <1>6, <1>7, SameContents
<1> QED
  BY <1>2, <1>5, <1>6, <1>8 DEF a

\* ensureWritableBytes makes the room asked for and keeps the bytes.
LEMMA EnsureWritableOK ==
  ASSUME NEW b, Valid(b), NEW len \in Nat
  PROVE  /\ Valid(EnsureWritable(b, len)) /\ Contents(EnsureWritable(b, len)) = Contents(b)
         /\ Writable(EnsureWritable(b, len)) >= len
<1>1. CASE ~(Writable(b) < len)
  BY <1>1 DEF EnsureWritable, Valid, Writable
<1>2. CASE Writable(b) < len /\ Writable(b) + Prependable(b) < len + kCheapPrepend
  BY <1>2, GrowOK DEF EnsureWritable, MakeSpace
<1>3. CASE Writable(b) < len /\ ~(Writable(b) + Prependable(b) < len + kCheapPrepend)
  BY <1>3, MoveToFrontOK DEF EnsureWritable, MakeSpace
<1> QED
  BY <1>1, <1>2, <1>3

\* Bytes written at the writer index follow those that were readable.
LEMMA HasWrittenOK ==
  ASSUME NEW b, Valid(b), NEW data \in Seq(Byte), Len(data) <= Writable(b)
  PROVE  /\ Valid(HasWritten(b, data))
         /\ Contents(HasWritten(b, data)) = Contents(b) \o data
<1> DEFINE a == HasWritten(b, data)
           n == Len(data)
<1>1. /\ a.size = b.size /\ a.reader = b.reader /\ a.writer = b.writer + n
      /\ a.vec = [i \in 0..(b.size - 1) |->
                    IF i >= b.writer /\ i < b.writer + n
                    THEN data[i - b.writer + 1] ELSE b.vec[i]]
  BY DEF HasWritten
<1>2. n \in Nat /\ \A i \in 1..n : data[i] \in Byte
  BY LenProperties
<1>3. n <= Writable(b)
  OBVIOUS
<1> HIDE DEF a, n
<1>4. /\ b.size \in Nat /\ b.writer \in Nat /\ b.reader \in Nat
      /\ b.reader <= b.writer /\ b.writer + n <= b.size /\ kCheapPrepend <= b.size
      /\ Readable(b) = b.writer - b.reader /\ Readable(b) \in Nat
  BY <1>2, <1>3 DEF Valid, Writable, Readable
<1>v. b.vec \in [0..(b.size - 1) -> Byte]
  BY DEF Valid
<1>5. ASSUME NEW i \in 0..(b.size - 1) PROVE a.vec[i] \in Byte
  <2>1. CASE i >= b.writer /\ i < b.writer + n
    <3>1. i - b.writer + 1 \in 1..n
      <4>1. i \in Int /\ n \in Int /\ b.writer \in Int /\ b.writer <= i
        BY ONLY <1>2, <1>4, <2>1, i \in 0..(b.size - 1)
      <4> QED
        BY ONLY <2>1, <4>1, PlaceInside
    <3> QED
      BY <1>1, <1>2, <2>1, <3>1
  <2>2. CASE ~(i >= b.writer /\ i < b.writer + n)
    BY <1>1, <1>v, <2>2
  <2> QED
    BY <2>1, <2>2
<1>6. Valid(a)
  <2>1. a.vec \in [0..(a.size - 1) -> Byte]
    BY <1>1, <1>5
  <2> QED
    BY <1>1, <1>2, <1>4, <2>1 DEF Valid
<1>7. Readable(a) = Readable(b) + n
  BY <1>1, <1>2, <1>4 DEF Readable
<1>8. /\ Contents(a) \in Seq(Byte) /\ Len(Contents(a)) = Readable(a)
      /\ \A i \in 1..Readable(a) : Contents(a)[i] = a.vec[a.reader + i - 1]
  BY <1>6, ContentsType
<1>9. /\ Contents(b) \in Seq(Byte) /\ Len(Contents(b)) = Readable(b)
      /\ \A i \in 1..Readable(b) : Contents(b)[i] = b.vec[b.reader + i - 1]
  BY ContentsType
<1>10. /\ Contents(b) \o data \in Seq(Byte)
       /\ Len(Contents(b) \o data) = Readable(b) + n
       /\ \A i \in 1..(Readable(b) + n) : (Contents(b) \o data)[i] =
            IF i <= Readable(b) THEN Contents(b)[i] ELSE data[i - Readable(b)]
  <2>1. /\ Contents(b) \o data \in Seq(Byte)
        /\ Len(Contents(b) \o data) = Len(Contents(b)) + Len(data)
        /\ \A i \in 1..(Len(Contents(b)) + Len(data)) : (Contents(b) \o data)[i] =
             IF i <= Len(Contents(b)) THEN Contents(b)[i] ELSE data[i - Len(Contents(b))]
    BY ONLY <1>9, ConcatBytes, data \in Seq(Byte)
  <2>2. Len(Contents(b)) = Readable(b) /\ Len(data) = n
    BY <1>9 DEF n
  <2> QED
    BY ONLY <2>1, <2>2
<1>11. ASSUME NEW i \in 1..(Readable(b) + n)
       PROVE  Contents(a)[i] = (Contents(b) \o data)[i]
  <2>0. i \in Int /\ 1 <= i /\ i <= (b.writer - b.reader) + n
    BY <1>2, <1>4
  <2>1. i \in 1..Readable(a) /\ b.reader + i - 1 \in 0..(b.size - 1)
    <3>1. i \in 1..Readable(a)
      BY <1>7
    <3>2. b.reader + i - 1 \in 0..(b.size - 1)
      <4>1. /\ b.reader \in Int /\ b.writer \in Int /\ n \in Int /\ b.size \in Int
            /\ 0 <= b.reader /\ b.writer + n <= b.size
        BY <1>2, <1>4
      <4> QED
        BY ONLY <2>0, <4>1, IndexInside
    <3> QED
      BY <3>1, <3>2
  <2>2. Contents(a)[i] = a.vec[b.reader + i - 1]
    BY <1>1, <1>8, <2>1
  <2>3. CASE i <= Readable(b)
    <3>1. i \in 1..Readable(b) /\ ~(b.reader + i - 1 >= b.writer)
      BY <1>4, <2>0, <2>3
    <3>2. a.vec[b.reader + i - 1] = b.vec[b.reader + i - 1]
      BY <1>1, <2>1, <3>1
    <3> QED
      BY <1>9, <1>10, <2>2, <2>3, <3>1, <3>2
  <2>4. CASE ~(i <= Readable(b))
    <3>0. /\ b.reader \in Int /\ b.writer \in Int /\ n \in Int
          /\ Readable(b) = b.writer - b.reader
      BY ONLY <1>2, <1>4
    <3>1. /\ b.reader + i - 1 >= b.writer /\ b.reader + i - 1 < b.writer + n
          /\ (b.reader + i - 1) - b.writer + 1 = i - Readable(b)
      BY ONLY <2>0, <2>4, <3>0
    <3>2. a.vec[b.reader + i - 1] = data[i - Readable(b)]
      BY <1>1, <2>1, <3>1
    <3> QED
      BY <1>10, <2>2, <2>4, <3>2
  <2> QED
    BY <2>3, <2>4
<1>12. Contents(a) = Contents(b) \o data
  BY <1>7, <1>8, <1>10, <1>11, SeqEqual
<1> QED
  BY <1>6, <1>12 DEF a

\* append adds its bytes at the end.
LEMMA AppendOK ==
  ASSUME NEW b, Valid(b), NEW data \in Seq(Byte)
  PROVE  /\ Valid(AppendTo(b, data))
         /\ Contents(AppendTo(b, data)) = Contents(b) \o data
<1>1. Len(data) \in Nat
  BY LenProperties
<1>2. /\ Valid(EnsureWritable(b, Len(data)))
      /\ Contents(EnsureWritable(b, Len(data))) = Contents(b)
      /\ Len(data) <= Writable(EnsureWritable(b, Len(data)))
  BY <1>1, EnsureWritableOK DEF Valid, Writable
<1> QED
  BY <1>2, HasWrittenOK DEF AppendTo

\* retrieve drops the first bytes, and all of them when asked for too many.
LEMMA RetrieveOK ==
  ASSUME NEW b, Valid(b), NEW len \in Nat,
         b = [vec |-> b.vec, size |-> b.size, reader |-> b.reader, writer |-> b.writer]
  PROVE  /\ Valid(Retrieve(b, len))
         /\ Contents(Retrieve(b, len)) = IF len < Len(Contents(b))
              THEN SubSeq(Contents(b), len + 1, Len(Contents(b))) ELSE <<>>
<1> DEFINE a == Retrieve(b, len)
<1>0. /\ b.size \in Nat /\ b.writer \in Nat /\ b.reader \in Nat /\ kCheapPrepend \in Nat
      /\ b.reader <= b.writer /\ b.writer <= b.size /\ kCheapPrepend <= b.size
      /\ Readable(b) = b.writer - b.reader /\ Readable(b) \in Nat
  BY BufferAssumption DEF Valid, Readable
<1>1. /\ Contents(b) \in Seq(Byte) /\ Len(Contents(b)) = Readable(b)
      /\ \A i \in 1..Readable(b) : Contents(b)[i] = b.vec[b.reader + i - 1]
  BY ContentsType
<1>2. CASE len < Readable(b)
  <2>1. /\ a.vec = b.vec /\ a.size = b.size /\ a.writer = b.writer
        /\ a.reader = b.reader + len
    BY <1>2 DEF Retrieve
  <2> HIDE DEF a
  <2>2. Valid(a) /\ Readable(a) = Readable(b) - len /\ Readable(a) \in Nat
    BY <1>0, <1>2, <2>1 DEF Valid, Readable
  <2>3. /\ Contents(a) \in Seq(Byte) /\ Len(Contents(a)) = Readable(a)
        /\ \A i \in 1..Readable(a) : Contents(a)[i] = a.vec[a.reader + i - 1]
    BY <2>2, ContentsType
  <2> DEFINE t == SubSeq(Contents(b), len + 1, Readable(b))
  <2>4. /\ t \in Seq(Byte) /\ Len(t) = Readable(b) - len
        /\ \A i \in 1..(Readable(b) - len) : t[i] = Contents(b)[len + i]
    <3>1. len <= Readable(b) /\ Readable(b) <= Len(Contents(b)) /\ Readable(b) \in Nat
      BY <1>0, <1>1, <1>2
    <3> QED
      BY <1>1, <3>1, PartOfBytes
  <2> HIDE DEF t
  <2>5. ASSUME NEW i \in 1..Readable(a) PROVE Contents(a)[i] = t[i]
    <3>1. /\ i \in 1..(Readable(b) - len) /\ len + i \in 1..Readable(b)
          /\ a.reader + i - 1 = b.reader + (len + i) - 1
      BY <1>0, <1>2, <2>1, <2>2
    <3> QED
      BY <1>1, <2>1, <2>3, <2>4, <3>1
  <2>6. Contents(a) = t
    BY <2>2, <2>3, <2>4, <2>5, SeqEqual
  <2> QED
    BY <1>1, <1>2, <2>2, <2>6 DEF a, t
<1>3. CASE ~(len < Readable(b))
  <2>1. /\ a.vec = b.vec /\ a.size = b.size /\ a.writer = kCheapPrepend
        /\ a.reader = kCheapPrepend
    BY <1>3 DEF Retrieve, RetrieveAll
  <2> HIDE DEF a
  <2>2. Valid(a) /\ Readable(a) = 0
    BY <1>0, <2>1 DEF Valid, Readable
  <2>3. Contents(a) = <<>>
    BY <2>2, ContentsType, EmptySeq
  <2> QED
    BY <1>1, <1>3, <2>2, <2>3 DEF a
<1> QED
  BY <1>2, <1>3

\* unwrite drops the last bytes.
LEMMA UnwriteOK ==
  ASSUME NEW b, Valid(b), NEW len \in Nat, len <= Readable(b),
         b = [vec |-> b.vec, size |-> b.size, reader |-> b.reader, writer |-> b.writer]
  PROVE  /\ Valid(Unwrite(b, len))
         /\ Contents(Unwrite(b, len)) = SubSeq(Contents(b), 1, Len(Contents(b)) - len)
<1> DEFINE a == Unwrite(b, len)
           t == SubSeq(Contents(b), 0 + 1, Readable(b) - len)
<1>0. /\ b.size \in Nat /\ b.writer \in Nat /\ b.reader \in Nat
      /\ b.reader <= b.writer /\ b.writer <= b.size /\ kCheapPrepend <= b.size
      /\ Readable(b) = b.writer - b.reader /\ Readable(b) \in Nat
  BY DEF Valid, Readable
<1>1. /\ Contents(b) \in Seq(Byte) /\ Len(Contents(b)) = Readable(b)
      /\ \A i \in 1..Readable(b) : Contents(b)[i] = b.vec[b.reader + i - 1]
  BY ContentsType
<1>2. /\ a.vec = b.vec /\ a.size = b.size /\ a.writer = b.writer - len
      /\ a.reader = b.reader
  BY DEF Unwrite
<1> HIDE DEF a
<1>3. Valid(a) /\ Readable(a) = Readable(b) - len /\ Readable(a) \in Nat
  BY <1>0, <1>2 DEF Valid, Readable
<1>4. /\ Contents(a) \in Seq(Byte) /\ Len(Contents(a)) = Readable(a)
      /\ \A i \in 1..Readable(a) : Contents(a)[i] = a.vec[a.reader + i - 1]
  BY <1>3, ContentsType
<1>5. /\ t \in Seq(Byte) /\ Len(t) = Readable(a)
      /\ \A i \in 1..Readable(a) : t[i] = Contents(b)[i]
  <2>1. 0 <= Readable(a) /\ Readable(a) <= Len(Contents(b)) /\ Readable(a) - 0 = Readable(a)
    BY <1>0, <1>1, <1>3
  <2>2. \A i \in 1..Readable(a) : 0 + i = i
    BY <1>3
  <2> QED
    BY <1>1, <1>3, <2>1, <2>2, PartOfBytes
<1> HIDE DEF t
<1>6. ASSUME NEW i \in 1..Readable(a) PROVE Contents(a)[i] = t[i]
  <2>1. i \in 1..Readable(b)
    BY <1>0, <1>3
  <2> QED
    BY <1>1, <1>2, <1>4, <1>5, <2>1
<1>7. Contents(a) = t
  BY <1>4, <1>5, <1>6, SeqEqual
<1> QED
  BY <1>1, <1>3, <1>7 DEF a, t

\* prepend puts its bytes before those that were readable.
LEMMA PrependOK ==
  ASSUME NEW b, Valid(b), NEW data \in Seq(Byte), Len(data) <= Prependable(b)
  PROVE  /\ Valid(Prepend(b, data))
         /\ Contents(Prepend(b, data)) = data \o Contents(b)
<1> DEFINE a == Prepend(b, data)
           n == Len(data)
<1>1. /\ a.size = b.size /\ a.reader = b.reader - n /\ a.writer = b.writer
      /\ a.vec = [i \in 0..(b.size - 1) |->
                    IF i >= b.reader - n /\ i < b.reader
                    THEN data[i - (b.reader - n) + 1] ELSE b.vec[i]]
  BY DEF Prepend
<1>2. n \in Nat /\ \A i \in 1..n : data[i] \in Byte
  BY LenProperties
<1>3. n <= b.reader
  BY DEF Prependable
<1> HIDE DEF a, n
<1>4. /\ b.size \in Nat /\ b.writer \in Nat /\ b.reader \in Nat
      /\ b.reader <= b.writer /\ b.writer <= b.size /\ kCheapPrepend <= b.size
      /\ Readable(b) = b.writer - b.reader /\ Readable(b) \in Nat
  BY DEF Valid, Readable
<1>v. b.vec \in [0..(b.size - 1) -> Byte]
  BY DEF Valid
<1>5. ASSUME NEW i \in 0..(b.size - 1) PROVE a.vec[i] \in Byte
  <2>1. CASE i >= b.reader - n /\ i < b.reader
    <3>1. i - (b.reader - n) + 1 \in 1..n
      <4>1. i \in Int /\ n \in Int /\ b.reader \in Int /\ b.reader - n <= i
        BY ONLY <1>2, <1>4, <2>1, i \in 0..(b.size - 1)
      <4> QED
        BY ONLY <2>1, <4>1, PlaceBefore
    <3> QED
      BY <1>1, <1>2, <2>1, <3>1
  <2>2. CASE ~(i >= b.reader - n /\ i < b.reader)
    BY <1>1, <1>v, <2>2
  <2> QED
    BY <2>1, <2>2
<1>6. Valid(a)
  <2>1. a.vec \in [0..(a.size - 1) -> Byte]
    BY <1>1, <1>5
  <2> QED
    BY <1>1, <1>2, <1>3, <1>4, <2>1 DEF Valid
<1>7. Readable(a) = n + Readable(b)
  BY <1>1, <1>2, <1>3, <1>4 DEF Readable
<1>8. /\ Contents(a) \in Seq(Byte) /\ Len(Contents(a)) = Readable(a)
      /\ \A i \in 1..Readable(a) : Contents(a)[i] = a.vec[a.reader + i - 1]
  BY <1>6, ContentsType
<1>9. /\ Contents(b) \in Seq(Byte) /\ Len(Contents(b)) = Readable(b)
      /\ \A i \in 1..Readable(b) : Contents(b)[i] = b.vec[b.reader + i - 1]
  BY ContentsType
<1>10. /\ data \o Contents(b) \in Seq(Byte)
       /\ Len(data \o Contents(b)) = n + Readable(b)
       /\ \A i \in 1..(n + Readable(b)) : (data \o Contents(b))[i] =
            IF i <= n THEN data[i] ELSE Contents(b)[i - n]
  <2>1. /\ data \o Contents(b) \in Seq(Byte)
        /\ Len(data \o Contents(b)) = Len(data) + Len(Contents(b))
        /\ \A i \in 1..(Len(data) + Len(Contents(b))) : (data \o Contents(b))[i] =
             IF i <= Len(data) THEN data[i] ELSE Contents(b)[i - Len(data)]
    BY ONLY <1>9, ConcatBytes, data \in Seq(Byte)
  <2>2. Len(Contents(b)) = Readable(b) /\ Len(data) = n
    BY <1>9 DEF n
  <2> QED
    BY ONLY <2>1, <2>2
<1>11. ASSUME NEW i \in 1..(n + Readable(b))
       PROVE  Contents(a)[i] = (data \o Contents(b))[i]
  <2>0. i \in Int /\ 1 <= i /\ i <= n + (b.writer - b.reader)
    BY <1>2, <1>4
  <2>1. /\ i \in 1..Readable(a) /\ (b.reader - n) + i - 1 \in 0..(b.size - 1)
    <3>1. i \in 1..Readable(a)
      BY <1>7
    <3>2. /\ b.reader \in Int /\ n \in Int /\ b.writer \in Int /\ b.size \in Int
          /\ n <= b.reader /\ b.writer <= b.size
      BY <1>2, <1>3, <1>4
    <3>3. (b.reader - n) + i - 1 \in 0..(b.size - 1)
      <4>1. /\ b.reader - n \in Int /\ 0 <= b.reader - n /\ 0 \in Int
            /\ b.writer + 0 <= b.size /\ i <= (b.writer - (b.reader - n)) + 0
        BY ONLY <2>0, <3>2
      <4> QED
        BY ONLY <2>0, <3>2, <4>1, IndexInside
    <3> QED
      BY <3>1, <3>3
  <2>2. Contents(a)[i] = a.vec[(b.reader - n) + i - 1]
    BY <1>1, <1>8, <2>1
  <2>3. CASE i <= n
    <3>1. /\ (b.reader - n) + i - 1 >= b.reader - n /\ (b.reader - n) + i - 1 < b.reader
          /\ ((b.reader - n) + i - 1) - (b.reader - n) + 1 = i
      <4>1. b.reader \in Int /\ n \in Int
        BY ONLY <1>2, <1>4
      <4> QED
        BY ONLY <2>0, <2>3, <4>1
    <3>2. a.vec[(b.reader - n) + i - 1] = data[i]
      BY <1>1, <2>1, <3>1
    <3> QED
      BY <1>10, <2>2, <2>3, <3>2
  <2>4. CASE ~(i <= n)
    <3>0. /\ b.reader \in Int /\ b.writer \in Int /\ n \in Int
          /\ Readable(b) = b.writer - b.reader
      BY ONLY <1>2, <1>4
    <3>a. ~((b.reader - n) + i - 1 < b.reader)
      BY ONLY <2>0, <2>4, <3>0
    <3>b. i - n \in 1..(b.writer - b.reader)
      BY ONLY <2>0, <2>4, <3>0
    <3>c. (b.reader - n) + i - 1 = b.reader + (i - n) - 1
      BY ONLY <2>0, <3>0
    <3>1. /\ ~((b.reader - n) + i - 1 < b.reader) /\ i - n \in 1..Readable(b)
          /\ (b.reader - n) + i - 1 = b.reader + (i - n) - 1
      BY ONLY <3>0, <3>a, <3>b, <3>c
    <3>2. a.vec[(b.reader - n) + i - 1] = b.vec[(b.reader - n) + i - 1]
      BY <1>1, <2>1, <3>1
    <3> QED
      BY <1>9, <1>10, <2>2, <2>4, <3>1, <3>2
  <2> QED
    BY <2>3, <2>4
<1>12. Contents(a) = data \o Contents(b)
  BY <1>7, <1>8, <1>10, <1>11, SeqEqual
<1> QED
  BY <1>6, <1>12 DEF a

\* shrink keeps the bytes.
LEMMA ShrinkOK ==
  ASSUME NEW b, Valid(b), NEW reserve \in Nat
  PROVE  Valid(Shrink(b, reserve)) /\ Contents(Shrink(b, reserve)) = Contents(b)
<1> DEFINE other == EnsureWritable(NewBuffer, Readable(b) + reserve)
<1>1. Contents(b) \in Seq(Byte) /\ Readable(b) + reserve \in Nat
  BY ContentsType
<1>2. Valid(other) /\ Contents(other) = <<>>
  BY <1>1, NewBufferOK, EnsureWritableOK
<1> HIDE DEF other
<1>3. Valid(AppendTo(other, Contents(b)))
  BY <1>1, <1>2, AppendOK
<1>4. Contents(AppendTo(other, Contents(b))) = <<>> \o Contents(b)
  BY <1>1, <1>2, AppendOK
<1>5. <<>> \o Contents(b) = Contents(b)
  BY <1>1, ConcatEmptySeq
<1> QED
  BY <1>3, <1>4, <1>5 DEF Shrink, other

\* The part of data that readv puts into the vector and the part in extrabuf
\* are together data.
LEMMA SplitBytes ==
  ASSUME NEW data \in Seq(Byte), NEW n \in Nat, n <= Len(data)
  PROVE  LET head == [i \in 1..n |-> data[i]]
             rest == [i \in 1..(Len(data) - n) |-> data[n + i]]
         IN  /\ head \in Seq(Byte) /\ Len(head) = n
             /\ rest \in Seq(Byte) /\ head \o rest = data
<1> DEFINE m == Len(data) - n
           head == [i \in 1..n |-> data[i]]
           rest == [i \in 1..m |-> data[n + i]]
<1>1. m \in Nat /\ n + m = Len(data) /\ Len(data) \in Nat
  BY LenProperties
<1>2. \A i \in 1..Len(data) : data[i] \in Byte
  BY LenProperties
<1> HIDE DEF m
<1>3. head \in Seq(Byte) /\ Len(head) = n /\ \A i \in 1..n : head[i] = data[i]
  <2>1. head \in [1..n -> Byte]
    BY <1>1, <1>2
  <2> QED
    BY <2>1, LenProperties
<1>4. rest \in Seq(Byte) /\ Len(rest) = m /\ \A i \in 1..m : rest[i] = data[n + i]
  <2>1. \A i \in 1..m : n + i \in 1..Len(data)
    BY <1>1
  <2>2. rest \in [1..m -> Byte]
    BY <1>2, <2>1
  <2> QED
    BY <1>1, <2>2, LenProperties
<1> HIDE DEF head, rest
<1>5. /\ head \o rest \in Seq(Byte) /\ Len(head \o rest) = Len(head) + Len(rest)
      /\ \A i \in 1..(Len(head) + Len(rest)) : (head \o rest)[i] =
           IF i <= Len(head) THEN head[i] ELSE rest[i - Len(head)]
  BY ONLY <1>3, <1>4, ConcatBytes
<1>6. ASSUME NEW i \in 1..Len(data) PROVE (head \o rest)[i] = data[i]
  <2>1. i \in 1..(Len(head) + Len(rest)) /\ i \in Int
    BY <1>1, <1>3, <1>4
  <2>2. (head \o rest)[i] = IF i <= n THEN head[i] ELSE rest[i - n]
    BY <1>3, <1>5, <2>1
  <2>3. CASE i <= n
    BY <1>3, <2>1, <2>2, <2>3
  <2>4. CASE ~(i <= n)
    <3>1. i - n \in 1..m /\ n + (i - n) = i
      BY <1>1, <2>1, <2>4
    <3> QED
      BY <1>4, <2>2, <2>4, <3>1
  <2> QED
    BY <2>3, <2>4
<1>7. head \o rest = data
  BY <1>1, <1>3, <1>4, <1>5, <1>6, SeqEqual
<1> QED
  BY <1>3, <1>4, <1>7 DEF head, rest, m

\* readFd adds what readv returned at the end, in the vector or by way of extrabuf.
LEMMA ReadFdOK ==
  ASSUME NEW b, Valid(b), NEW data \in Seq(Byte)
  PROVE  /\ Valid(ReadFd(b, data))
         /\ Contents(ReadFd(b, data)) = Contents(b) \o data
<1> DEFINE n == Writable(b)
           head == [i \in 1..n |-> data[i]]
           rest == [i \in 1..(Len(data) - n) |-> data[n + i]]
<1>0. n \in Nat /\ Len(data) \in Nat /\ Contents(b) \in Seq(Byte)
  BY LenProperties, ContentsType DEF Valid, Writable
<1>1. CASE Len(data) <= Writable(b)
  BY <1>1, HasWrittenOK DEF ReadFd
<1>2. CASE ~(Len(data) <= Writable(b))
  <2>1. /\ head \in Seq(Byte) /\ Len(head) = n
        /\ rest \in Seq(Byte) /\ head \o rest = data
    <3>1. n <= Len(data)
      BY <1>0, <1>2
    <3> HIDE DEF n
    <3> QED
      BY <1>0, <3>1, SplitBytes
  <2>2. ReadFd(b, data) = AppendTo(HasWritten(b, head), rest)
    BY <1>2 DEF ReadFd
  <2> HIDE DEF head, rest
  <2>3. Valid(HasWritten(b, head)) /\ Contents(HasWritten(b, head)) = Contents(b) \o head
    <3>1. Len(head) <= Writable(b)
      BY <1>0, <2>1
    <3> QED
      BY <2>1, <3>1, HasWrittenOK
  <2>4. /\ Valid(ReadFd(b, data))
        /\ Contents(ReadFd(b, data)) = (Contents(b) \o head) \o rest
    BY <2>1, <2>2, <2>3, AppendOK
  <2>5. (Contents(b) \o head) \o rest = Contents(b) \o (head \o rest)
    <3>1. Contents(b) \in Seq(Byte) /\ head \in Seq(Byte) /\ rest \in Seq(Byte)
      BY ONLY <1>0, <2>1
    <3>2. \A t, u \in Seq(Byte) : (Contents(b) \o t) \o u = Contents(b) \o (t \o u)
      BY ONLY <3>1, ConcatAssocBytes
    <3>3. \A u \in Seq(Byte) : (Contents(b) \o head) \o u = Contents(b) \o (head \o u)
      BY ONLY <3>1, <3>2
    <3> QED
      BY ONLY <3>1, <3>3
  <2> QED
    BY <2>1, <2>4, <2>5
<1> QED
  BY <1>1, <1>2

-----------------------------------------------------------------------------
(* The inductive invariant                                                 *)

IInv == TypeOK /\ ContentsKept

Shaped(b) == b = [vec |-> b.vec, size |-> b.size, reader |-> b.reader, writer |-> b.writer]

\* Every operation returns a vector with its size and two indices.
LEMMA Shapes ==
  ASSUME NEW b, Shaped(b)
  PROVE  /\ \A len \in Nat : /\ Shaped(EnsureWritable(b, len))
                             /\ Shaped(Retrieve(b, len)) /\ Shaped(Unwrite(b, len))
         /\ \A data \in Seq(Byte) :
              /\ Shaped(HasWritten(b, data)) /\ Shaped(AppendTo(b, data))
              /\ Shaped(Prepend(b, data)) /\ Shaped(ReadFd(b, data))
         /\ \A len \in Nat : Shaped(Shrink(b, len))
<1>0. \A v, z, r, w : Shaped([vec |-> v, size |-> z, reader |-> r, writer |-> w])
  BY DEF Shaped
<1>1. ASSUME NEW len \in Nat PROVE Shaped(EnsureWritable(b, len))
  <2>1. Shaped(Grow(b, len))
    BY ONLY <1>0 DEF Grow
  <2>2. Shaped(MoveToFront(b))
    BY ONLY <1>0 DEF MoveToFront
  <2> QED
    BY ONLY Shaped(b), <2>1, <2>2 DEF EnsureWritable, MakeSpace
<1>2. ASSUME NEW len \in Nat PROVE Shaped(Unwrite(b, len)) /\ Shaped(Retrieve(b, len))
  <2>1. b = [vec |-> b.vec, size |-> b.size, reader |-> b.reader, writer |-> b.writer]
    BY DEF Shaped
  <2>2. ASSUME NEW x
        PROVE  Shaped([b EXCEPT !.writer = x]) /\ Shaped([b EXCEPT !.reader = x])
    <3>1. [b EXCEPT !.writer = x] =
            [vec |-> b.vec, size |-> b.size, reader |-> b.reader, writer |-> x]
      BY ONLY <2>1
    <3>2. [b EXCEPT !.reader = x] =
            [vec |-> b.vec, size |-> b.size, reader |-> x, writer |-> b.writer]
      BY ONLY <2>1
    <3> QED
      BY ONLY <1>0, <3>1, <3>2
  <2>3. Shaped(RetrieveAll(b))
    BY ONLY <1>0 DEF RetrieveAll
  <2>4. Shaped(Unwrite(b, len))
    BY ONLY <2>2 DEF Unwrite
  <2> QED
    BY ONLY <2>2, <2>3, <2>4 DEF Retrieve
<1>3. ASSUME NEW a, NEW data PROVE Shaped(HasWritten(a, data))
  BY ONLY <1>0 DEF HasWritten
<1>4. ASSUME NEW a, NEW data PROVE Shaped(AppendTo(a, data))
  BY ONLY <1>3 DEF AppendTo
<1>5. ASSUME NEW data \in Seq(Byte) PROVE Shaped(Prepend(b, data))
  BY ONLY <1>0 DEF Prepend
<1>6. ASSUME NEW data \in Seq(Byte) PROVE Shaped(ReadFd(b, data))
  BY ONLY <1>3, <1>4 DEF ReadFd
<1>7. ASSUME NEW len \in Nat PROVE Shaped(Shrink(b, len))
  BY ONLY <1>4 DEF Shrink
<1> QED
  BY <1>1, <1>2, <1>3, <1>4, <1>5, <1>6, <1>7

\* Any bytes are a sequence of bytes.
LEMMA BytesType == \A n \in Nat : \A data \in Bytes(n) : data \in Seq(Byte)
BY DEF Bytes

\* Every step keeps the invariant.
LEMMA NextIInv == IInv /\ [Next]_vars => IInv'
<1> SUFFICES ASSUME IInv, [Next]_vars PROVE IInv'
  OBVIOUS
<1>0. /\ Valid(buf) /\ Shaped(buf) /\ expected \in Seq(Byte) /\ Contents(buf) = expected
  BY DEF IInv, TypeOK, ContentsKept, Shaped
<1>1. ASSUME Valid(buf'), Shaped(buf'), Contents(buf') = expected' PROVE IInv'
  <2>1. expected' \in Seq(Byte)
    BY <1>1, ContentsType
  <2> QED
    BY <1>1, <2>1 DEF IInv, TypeOK, ContentsKept, Shaped
<1>2. ASSUME NEW n \in 0..MaxLen, NEW data \in Bytes(n), DoAppend(data) PROVE IInv'
  <2>1. data \in Seq(Byte)
    BY <1>2, BytesType, BufferAssumption
  <2> QED
    BY <1>0, <1>1, <1>2, <2>1, AppendOK, Shapes DEF DoAppend
<1>3. ASSUME NEW n \in 0..MaxLen, NEW data \in Bytes(n), DoHasWritten(data) PROVE IInv'
  <2>1. data \in Seq(Byte)
    BY <1>3, BytesType, BufferAssumption
  <2> QED
    BY <1>0, <1>1, <1>3, <2>1, HasWrittenOK, Shapes DEF DoHasWritten
<1>4. ASSUME NEW n \in 0..MaxLen, NEW data \in Bytes(n), DoPrepend(data) PROVE IInv'
  <2>1. data \in Seq(Byte)
    BY <1>4, BytesType, BufferAssumption
  <2> QED
    BY <1>0, <1>1, <1>4, <2>1, PrependOK, Shapes DEF DoPrepend
<1>5. ASSUME NEW n \in 0..MaxLen, NEW data \in Bytes(n), DoReadFd(data) PROVE IInv'
  <2>1. data \in Seq(Byte)
    BY <1>5, BytesType, BufferAssumption
  <2> QED
    BY <1>0, <1>1, <1>5, <2>1, ReadFdOK, Shapes DEF DoReadFd
<1>6. ASSUME NEW n \in 0..MaxLen, DoEnsureWritable(n) PROVE IInv'
  BY <1>0, <1>1, <1>6, EnsureWritableOK, Shapes, BufferAssumption DEF DoEnsureWritable
<1>7. ASSUME NEW n \in 0..MaxLen, DoRetrieve(n) PROVE IInv'
  <2>1. n \in Nat /\ buf' = Retrieve(buf, n) /\ Shaped(Retrieve(buf, n))
    BY <1>0, <1>7, Shapes, BufferAssumption DEF DoRetrieve
  <2>2. /\ Valid(Retrieve(buf, n))
        /\ Contents(Retrieve(buf, n)) = IF n < Len(expected)
             THEN SubSeq(expected, n + 1, Len(expected)) ELSE <<>>
    BY <1>0, <2>1, RetrieveOK DEF Shaped
  <2> QED
    BY <1>1, <1>7, <2>1, <2>2 DEF DoRetrieve
<1>8. ASSUME NEW n \in 0..MaxLen, DoUnwrite(n) PROVE IInv'
  <2>1. /\ n \in Nat /\ n <= Readable(buf)
        /\ buf' = Unwrite(buf, n) /\ Shaped(Unwrite(buf, n))
    BY <1>0, <1>8, Shapes, BufferAssumption DEF DoUnwrite
  <2>2. /\ Valid(Unwrite(buf, n))
        /\ Contents(Unwrite(buf, n)) = SubSeq(expected, 1, Len(expected) - n)
    BY <1>0, <2>1, UnwriteOK DEF Shaped
  <2> QED
    BY <1>1, <1>8, <2>1, <2>2 DEF DoUnwrite
<1>9. ASSUME NEW n \in 0..MaxLen, DoShrink(n) PROVE IInv'
  BY <1>0, <1>1, <1>9, ShrinkOK, Shapes, BufferAssumption DEF DoShrink
<1>10. CASE UNCHANGED vars
  BY <1>0, <1>1, <1>10 DEF vars
<1> QED
  BY <1>2, <1>3, <1>4, <1>5, <1>6, <1>7, <1>8, <1>9, <1>10 DEF Next

-----------------------------------------------------------------------------
(* Theorems                                                                *)

\* Through every operation the invariant holds.
THEOREM BufferInvariant == Spec => []IInv
<1>1. Init => IInv
  <2> SUFFICES ASSUME Init PROVE IInv
    OBVIOUS
  <2>1. Shaped(NewBuffer)
    BY DEF Shaped, NewBuffer
  <2> QED
    BY <2>1, NewBufferOK DEF Init, IInv, TypeOK, ContentsKept, Shaped
<1> QED
  BY <1>1, NextIInv, PTL DEF Spec

\* The reader index never passes the writer index, nor that the vector's end.
THEOREM IndicesInOrder == Spec => []TypeOK
<1>1. IInv => TypeOK
  BY DEF IInv
<1> QED
  BY <1>1, BufferInvariant, PTL

(***************************************************************************)
(* Whatever is appended, read, retrieved, prepended, unwritten or moved,   *)
(* the readable bytes are those that the calls put there, in order.        *)
(***************************************************************************)
THEOREM BytesAreKept == Spec => []ContentsKept
<1>1. IInv => ContentsKept
  BY DEF IInv
<1> QED
  BY <1>1, BufferInvariant, PTL

(***************************************************************************)
(* The assertions of ensureWritableBytes and makeSpace hold: there is room *)
(* for what is asked, and data is only ever moved towards the front.       *)
(***************************************************************************)
THEOREM RoomIsMade == Spec => []MakesRoom
<1>1. IInv => MakesRoom
  <2> SUFFICES ASSUME Valid(buf), NEW len \in 0..MaxLen
               PROVE  /\ Writable(EnsureWritable(buf, len)) >= len
                      /\ (/\ Writable(buf) < len
                          /\ ~(Writable(buf) + Prependable(buf) < len + kCheapPrepend)) =>
                         kCheapPrepend < buf.reader
    BY DEF IInv, TypeOK, MakesRoom
  <2>1. len \in Nat
    BY BufferAssumption
  <2> QED
    BY <2>1, EnsureWritableOK, MoveToFrontOK
<1> QED
  BY <1>1, BufferInvariant, PTL
=============================================================================
