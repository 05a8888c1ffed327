----------------------------- MODULE LogProofs ------------------------------
(***************************************************************************)
(* Machine-checked proofs about the log.  About LogFile, for any number of *)
(* programs that share a directory and any retention time: what is young   *)
(* enough stays in a file, and a file that is old is gone after a sweep.   *)
(* About LogAsync, for any sizes of messages and buffers: messages reach   *)
(* the file once and in order.                                             *)
(***************************************************************************)
EXTENDS LogAsync, LogFile, TLAPS

-----------------------------------------------------------------------------
(* LogFile                                                                 *)

\* The time a file is kept, and how much the clock was set back at most
KeepTime == DelDays * kRollPerSeconds
Back == backs * MaxBack

AnyName == Programs \X Nat \X Nat

AnyLog == [count : Nat, startTime : Nat, lastRoll : Nat, file : AnyName \cup {NoFile},
           buffered : SUBSET Nat]

AnyFile == [holds : SUBSET Nat, mtime : Nat]

AnySweep == [pc : {"idle", "next", "file", "old", "dead"}, now : Nat, list : SUBSET AnyName,
             file : AnyName \cup {NoFile}, writes : BOOLEAN]

Active(w) == w.pc \in {"next", "file", "old"}

\* The message i is in the file f, or on its way to it.
In(i, f, L, D) ==
  i \in D[f].holds \/ \E p \in Programs : L[p].file = f /\ i \in L[p].buffered

\* A time that is so long ago, by a clock that shows at most C when nothing was
\* set back
Ago(t, C, time) == C - t > time

\* The file f is too old to be kept, with everything in it and what may still be
\* written to it.
Stale(f, L, D, A, C) ==
  /\ Ago(f[2], C, KeepTime)
  /\ \A i \in DOMAIN A : In(i, f, L, D) => Ago(A[i], C, KeepTime - kRollPerSeconds)

-----------------------------------------------------------------------------
(* The invariant, of the logs L, the disk D, the messages A, the clock C,  *)
(* the sweeps S, what was set back B, and the messages X that were lost    *)

ShapeOf(L, D, A, C, S, B) ==
  /\ L \in [Programs -> AnyLog]
  /\ D \in [DOMAIN D -> AnyFile] /\ DOMAIN D \subseteq AnyName
  /\ A \in Seq(Nat) /\ C \in Nat /\ B \in Nat /\ B <= KeepTime
  /\ S \in [Programs -> AnySweep]

\* The file of a program has its name, and the time of its last roll.
LogsOk(L, A, C, B) ==
  \A p \in Programs :
    /\ L[p].startTime = StartOfDay(L[p].lastRoll) /\ L[p].lastRoll <= C + B
    /\ L[p].file # NoFile => L[p].file[1] = p /\ L[p].file[2] = L[p].lastRoll
    /\ L[p].buffered \subseteq DOMAIN A
    /\ L[p].file = NoFile => L[p].buffered = {}

\* No file is from after the last roll of its program, and who writes has a file.
NamesOk(L, D, S) ==
  /\ \A f \in DOMAIN D : f[2] <= L[f[1]].lastRoll
  /\ \A q \in Programs :
       /\ \A f \in S[q].list : f[2] <= L[f[1]].lastRoll
       /\ S[q].file # NoFile => S[q].file[2] <= L[S[q].file[1]].lastRoll
       /\ S[q].writes => L[q].file # NoFile

\* A sweep began not later than now, and not long ago.
SweepsOk(C, S, B) ==
  \A q \in Programs :
    /\ Active(S[q]) => S[q].now <= C + B /\ C <= S[q].now + MaxSweep
    /\ S[q].pc \in {"file", "old"} => S[q].file # NoFile

\* The time of a file and the times of its messages
TimesOk(L, D, A, C, B) ==
  /\ \A i \in DOMAIN A : A[i] <= C + B
  /\ \A f \in DOMAIN D :
       /\ f[2] <= D[f].mtime + B
       /\ D[f].holds \subseteq DOMAIN A
       /\ \A i \in DOMAIN A : In(i, f, L, D) => A[i] <= D[f].mtime + B + kRollPerSeconds

\* What a sweep finds expired, or has found, is stale.
StaleOk(L, D, A, C, S, B) ==
  \A q \in Programs : \A f \in DOMAIN D :
    \/ Active(S[q]) /\ Expired(D[f].mtime, S[q].now)
    \/ S[q].pc = "old" /\ S[q].file = f
    => Stale(f, L, D, A, C + B)

\* A program whose file was removed writes only what is already too old.
RemovedOk(L, D, C, B) ==
  \A p \in Programs :
    L[p].file # NoFile /\ L[p].file \notin DOMAIN D => Ago(L[p].file[2], C + B, KeepTime)

InSome(i, L, D) ==
  \/ \E f \in DOMAIN D : i \in D[f].holds
  \/ \E p \in Programs : i \in L[p].buffered /\ L[p].file \in DOMAIN D

YoungOk(L, D, A, C, B, X) ==
  \A i \in DOMAIN A \ X : InSome(i, L, D) \/ Ago(A[i], C + B, KeepTime - kRollPerSeconds)

\* As long as the clock was not set back: what a sweep has passed is not old.
SweptOk(L, D, S) ==
  \A q \in Programs :
    /\ Active(S[q]) =>
         /\ L[q].startTime <= S[q].now
         /\ \A f \in DOMAIN D :
              \/ f \in S[q].list
              \/ S[q].pc \in {"file", "old"} /\ f = S[q].file
              \/ ~ Expired(D[f].mtime, S[q].now)
    /\ S[q] = NoSweep /\ L[q].count = 0 =>
         \A f \in DOMAIN D : D[f].mtime >= L[q].startTime - KeepTime

Good(L, D, A, C, S, B, X) ==
  /\ ShapeOf(L, D, A, C, S, B) /\ LogsOk(L, A, C, B) /\ NamesOk(L, D, S) /\ SweepsOk(C, S, B)
  /\ TimesOk(L, D, A, C, B) /\ StaleOk(L, D, A, C, S, B) /\ RemovedOk(L, D, C, B)
  /\ YoungOk(L, D, A, C, B, X)
  /\ B = 0 => SweptOk(L, D, S)

FileInv == backs \in 0 .. Backs /\ Good(log, disk, said, clock, sweep, Back, lost)

\* A second and the start of its day
LEMMA DayBounds ==
  ASSUME NEW t \in Nat
  PROVE  StartOfDay(t) \in Nat /\ StartOfDay(t) <= t /\ t < StartOfDay(t) + kRollPerSeconds
<1> DEFINE q == t \div kRollPerSeconds
<1>1. /\ q \in Nat /\ t = q * kRollPerSeconds + (t % kRollPerSeconds)
      /\ t % kRollPerSeconds \in 0 .. kRollPerSeconds - 1
  BY LogFileAssumption
<1> QED
  BY <1>1, LogFileAssumption DEF StartOfDay

\* The constants, and what the retention time comes to
LEMMA Numbers ==
  /\ kRollPerSeconds \in Nat \ {0} /\ KeepTime \in Nat
  /\ MaxSweep \in Nat /\ MaxSweep < kRollPerSeconds
BY LogFileAssumption DEF KeepTime

\* The retention time without a day
LEMMA DayLess ==
  (DelDays - 1) * kRollPerSeconds = KeepTime - kRollPerSeconds
BY LogFileAssumption DEF KeepTime

\* What the clock was set back by, which is never more than the retention time
LEMMA BackBounds ==
  ASSUME NEW b \in 0 .. Backs
  PROVE  /\ b * MaxBack \in Nat /\ b * MaxBack <= KeepTime
         /\ (b + 1) * MaxBack = b * MaxBack + MaxBack
BY LogFileAssumption DEF KeepTime

\* The fields of a log
LEMMA LogFields ==
  ASSUME NEW l \in AnyLog
  PROVE  /\ l.count \in Nat /\ l.startTime \in Nat /\ l.lastRoll \in Nat
         /\ l.file \in AnyName \cup {NoFile} /\ l.buffered \subseteq Nat
BY Zenon DEF AnyLog

\* The program and the second in the name of a file
LEMMA NameFields ==
  ASSUME NEW f \in AnyName
  PROVE  f[1] \in Programs /\ f[2] \in Nat /\ f # NoFile
BY DEF AnyName, NoFile

\* The fields of a sweep
LEMMA SweepFields ==
  ASSUME NEW w \in AnySweep
  PROVE  /\ w.now \in Nat /\ w.list \subseteq AnyName /\ w.file \in AnyName \cup {NoFile}
         /\ w.pc \in {"idle", "next", "file", "old", "dead"} /\ w.writes \in BOOLEAN
BY Zenon DEF AnySweep

\* The clock moves on, or is set back.
LEMMA TimeMoves ==
  ASSUME NEW L, NEW D, NEW A, NEW C, NEW S, NEW B, NEW X, Good(L, D, A, C, S, B, X),
         NEW c \in Nat, NEW b \in Nat, C + B <= c + b, B <= b, b <= KeepTime,
         \A q \in Programs : Active(S[q]) => c <= S[q].now + MaxSweep
  PROVE  Good(L, D, A, c, S, b, X)
<1> USE DEF Good
<1>1. ShapeOf(L, D, A, c, S, b)
  BY Zenon DEF ShapeOf
<1>2. /\ C \in Nat /\ B \in Nat /\ A \in [DOMAIN A -> Nat]
      /\ \A p \in Programs : L[p].lastRoll \in Nat /\ S[p].now \in Nat
      /\ \A f \in DOMAIN D : f[2] \in Nat /\ D[f].mtime \in Nat
      /\ \A p \in Programs : L[p].file # NoFile => L[p].file[2] \in Nat
  BY LogFields, NameFields, SweepFields DEF ShapeOf, AnyFile
<1>3. LogsOk(L, A, c, b)
  BY <1>2 DEF LogsOk
<1>4. SweepsOk(c, S, b)
  BY <1>2 DEF SweepsOk
<1>5. TimesOk(L, D, A, c, b)
  BY <1>2, Numbers DEF TimesOk
<1>6. StaleOk(L, D, A, c, S, b)
  BY <1>2, Numbers DEF StaleOk, Stale, Ago
<1>7. RemovedOk(L, D, c, b)
  BY <1>2, Numbers DEF RemovedOk, Ago
<1>8. YoungOk(L, D, A, c, b, X)
  BY <1>2, Numbers DEF YoungOk, Ago
<1> QED
  BY <1>1, <1>2, <1>3, <1>4, <1>5, <1>6, <1>7, <1>8

\* What has just been modified is not expired.
LEMMA Fresh ==
  ASSUME NEW L, NEW D, NEW A, NEW C, NEW S, NEW B, NEW X, Good(L, D, A, C, S, B, X)
  PROVE  \A q \in Programs :
           /\ Active(S[q]) => ~ Expired(C, S[q].now)
           /\ C >= L[q].startTime - KeepTime
<1> TAKE q \in Programs
<1>1. /\ C \in Nat /\ B \in Nat /\ B <= KeepTime /\ S[q].now \in Nat
      /\ L[q].lastRoll \in Nat /\ L[q].startTime = StartOfDay(L[q].lastRoll)
      /\ L[q].lastRoll <= C + B
  BY Zenon, LogFields, SweepFields DEF Good, ShapeOf, LogsOk
<1>2. Active(S[q]) => S[q].now <= C + B
  BY Zenon DEF Good, SweepsOk
<1> QED
  BY <1>1, <1>2, Numbers, DayBounds DEF Expired, KeepTime

\* A log of which only the program p has changed something
Changed(K, L, p) == K \in [Programs -> AnyLog] /\ \A q \in Programs : q # p => K[q] = L[q]

\* File::flush
LEMMA FlushKeeps ==
  ASSUME NEW L, NEW D, NEW A, NEW C, NEW S, NEW B, NEW X, Good(L, D, A, C, S, B, X),
         NEW p \in Programs, NEW K, Changed(K, L, p),
         K[p].file = L[p].file, K[p].lastRoll = L[p].lastRoll, K[p].count = L[p].count,
         K[p].startTime = L[p].startTime, K[p].buffered = {}
  PROVE  Good(K, FlushFile(L[p], D, C), A, C, S, B, X)
<1> DEFINE E == FlushFile(L[p], D, C)
<1>1. ShapeOf(L, D, A, C, S, B) /\ K \in [Programs -> AnyLog]
  BY Zenon DEF Good, Changed
<1>2. /\ DOMAIN E = DOMAIN D /\ E \in [DOMAIN D -> AnyFile]
      /\ \A f \in DOMAIN D :
           \/ E[f] = D[f] /\ (f = L[p].file => L[p].buffered = {})
           \/ /\ f = L[p].file /\ E[f].mtime = C
              /\ E[f].holds = D[f].holds \cup L[p].buffered
  <2>1. L[p].buffered \subseteq Nat /\ C \in Nat
    BY Zenon, <1>1, LogFields DEF ShapeOf
  <2>2. CASE L[p].file \notin DOMAIN D \/ L[p].buffered = {}
    BY Zenon, <1>1, <2>2 DEF FlushFile, ShapeOf
  <2>3. CASE L[p].file \in DOMAIN D /\ L[p].buffered # {}
    <3>1. E = [D EXCEPT ![L[p].file].holds = @ \cup L[p].buffered, ![L[p].file].mtime = C]
      BY Zenon, <2>3 DEF FlushFile
    <3> HIDE DEF E
    <3> QED
      BY Zenon, <1>1, <2>1, <2>3, <3>1 DEF ShapeOf, AnyFile
  <2> QED
    BY Zenon, <2>2, <2>3
<1> HIDE DEF E
<1>3. /\ \A f \in DOMAIN D : E[f].mtime \in {D[f].mtime, C}
      /\ \A f \in DOMAIN D : E[f].holds \subseteq DOMAIN A
      /\ \A f \in DOMAIN D, i \in DOMAIN A : In(i, f, K, E) => In(i, f, L, D)
      /\ \A i : InSome(i, L, D) => InSome(i, K, E)
  <2>1. \A f \in DOMAIN D : E[f].mtime \in {D[f].mtime, C}
    BY Zenon, <1>2
  <2>2. \A f \in DOMAIN D : E[f].holds \subseteq DOMAIN A
    BY <1>2 DEF Good, TimesOk, LogsOk
  <2>3. \A f \in DOMAIN D, i \in DOMAIN A : In(i, f, K, E) => In(i, f, L, D)
    BY Zenon, <1>2 DEF In, Changed
  <2>4. \A i : InSome(i, L, D) => InSome(i, K, E)
    BY <1>2 DEF InSome, Changed
  <2> QED
    BY Zenon, <2>1, <2>2, <2>3, <2>4
<1>4. \A q \in Programs :
        /\ K[q].file = L[q].file /\ K[q].lastRoll = L[q].lastRoll
        /\ K[q].startTime = L[q].startTime /\ K[q].count = L[q].count
        /\ K[q].buffered \in {L[q].buffered, {}}
  BY Zenon DEF Changed
<1>5. ShapeOf(K, E, A, C, S, B)
  BY Zenon, <1>1, <1>2 DEF ShapeOf
<1>6. LogsOk(K, A, C, B) /\ NamesOk(K, E, S)
  <2>1. LogsOk(K, A, C, B)
    BY <1>4 DEF Good, LogsOk
  <2>2. \A f \in AnyName : K[f[1]].lastRoll = L[f[1]].lastRoll
    BY Zenon, <1>4, NameFields
  <2>3. /\ DOMAIN D \subseteq AnyName
        /\ \A q \in Programs : S[q].list \subseteq AnyName /\ S[q].file \in AnyName \cup {NoFile}
    BY Zenon, <1>1, SweepFields DEF ShapeOf
  <2>4. NamesOk(K, E, S)
    BY <1>2, <1>4, <2>2, <2>3 DEF Good, NamesOk
  <2> QED
    BY Zenon, <2>1, <2>4
<1>7. TimesOk(K, E, A, C, B)
  <2>1. \A f \in DOMAIN D : f[2] \in Nat /\ D[f].mtime \in Nat /\ f[2] <= C + B
    <3> TAKE f \in DOMAIN D
    <3>1. f \in AnyName /\ D[f].mtime \in Nat /\ C \in Nat /\ B \in Nat
      BY Zenon, <1>1 DEF ShapeOf, AnyFile
    <3>2. f[1] \in Programs /\ f[2] \in Nat
      BY Zenon, <3>1, NameFields
    <3>3. L[f[1]].lastRoll \in Nat
      BY Zenon, <1>1, <3>2, LogFields DEF ShapeOf
    <3> QED
      BY <3>1, <3>2, <3>3 DEF Good, NamesOk, LogsOk
  <2>2. A \in [DOMAIN A -> Nat] /\ C \in Nat /\ B \in Nat
    BY <1>1 DEF ShapeOf
  <2>3. \A i \in DOMAIN A : A[i] \in Nat /\ A[i] <= C + B
    BY Zenon, <2>2 DEF Good, TimesOk
  <2> QED
    BY <1>2, <1>3, <2>1, <2>2, <2>3, Numbers DEF Good, TimesOk
<1>8. StaleOk(K, E, A, C, S, B)
  BY <1>2, <1>3, Fresh DEF Good, StaleOk, Stale
<1>9. RemovedOk(K, E, C, B) /\ YoungOk(K, E, A, C, B, X)
  BY Zenon, <1>2, <1>3, <1>4 DEF Good, RemovedOk, YoungOk
<1>10. B = 0 => SweptOk(K, E, S)
  BY SMTT(20), <1>2, <1>3, <1>4, Fresh DEF Good, SweptOk
<1> QED
  BY Zenon, <1>5, <1>6, <1>7, <1>8, <1>9, <1>10 DEF Good, E

\* rollFile, when what the old File held is flushed
LEMMA RollKeeps ==
  ASSUME NEW L, NEW D, NEW A, NEW C, NEW S, NEW B, NEW X, Good(L, D, A, C, S, B, X),
         NEW p \in Programs, NEW K, Changed(K, L, p), NEW now \in Nat, NEW n \in Nat,
         L[p].buffered = {}, now > L[p].lastRoll, now <= C + B,
         K[p].file = Name(p, now, n), K[p].lastRoll = now, K[p].startTime = StartOfDay(now),
         K[p].buffered = {}, K[p].count # 0 \/ S[p] # NoSweep,
         Active(S[p]) => now = S[p].now
  PROVE  Good(K, OpenAppend(D, Name(p, now, n), C), A, C, S, B, X)
<1> DEFINE g == Name(p, now, n)
           E == OpenAppend(D, g, C)
<1>1. ShapeOf(L, D, A, C, S, B) /\ K \in [Programs -> AnyLog]
  BY Zenon DEF Good, Changed
<1>2. g \in AnyName /\ g[1] = p /\ g[2] = now
  BY Zenon DEF AnyName, Name
<1>3. /\ \A q \in Programs : L[q].lastRoll \in Nat /\ K[q].lastRoll \in Nat
      /\ \A f \in AnyName : f[1] \in Programs /\ f[2] \in Nat /\ f # NoFile
      /\ DOMAIN D \subseteq AnyName
      /\ \A q \in Programs : S[q].list \subseteq AnyName /\ S[q].file \in AnyName \cup {NoFile}
      /\ C \in Nat /\ B \in Nat /\ A \in [DOMAIN A -> Nat]
  <2>1. /\ DOMAIN D \subseteq AnyName /\ C \in Nat /\ B \in Nat /\ A \in [DOMAIN A -> Nat]
        /\ \A q \in Programs : L[q] \in AnyLog /\ K[q] \in AnyLog /\ S[q] \in AnySweep
    BY <1>1 DEF ShapeOf
  <2>2. \A q \in Programs : L[q].lastRoll \in Nat /\ K[q].lastRoll \in Nat
    BY Zenon, <2>1, LogFields
  <2>3. \A q \in Programs : S[q].list \subseteq AnyName /\ S[q].file \in AnyName \cup {NoFile}
    BY Zenon, <2>1, SweepFields
  <2> QED
    BY Zenon, <2>1, <2>2, <2>3, NameFields
<1>4. /\ g \notin DOMAIN D
      /\ \A q \in Programs : S[q].file # g /\ (q # p => K[q].file # g)
  <2>1. g \notin DOMAIN D
    BY <1>2, <1>3 DEF Good, NamesOk
  <2>2. \A q \in Programs : S[q].file # g
    BY <1>2, <1>3 DEF Good, NamesOk
  <2>3. \A q \in Programs : q # p => K[q].file # g
    BY <1>2, <1>3 DEF Good, LogsOk, Changed
  <2> QED
    BY Zenon, <2>1, <2>2, <2>3
<1> HIDE DEF g
<1>5. /\ DOMAIN E = DOMAIN D \cup {g} /\ E \in [DOMAIN E -> AnyFile]
      /\ E[g].holds = {} /\ E[g].mtime = C
      /\ \A f \in DOMAIN D : E[f] = D[f]
  BY Zenon, <1>1, <1>3, <1>4 DEF OpenAppend, ShapeOf, AnyFile
<1> HIDE DEF E
<1>6. /\ \A f \in DOMAIN D, i \in DOMAIN A : In(i, f, K, E) => In(i, f, L, D)
      /\ \A i \in DOMAIN A : ~ In(i, g, K, E)
      /\ \A i : InSome(i, L, D) => InSome(i, K, E)
  BY Zenon, <1>4, <1>5 DEF In, InSome, Changed
<1>7. ShapeOf(K, E, A, C, S, B)
  BY Zenon, <1>1, <1>2, <1>5 DEF ShapeOf
<1>8. LogsOk(K, A, C, B)
  BY <1>2 DEF Good, LogsOk, Changed, g
<1>9. NamesOk(K, E, S)
  <2>1. \A f \in AnyName : f[2] <= L[f[1]].lastRoll => f[2] <= K[f[1]].lastRoll
    BY <1>3 DEF Changed
  <2> QED
    BY SMTT(20), <1>2, <1>3, <1>5, <2>1 DEF Good, NamesOk, Changed, g
<1>10. TimesOk(K, E, A, C, B)
  BY <1>2, <1>3, <1>5, <1>6, Numbers DEF Good, TimesOk
<1>11. StaleOk(K, E, A, C, S, B)
  BY SMTT(20), <1>4, <1>5, <1>6, Fresh DEF Good, StaleOk, Stale
<1>12. RemovedOk(K, E, C, B) /\ YoungOk(K, E, A, C, B, X)
  BY Zenon, <1>5, <1>6 DEF Good, RemovedOk, YoungOk, Changed, g
<1>13. B = 0 => SweptOk(K, E, S)
  BY SMTT(20), <1>5, Fresh, DayBounds DEF Good, SweptOk, Changed
<1> QED
  BY Zenon, <1>7, <1>8, <1>9, <1>10, <1>11, <1>12, <1>13 DEF Good, SweepsOk, E, g

\* File::write: a message that is written now goes to the buffer of the program.
LEMMA AddKeeps ==
  ASSUME NEW L, NEW D, NEW A, NEW C, NEW S, NEW B, NEW X, Good(L, D, A, C, S, B, X),
         NEW p \in Programs, NEW K, Changed(K, L, p),
         L[p].file # NoFile, C <= L[p].lastRoll + kRollPerSeconds,
         K[p].file = L[p].file, K[p].lastRoll = L[p].lastRoll, K[p].count = L[p].count,
         K[p].startTime = L[p].startTime, K[p].buffered = L[p].buffered \cup {Len(A) + 1}
  PROVE  Good(K, D, Append(A, C), C, S, B, X)
<1> DEFINE F == Append(A, C)
           j == Len(A) + 1
           f0 == L[p].file
<1>1. ShapeOf(L, D, A, C, S, B) /\ K \in [Programs -> AnyLog]
  BY Zenon DEF Good, Changed
<1>2. /\ F \in Seq(Nat) /\ DOMAIN F = DOMAIN A \cup {j} /\ j \notin DOMAIN A /\ F[j] = C
      /\ \A i \in DOMAIN A : F[i] = A[i]
  BY <1>1 DEF ShapeOf
<1> HIDE DEF F, j
<1>3. \A q \in Programs :
        /\ K[q].file = L[q].file /\ K[q].lastRoll = L[q].lastRoll
        /\ K[q].startTime = L[q].startTime /\ K[q].count = L[q].count
        /\ K[q].buffered = L[q].buffered \cup (IF q = p THEN {j} ELSE {})
  BY Zenon DEF Changed, j
<1>4. /\ f0 \in AnyName /\ f0[2] = L[p].lastRoll /\ f0[2] \in Nat /\ C \in Nat /\ B \in Nat
      /\ C <= f0[2] + kRollPerSeconds /\ DOMAIN D \subseteq AnyName
      /\ \A f \in AnyName : f[1] \in Programs /\ f[2] \in Nat
      /\ \A f \in DOMAIN D : D[f].mtime \in Nat
      /\ A \in [DOMAIN A -> Nat]
  BY SMTT(20), <1>1, LogFields, NameFields DEF ShapeOf, Good, LogsOk, AnyFile
<1>5. /\ \A f \in DOMAIN D, i \in DOMAIN A : In(i, f, K, D) => In(i, f, L, D)
      /\ \A f \in DOMAIN D : In(j, f, K, D) => f = f0
      /\ \A i \in DOMAIN A : InSome(i, L, D) => InSome(i, K, D)
      /\ f0 \in DOMAIN D => InSome(j, K, D)
  <2>1. \A f \in DOMAIN D, i \in DOMAIN A : In(i, f, K, D) => In(i, f, L, D)
    BY SMTT(20), <1>2, <1>3 DEF In
  <2>2. \A f \in DOMAIN D : In(j, f, K, D) => f = f0
    BY SMTT(20), <1>2, <1>3 DEF In, Good, TimesOk, LogsOk
  <2>3. \A i \in DOMAIN A : InSome(i, L, D) => InSome(i, K, D)
    BY Zenon, <1>3 DEF InSome
  <2>4. f0 \in DOMAIN D => InSome(j, K, D)
    BY Zenon, <1>3 DEF InSome
  <2> QED
    BY Zenon, <2>1, <2>2, <2>3, <2>4
<1> HIDE DEF f0
<1>6. ShapeOf(K, D, F, C, S, B)
  BY Zenon, <1>1, <1>2 DEF ShapeOf
<1>7. LogsOk(K, F, C, B)
  <2> SUFFICES ASSUME NEW q \in Programs
               PROVE  /\ K[q].buffered \subseteq DOMAIN F
                      /\ K[q].file = NoFile => K[q].buffered = {}
    BY SMTT(20), <1>3 DEF Good, LogsOk
  <2>1. CASE q = p
    BY SMTT(20), <1>2, <1>3, <2>1 DEF Good, LogsOk
  <2>2. CASE q # p
    BY SMTT(20), <1>2, <1>3, <2>2 DEF Good, LogsOk
  <2> QED
    BY Zenon, <2>1, <2>2
<1>8. NamesOk(K, D, S)
  <2>1. \A f \in AnyName : K[f[1]].lastRoll = L[f[1]].lastRoll
    BY Zenon, <1>3, <1>4
  <2>2. \A q \in Programs : S[q].list \subseteq AnyName /\ S[q].file \in AnyName \cup {NoFile}
    BY Zenon, <1>1, SweepFields DEF ShapeOf
  <2> QED
    BY SMTT(20), <1>3, <1>4, <2>1, <2>2 DEF Good, NamesOk
<1>9. TimesOk(K, D, F, C, B)
  <2>1. \A i \in DOMAIN F : F[i] <= C + B
    BY <1>2, <1>4 DEF Good, TimesOk
  <2>2. \A f \in DOMAIN D : f[2] <= D[f].mtime + B /\ D[f].holds \subseteq DOMAIN F
    BY Zenon, <1>2 DEF Good, TimesOk
  <2>3. \A f \in DOMAIN D, i \in DOMAIN F :
          In(i, f, K, D) => F[i] <= D[f].mtime + B + kRollPerSeconds
    <3> TAKE f \in DOMAIN D, i \in DOMAIN F
    <3> HAVE In(i, f, K, D)
    <3>1. CASE i = j
      <4>1. f = f0 /\ F[i] = C
        BY Zenon, <1>2, <1>5, <3>1
      <4>2. /\ f[2] <= D[f].mtime + B /\ f[2] \in Nat /\ D[f].mtime \in Nat
            /\ C <= f[2] + kRollPerSeconds
        BY Zenon, <1>4, <2>2, <4>1
      <4> QED
        BY SMTT(20), <1>4, <4>1, <4>2, Numbers
    <3>2. CASE i \in DOMAIN A
      BY Zenon, <1>2, <1>5, <3>2 DEF Good, TimesOk
    <3> QED
      BY Zenon, <1>2, <3>1, <3>2
  <2> QED
    BY Zenon, <2>1, <2>2, <2>3 DEF TimesOk
<1>10. StaleOk(K, D, F, C, S, B)
  <2>1. ASSUME NEW f \in DOMAIN D, Stale(f, L, D, A, C + B) PROVE Stale(f, K, D, F, C + B)
    <3>1. ASSUME NEW i \in DOMAIN F, In(i, f, K, D)
          PROVE  Ago(F[i], C + B, KeepTime - kRollPerSeconds)
      <4>1. CASE i = j
        BY SMTT(20), <1>2, <1>4, <1>5, <2>1, <3>1, <4>1, Numbers DEF Stale, Ago
      <4>2. CASE i \in DOMAIN A
        BY Zenon, <1>2, <1>5, <2>1, <3>1, <4>2 DEF Stale
      <4> QED
        BY Zenon, <1>2, <4>1, <4>2
    <3> QED
      BY Zenon, <2>1, <3>1 DEF Stale
  <2> QED
    BY Zenon, <2>1 DEF Good, StaleOk
<1>11. RemovedOk(K, D, C, B)
  BY Zenon, <1>3 DEF Good, RemovedOk
<1>12. YoungOk(K, D, F, C, B, X)
  <2>1. f0 \notin DOMAIN D => Ago(C, C + B, KeepTime - kRollPerSeconds)
    BY SMTT(20), <1>4, Numbers DEF Good, RemovedOk, Ago, f0
  <2> QED
    BY Zenon, <1>2, <1>5, <2>1 DEF Good, YoungOk
<1>13. B = 0 => SweptOk(K, D, S)
  BY Zenon, <1>3 DEF Good, SweptOk
<1> QED
  BY Zenon, <1>6, <1>7, <1>8, <1>9, <1>10, <1>11, <1>12, <1>13 DEF Good, F

\* m_count matters only to a program that is not sweeping.
LEMMA CountKeeps ==
  ASSUME NEW L, NEW D, NEW A, NEW C, NEW S, NEW B, NEW X, Good(L, D, A, C, S, B, X),
         NEW p \in Programs, NEW K, Changed(K, L, p),
         K[p].file = L[p].file, K[p].lastRoll = L[p].lastRoll, K[p].startTime = L[p].startTime,
         K[p].buffered = L[p].buffered, K[p].count # 0 \/ S[p] # NoSweep
  PROVE  Good(K, D, A, C, S, B, X)
<1>1. \A q \in Programs :
        /\ K[q].file = L[q].file /\ K[q].lastRoll = L[q].lastRoll
        /\ K[q].startTime = L[q].startTime /\ K[q].buffered = L[q].buffered
        /\ S[q] = NoSweep /\ K[q].count = 0 => L[q].count = 0
  BY Zenon DEF Changed
<1>2. ShapeOf(K, D, A, C, S, B) /\ ShapeOf(L, D, A, C, S, B)
  BY Zenon DEF Good, ShapeOf, Changed
<1>3. \A f \in AnyName : K[f[1]].lastRoll = L[f[1]].lastRoll
  BY Zenon, <1>1, NameFields
<1>4. NamesOk(K, D, S)
  <2>1. /\ DOMAIN D \subseteq AnyName
        /\ \A q \in Programs : S[q].list \subseteq AnyName /\ S[q].file \in AnyName \cup {NoFile}
    BY Zenon, <1>2, SweepFields DEF ShapeOf
  <2> QED
    BY SMTT(20), <1>1, <1>3, <2>1 DEF Good, NamesOk
<1>5. /\ \A i : InSome(i, K, D) <=> InSome(i, L, D)
      /\ \A i, f : In(i, f, K, D) <=> In(i, f, L, D)
  BY Zenon, <1>1 DEF In, InSome
<1>6. LogsOk(K, A, C, B) /\ TimesOk(K, D, A, C, B) /\ RemovedOk(K, D, C, B)
  <2>1. LogsOk(K, A, C, B)
    BY SMTT(20), <1>1 DEF Good, LogsOk
  <2>2. TimesOk(K, D, A, C, B)
    BY Zenon, <1>5 DEF Good, TimesOk
  <2>3. RemovedOk(K, D, C, B)
    BY Zenon, <1>1 DEF Good, RemovedOk
  <2> QED
    BY Zenon, <2>1, <2>2, <2>3
<1>7. StaleOk(K, D, A, C, S, B) /\ YoungOk(K, D, A, C, B, X)
  BY Zenon, <1>5 DEF Good, StaleOk, Stale, YoungOk
<1>8. B = 0 => SweptOk(K, D, S)
  BY Zenon, <1>1 DEF Good, SweptOk
<1> QED
  BY Zenon, <1>2, <1>4, <1>6, <1>7, <1>8 DEF Good

\* A sweep where only the program p has gone on
Moved(T, S, p) == T \in [Programs -> AnySweep] /\ \A q \in Programs : q # p => T[q] = S[q]

\* rollFile(0) begins.
LEMMA BeginKeeps ==
  ASSUME NEW L, NEW D, NEW A, NEW C, NEW S, NEW B, NEW X, Good(L, D, A, C, S, B, X),
         NEW p \in Programs, NEW T, Moved(T, S, p),
         T[p].pc = "next", T[p].now = C, T[p].list = DOMAIN D, T[p].file = NoFile,
         T[p].writes => L[p].file # NoFile
  PROVE  Good(L, D, A, C, T, B, X)
<1>1. ShapeOf(L, D, A, C, T, B) /\ ShapeOf(L, D, A, C, S, B)
  BY Zenon DEF Good, ShapeOf, Moved
<1>2. /\ C \in Nat /\ B \in Nat /\ A \in [DOMAIN A -> Nat]
      /\ \A f \in DOMAIN D : f[2] \in Nat /\ D[f].mtime \in Nat
  BY <1>1, NameFields DEF ShapeOf, AnyFile
<1>3. NamesOk(L, D, T)
  BY Zenon DEF Good, NamesOk, Moved
<1>4. SweepsOk(C, T, B)
  BY <1>2, Numbers DEF Good, SweepsOk, Moved
<1>5. ASSUME NEW f \in DOMAIN D, Expired(D[f].mtime, C) PROVE Stale(f, L, D, A, C + B)
  <2>1. C - D[f].mtime > KeepTime
    BY <1>2, <1>5, Numbers DEF Expired, KeepTime
  <2>2. Ago(f[2], C + B, KeepTime)
    BY <1>2, <2>1, Numbers DEF Good, TimesOk, Ago
  <2>3. ASSUME NEW i \in DOMAIN A, In(i, f, L, D)
        PROVE  Ago(A[i], C + B, KeepTime - kRollPerSeconds)
    <3>1. A[i] \in Nat /\ A[i] <= D[f].mtime + B + kRollPerSeconds
      BY Zenon, <1>2, <2>3 DEF Good, TimesOk
    <3> QED
      BY <1>2, <2>1, <3>1, Numbers DEF Ago
  <2> QED
    BY Zenon, <2>2, <2>3 DEF Stale
<1>6. StaleOk(L, D, A, C, T, B)
  BY Zenon, <1>5 DEF Good, StaleOk, Moved
<1>7. ASSUME B = 0 PROVE SweptOk(L, D, T)
  <2>1. /\ L[p].startTime = StartOfDay(L[p].lastRoll) /\ L[p].lastRoll \in Nat
        /\ L[p].lastRoll <= C
    BY <1>1, <1>2, <1>7, LogFields DEF Good, LogsOk, ShapeOf
  <2>2. L[p].startTime <= C
    BY <1>2, <2>1, DayBounds
  <2>3. T[p] # NoSweep
    BY DEF NoSweep
  <2> QED
    BY Zenon, <1>7, <2>2, <2>3 DEF Good, SweptOk, Moved
<1> QED
  BY Zenon, <1>1, <1>3, <1>4, <1>6, <1>7 DEF Good

\* delLogFile goes on to another file, or ends.
LEMMA SweepKeeps ==
  ASSUME NEW L, NEW D, NEW A, NEW C, NEW S, NEW B, NEW X, Good(L, D, A, C, S, B, X),
         NEW p \in Programs, NEW T, Moved(T, S, p),
         Active(T[p]) => Active(S[p]) /\ T[p].now = S[p].now,
         T[p].list \subseteq S[p].list, T[p].file \in S[p].list \cup {S[p].file, NoFile},
         T[p].pc \in {"file", "old"} => T[p].file # NoFile, T[p].writes => S[p].writes,
         T[p].pc = "old" /\ T[p].file \in DOMAIN D => Stale(T[p].file, L, D, A, C + B),
         B = 0 /\ Active(T[p]) =>
           \A f \in DOMAIN D : \/ f \in T[p].list
                               \/ T[p].pc \in {"file", "old"} /\ f = T[p].file
                               \/ ~ Expired(D[f].mtime, S[p].now),
         B = 0 /\ T[p] = NoSweep =>
           \A f \in DOMAIN D : D[f].mtime >= L[p].startTime - KeepTime
  PROVE  Good(L, D, A, C, T, B, X)
<1>1. ShapeOf(L, D, A, C, T, B)
  BY Zenon DEF Good, ShapeOf, Moved
<1>2. NamesOk(L, D, T)
  BY SMTT(20) DEF Good, NamesOk, Moved
<1>3. SweepsOk(C, T, B)
  BY Zenon DEF Good, SweepsOk, Moved
<1>4. StaleOk(L, D, A, C, T, B)
  BY Zenon DEF Good, StaleOk, Moved
<1>5. B = 0 => SweptOk(L, D, T)
  BY SMTT(20) DEF Good, SweptOk, Moved
<1> QED
  BY Zenon, <1>1, <1>2, <1>3, <1>4, <1>5 DEF Good

\* A program that dies loses what its stream holds.
LEMMA DieKeeps ==
  ASSUME NEW L, NEW D, NEW A, NEW C, NEW S, NEW B, NEW X, Good(L, D, A, C, S, B, X),
         NEW p \in Programs, NEW K, Changed(K, L, p),
         K[p].file = L[p].file, K[p].lastRoll = L[p].lastRoll, K[p].startTime = L[p].startTime,
         K[p].count = L[p].count, K[p].buffered = {}
  PROVE  Good(K, D, A, C, S, B, X \cup L[p].buffered)
<1>1. \A q \in Programs :
        /\ K[q].file = L[q].file /\ K[q].lastRoll = L[q].lastRoll
        /\ K[q].startTime = L[q].startTime /\ K[q].count = L[q].count
        /\ K[q].buffered \in {L[q].buffered, {}}
  BY Zenon DEF Changed
<1>2. ShapeOf(K, D, A, C, S, B) /\ ShapeOf(L, D, A, C, S, B)
  BY Zenon DEF Good, ShapeOf, Changed
<1>3. \A f \in AnyName : K[f[1]].lastRoll = L[f[1]].lastRoll
  BY Zenon, <1>1, NameFields
<1>4. NamesOk(K, D, S)
  <2>1. /\ DOMAIN D \subseteq AnyName
        /\ \A q \in Programs : S[q].list \subseteq AnyName /\ S[q].file \in AnyName \cup {NoFile}
    BY Zenon, <1>2, SweepFields DEF ShapeOf
  <2> QED
    BY SMTT(20), <1>1, <1>3, <2>1 DEF Good, NamesOk
<1>5. /\ \A i : InSome(i, L, D) => InSome(i, K, D) \/ i \in L[p].buffered
      /\ \A i, f : In(i, f, K, D) => In(i, f, L, D)
  BY Zenon, <1>1 DEF In, InSome, Changed
<1>6. LogsOk(K, A, C, B) /\ TimesOk(K, D, A, C, B) /\ RemovedOk(K, D, C, B)
  <2>1. LogsOk(K, A, C, B)
    BY SMTT(20), <1>1 DEF Good, LogsOk
  <2>2. TimesOk(K, D, A, C, B)
    BY Zenon, <1>5 DEF Good, TimesOk
  <2>3. RemovedOk(K, D, C, B)
    BY Zenon, <1>1 DEF Good, RemovedOk
  <2> QED
    BY Zenon, <2>1, <2>2, <2>3
<1>7. StaleOk(K, D, A, C, S, B) /\ YoungOk(K, D, A, C, B, X \cup L[p].buffered)
  BY Zenon, <1>5 DEF Good, StaleOk, Stale, YoungOk
<1>8. B = 0 => SweptOk(K, D, S)
  BY Zenon, <1>1 DEF Good, SweptOk
<1> QED
  BY Zenon, <1>2, <1>4, <1>6, <1>7, <1>8 DEF Good

\* removeFile of what a sweep has found old
LEMMA RemoveKeeps ==
  ASSUME NEW L, NEW D, NEW A, NEW C, NEW S, NEW B, NEW X, Good(L, D, A, C, S, B, X),
         NEW p \in Programs, S[p].pc = "old"
  PROVE  Good(L, [f \in DOMAIN D \ {S[p].file} |-> D[f]], A, C, S, B, X)
<1> DEFINE g == S[p].file
           E == [f \in DOMAIN D \ {g} |-> D[f]]
<1>1. DOMAIN E = DOMAIN D \ {g} /\ \A f \in DOMAIN E : E[f] = D[f]
  BY Zenon
<1>2. ShapeOf(L, E, A, C, S, B)
  BY Zenon DEF Good, ShapeOf
<1> HIDE DEF E
<1>3. g \in DOMAIN D => Stale(g, L, D, A, C + B)
  BY Zenon DEF Good, StaleOk
<1> HIDE DEF g
<1>4. /\ \A f \in DOMAIN E, i \in DOMAIN A : In(i, f, L, E) <=> In(i, f, L, D)
      /\ \A i \in DOMAIN A : InSome(i, L, D) => InSome(i, L, E)
                                                    \/ (g \in DOMAIN D /\ In(i, g, L, D))
  BY Zenon, <1>1 DEF In, InSome
<1>5. NamesOk(L, E, S)
  BY Zenon, <1>1 DEF Good, NamesOk
<1>6. TimesOk(L, E, A, C, B)
  BY Zenon, <1>1, <1>4 DEF Good, TimesOk
<1>7. StaleOk(L, E, A, C, S, B)
  BY Zenon, <1>1, <1>4 DEF Good, StaleOk, Stale
<1>8. RemovedOk(L, E, C, B)
  BY Zenon, <1>1, <1>3 DEF Good, RemovedOk, Stale
<1>9. YoungOk(L, E, A, C, B, X)
  BY Zenon, <1>3, <1>4 DEF Good, YoungOk, Stale
<1>10. B = 0 => SweptOk(L, E, S)
  BY Zenon, <1>1 DEF Good, SweptOk
<1> QED
  BY Zenon, <1>2, <1>5, <1>6, <1>7, <1>8, <1>9, <1>10 DEF Good, E, g

-----------------------------------------------------------------------------
(* The steps of the programs                                               *)

\* rollFile after delLogFile
LEMMA RolledKeeps ==
  ASSUME NEW L, Good(L, disk, said, clock, sweep, Back, lost),
         NEW p \in Programs, NEW now \in Nat, NEW n \in Nat,
         now <= clock + Back, L[p].count # 0 \/ sweep[p] # NoSweep,
         Active(sweep[p]) => now = sweep[p].now,
         NEW r, r = Rolled(p, L[p], disk, now, n)
  PROVE  /\ r.log \in AnyLog
         /\ Good([L EXCEPT ![p] = r.log], r.disk, said, clock, sweep, Back, lost)
         /\ L[p].file # NoFile => r.log.file # NoFile
         /\ now <= r.log.lastRoll
<1>1. L \in [Programs -> AnyLog] /\ L[p] \in AnyLog /\ L[p].lastRoll \in Nat
  BY Zenon, LogFields DEF Good, ShapeOf
<1>2. CASE ~ MayRoll(L[p], now)
  <2>1. r.log = L[p] /\ r.disk = disk /\ now <= L[p].lastRoll
    BY <1>1, <1>2 DEF Rolled, MayRoll
  <2>2. [L EXCEPT ![p] = L[p]] = L
    BY Zenon, <1>1
  <2> QED
    BY Zenon, <1>1, <2>1, <2>2
<1>3. CASE MayRoll(L[p], now)
  <2> DEFINE l == [count |-> L[p].count, startTime |-> StartOfDay(now), lastRoll |-> now,
                   file |-> Name(p, now, n), buffered |-> {}]
             E == FlushFile(L[p], disk, clock)
             K == [L EXCEPT ![p].buffered = {}]
             M == [L EXCEPT ![p] = l]
  <2>1. r.log = l /\ r.disk = OpenAppend(E, Name(p, now, n), clock)
    BY Zenon, <1>3 DEF Rolled
  <2>2. Name(p, now, n) \in AnyName
    BY Zenon DEF Name, AnyName
  <2>3. l \in AnyLog /\ l.file = Name(p, now, n) /\ l.file # NoFile
    BY Zenon, <1>1, <2>2, DayBounds, NameFields, LogFields DEF AnyLog
  <2>4. /\ l.count = L[p].count /\ l.startTime = StartOfDay(now) /\ l.lastRoll = now
        /\ l.buffered = {}
    BY Zenon
  <2> HIDE DEF l
  <2>5. /\ K \in [Programs -> AnyLog] /\ \A q \in Programs : q # p => K[q] = L[q]
        /\ K[p].file = L[p].file /\ K[p].lastRoll = L[p].lastRoll /\ K[p].count = L[p].count
        /\ K[p].startTime = L[p].startTime /\ K[p].buffered = {}
    BY Zenon, <1>1 DEF AnyLog
  <2>6. M \in [Programs -> AnyLog] /\ M[p] = l /\ \A q \in Programs : q # p => M[q] = K[q]
    BY Zenon, <1>1, <2>3, <2>5
  <2> HIDE DEF K, M
  <2>7. Good(K, E, said, clock, sweep, Back, lost)
    BY Zenon, <2>5, FlushKeeps DEF Changed
  <2> HIDE DEF E
  <2>8. now > K[p].lastRoll
    BY Zenon, <1>1, <1>3, <2>5 DEF MayRoll
  <2>9. Good(M, OpenAppend(E, Name(p, now, n), clock), said, clock, sweep, Back, lost)
    BY SMTT(20), <2>3, <2>4, <2>5, <2>6, <2>7, <2>8, RollKeeps DEF Changed
  <2> QED
    BY <2>1, <2>3, <2>4, <2>9 DEF M
<1> QED
  BY Zenon, <1>2, <1>3

\* File::write at the end of outputLogFile
LEMMA WriteKeeps ==
  ASSUME NEW p \in Programs, NEW l \in AnyLog, NEW d, NEW at, NEW S, NEW B, NEW X,
         log \in [Programs -> AnyLog],
         Good([log EXCEPT ![p] = l], d, said, at, S, B, X),
         l.file # NoFile, at <= l.lastRoll + kRollPerSeconds, Write(p, l, d, at)
  PROVE  Good(log', disk', said', at, S, B, X)
<1> DEFINE w == [l EXCEPT !.buffered = @ \cup {Len(said) + 1}]
           v == [w EXCEPT !.buffered = {}]
           L == [log EXCEPT ![p] = l]
           K == [log EXCEPT ![p] = w]
           M == [log EXCEPT ![p] = v]
<1>1. said \in Seq(Nat) /\ Len(said) + 1 \in Nat
  BY DEF Good, ShapeOf
<1>2. /\ w \in AnyLog /\ w.file = l.file /\ w.lastRoll = l.lastRoll /\ w.count = l.count
      /\ w.startTime = l.startTime /\ w.buffered = l.buffered \cup {Len(said) + 1}
  BY Zenon, <1>1 DEF AnyLog
<1>3. /\ said' = Append(said, at)
      /\ (log' = K /\ disk' = d) \/ (log' = M /\ disk' = FlushFile(w, d, at))
  <2>1. PICK spill \in BOOLEAN :
          /\ said' = Append(said, at)
          /\ log' = [log EXCEPT ![p] = IF spill THEN v ELSE w]
          /\ disk' = IF spill THEN FlushFile(w, d, at) ELSE d
    BY Zenon DEF Write
  <2> QED
    BY Zenon, <2>1
<1> HIDE DEF w
<1>4. /\ v \in AnyLog /\ v.file = w.file /\ v.lastRoll = w.lastRoll /\ v.count = w.count
      /\ v.startTime = w.startTime /\ v.buffered = {}
  BY Zenon, <1>2 DEF AnyLog
<1> HIDE DEF v
<1>5. /\ L[p] = l /\ K[p] = w /\ M[p] = v /\ K \in [Programs -> AnyLog]
      /\ M \in [Programs -> AnyLog]
      /\ \A q \in Programs : q # p => K[q] = L[q] /\ M[q] = K[q]
  BY Zenon, <1>2, <1>4
<1>6. Good(L, d, said, at, S, B, X)
  BY Zenon
<1> HIDE DEF L, K, M
<1>7. Good(K, d, Append(said, at), at, S, B, X)
  BY SMTT(20), <1>2, <1>5, <1>6, AddKeeps DEF Changed
<1>8. Good(M, FlushFile(w, d, at), Append(said, at), at, S, B, X)
  BY Zenon, <1>4, <1>5, <1>7, FlushKeeps DEF Changed
<1> QED
  BY Zenon, <1>3, <1>7, <1>8

\* What the invariant says of the variables
LEMMA FileShape ==
  ASSUME FileInv
  PROVE  /\ log \in [Programs -> AnyLog] /\ sweep \in [Programs -> AnySweep]
         /\ disk \in [DOMAIN disk -> AnyFile] /\ DOMAIN disk \subseteq AnyName
         /\ said \in Seq(Nat) /\ clock \in Nat /\ Back \in Nat /\ Back <= KeepTime
         /\ \A q \in Programs :
              /\ log[q] \in AnyLog /\ log[q].lastRoll \in Nat /\ log[q].count \in Nat
              /\ log[q].startTime = StartOfDay(log[q].lastRoll)
              /\ sweep[q] \in AnySweep /\ sweep[q].now \in Nat
              /\ sweep[q].list \subseteq AnyName
BY Zenon, LogFields, SweepFields DEF FileInv, Good, ShapeOf, LogsOk

\* The clock may move on during a call.
LEMMA LaterKeeps ==
  ASSUME FileInv, NEW later \in {clock, clock + 1}, later = clock \/ Later(later),
         NEW L, Good(L, disk, said, clock, sweep, Back, lost)
  PROVE  Good(L, disk, said, later, sweep, Back, lost) /\ later \in Nat
<1>1. clock \in Nat /\ Back \in Nat /\ Back <= KeepTime /\ later \in Nat
      /\ clock + Back <= later + Back
  BY FileShape
<1>2. \A q \in Programs : Active(sweep[q]) => later <= sweep[q].now + MaxSweep
  BY Zenon DEF FileInv, Good, SweepsOk, Later, Active
<1> QED
  BY <1>1, <1>2, TimeMoves

\* The list of delLogFile is made.
LEMMA ListKeeps ==
  ASSUME NEW L, NEW C \in Nat, NEW B, NEW X, Good(L, disk, said, C, sweep, B, X),
         NEW p \in Programs, NEW w \in BOOLEAN, BeginSweep(p, C, w), w => L[p].file # NoFile
  PROVE  Good(L, disk, said, C, sweep', B, X) /\ sweep'[p] # NoSweep
<1> DEFINE b == [pc |-> "next", now |-> C, list |-> DOMAIN disk, file |-> NoFile, writes |-> w]
<1>1. sweep \in [Programs -> AnySweep] /\ DOMAIN disk \subseteq AnyName
  BY Zenon DEF Good, ShapeOf
<1>2. sweep' = [sweep EXCEPT ![p] = b]
  BY Zenon DEF BeginSweep, EntryInfoList
<1>3. b \in AnySweep
  BY Zenon, <1>1 DEF AnySweep
<1>4. /\ b.pc = "next" /\ b.now = C /\ b.list = DOMAIN disk /\ b.file = NoFile /\ b.writes = w
      /\ b # NoSweep
  BY Zenon DEF NoSweep
<1> HIDE DEF b
<1>5. Moved(sweep', sweep, p) /\ sweep'[p] = b
  BY Zenon, <1>1, <1>2, <1>3 DEF Moved
<1> QED
  BY Zenon, <1>4, <1>5, BeginKeeps

\* setDirectoryAndBaseName begins the first sweep of a program.
LEMMA SetDirectoryStep ==
  ASSUME FileInv, NEW p \in Programs, SetDirectoryAndBaseName(p) PROVE FileInv'
<1>1. /\ BeginSweep(p, clock, FALSE)
      /\ UNCHANGED <<clock, log, disk, said, lost, backs>>
  BY Zenon DEF SetDirectoryAndBaseName
<1>2. Good(log, disk, said, clock, sweep', Back, lost)
  BY Zenon, <1>1, FileShape, ListKeeps DEF FileInv
<1> QED
  BY Zenon, <1>1, <1>2 DEF FileInv, Back

\* outputLogFile on a new day begins a sweep.
LEMMA OutputOnNewDayStep ==
  ASSUME FileInv, NEW p \in Programs, OutputOnNewDay(p) PROVE FileInv'
<1>1. PICK later \in {clock, clock + 1} :
        (later = clock \/ Later(later)) /\ clock' = later /\ BeginSweep(p, later, TRUE)
  BY Zenon DEF OutputOnNewDay
<1>2. /\ log' = [log EXCEPT ![p].count = 0] /\ log[p].file # NoFile
      /\ UNCHANGED <<disk, said, lost, backs>>
  BY Zenon DEF OutputOnNewDay, CanOutput
<1>3. Good(log, disk, said, later, sweep, Back, lost) /\ later \in Nat
  BY Zenon, <1>1, LaterKeeps DEF FileInv
<1>4. Good(log, disk, said, later, sweep', Back, lost) /\ sweep'[p] # NoSweep
  BY Zenon, <1>1, <1>2, <1>3, ListKeeps
<1>5. /\ log' \in [Programs -> AnyLog] /\ \A q \in Programs : q # p => log'[q] = log[q]
      /\ log'[p].file = log[p].file /\ log'[p].lastRoll = log[p].lastRoll
      /\ log'[p].startTime = log[p].startTime /\ log'[p].buffered = log[p].buffered
  BY Zenon, <1>2, FileShape DEF AnyLog
<1>6. Good(log', disk, said, later, sweep', Back, lost)
  BY Zenon, <1>4, <1>5, CountKeeps DEF Changed
<1> QED
  BY Zenon, <1>1, <1>2, <1>6 DEF FileInv, Back

\* outputLogFile into the file, or into the next one when it is full
LEMMA OutputStep ==
  ASSUME FileInv, NEW p \in Programs, OutputLogFile(p) PROVE FileInv'
<1> DEFINE n == log[p].count + 1
           l == [log[p] EXCEPT !.count = n]
           L == [log EXCEPT ![p] = l]
           r == IF Full(p) THEN Rolled(p, l, disk, clock, n) ELSE [log |-> log[p], disk |-> disk]
<1>1. PICK later \in {clock, clock + 1} :
        (later = clock \/ Later(later)) /\ clock' = later /\ Write(p, r.log, r.disk, later)
  BY Zenon DEF OutputLogFile
<1>2. /\ log[p].file # NoFile /\ sweep[p] = NoSweep /\ (Full(p) \/ ~ NewDay(p))
      /\ UNCHANGED <<sweep, lost, backs>>
  BY Zenon DEF OutputLogFile, CanOutput
<1>3. /\ r.log \in AnyLog /\ Good([log EXCEPT ![p] = r.log], r.disk, said, clock, sweep, Back, lost)
      /\ r.log.file # NoFile /\ r.log.lastRoll \in Nat
      /\ clock + 1 <= r.log.lastRoll + kRollPerSeconds
  <2>1. CASE Full(p)
    <3>1. n \in Nat /\ n # 0 /\ clock \in Nat /\ Back \in Nat /\ clock <= clock + Back
      BY FileShape
    <3>2. /\ l \in AnyLog /\ l.file = log[p].file /\ l.lastRoll = log[p].lastRoll /\ l.count = n
          /\ l.startTime = log[p].startTime /\ l.buffered = log[p].buffered
      BY Zenon, <3>1, FileShape DEF AnyLog
    <3> HIDE DEF l, n
    <3>3. /\ L \in [Programs -> AnyLog] /\ L[p] = l
          /\ \A q \in Programs : q # p => L[q] = log[q]
      BY Zenon, <3>2, FileShape
    <3>4. [L EXCEPT ![p] = r.log] = [log EXCEPT ![p] = r.log]
      BY Zenon, FileShape
    <3> HIDE DEF L
    <3>5. Good(L, disk, said, clock, sweep, Back, lost)
      BY Zenon, <3>1, <3>2, <3>3, CountKeeps DEF Changed, FileInv
    <3>6. ~ Active(sweep[p]) /\ r = Rolled(p, L[p], disk, clock, n)
      BY <1>2, <2>1, <3>3 DEF Active, NoSweep
    <3> HIDE DEF r
    <3>7. /\ r.log \in AnyLog
          /\ Good([L EXCEPT ![p] = r.log], r.disk, said, clock, sweep, Back, lost)
          /\ r.log.file # NoFile /\ clock <= r.log.lastRoll
      <4>1. L[p].count # 0 /\ L[p].file # NoFile /\ (Active(sweep[p]) => clock = sweep[p].now)
        BY Zenon, <1>2, <3>1, <3>2, <3>3, <3>6
      <4> QED
        BY Zenon, <3>1, <3>5, <3>6, <4>1, RolledKeeps
    <3>8. r.log.lastRoll \in Nat
      BY Zenon, <3>7, LogFields
    <3> QED
      BY <3>1, <3>4, <3>7, <3>8, Numbers
  <2>2. CASE ~ Full(p)
    <3>1. r.log = log[p] /\ r.disk = disk /\ [log EXCEPT ![p] = log[p]] = log
      BY Zenon, <2>2, FileShape
    <3>2. StartOfDay(clock) = StartOfDay(log[p].lastRoll)
      BY Zenon, <1>2, <2>2, FileShape DEF NewDay
    <3>3. clock + 1 <= log[p].lastRoll + kRollPerSeconds
      BY <3>2, FileShape, DayBounds, Numbers
    <3> QED
      BY Zenon, <1>2, <3>1, <3>3, FileShape DEF FileInv
  <2> QED
    BY Zenon, <2>1, <2>2
<1> HIDE DEF r
<1>4. Good([log EXCEPT ![p] = r.log], r.disk, said, later, sweep, Back, lost)
  <2>1. clock \in Nat /\ Back \in Nat /\ Back <= KeepTime /\ later \in Nat
      /\ clock + Back <= later + Back
    BY FileShape
  <2>2. \A q \in Programs : Active(sweep[q]) => later <= sweep[q].now + MaxSweep
    BY Zenon, <1>1 DEF FileInv, Good, SweepsOk, Later, Active
  <2> QED
    BY <1>3, <2>1, <2>2, TimeMoves
<1>5. later <= r.log.lastRoll + kRollPerSeconds
  BY SMTT(20), <1>1, <1>3, FileShape, Numbers
<1>6. Good(log', disk', said', later, sweep, Back, lost)
  BY Zenon, <1>1, <1>3, <1>4, <1>5, FileShape, WriteKeeps
<1> QED
  BY Zenon, <1>1, <1>2, <1>6 DEF FileInv, Back

\* delLogFile goes on to the next file of its list.
LEMMA IsFileStep ==
  ASSUME FileInv, NEW p \in Programs, IsFile(p) PROVE FileInv'
<1> DEFINE w == sweep[p]
<1>1. PICK f \in w.list :
        sweep' = [sweep EXCEPT ![p].list = @ \ {f},
                               ![p].file = IF f \in DOMAIN disk THEN f ELSE NoFile,
                               ![p].pc = IF f \in DOMAIN disk THEN "file" ELSE "next"]
  BY Zenon DEF IsFile
<1>2. w.pc = "next" /\ UNCHANGED <<clock, log, disk, said, lost, backs>>
  BY Zenon DEF IsFile
<1>3. f \in AnyName /\ f # NoFile /\ w \in AnySweep /\ sweep \in [Programs -> AnySweep]
  BY Zenon, FileShape, NameFields
<1>4. /\ sweep' \in [Programs -> AnySweep] /\ \A q \in Programs : q # p => sweep'[q] = sweep[q]
      /\ sweep'[p].list = w.list \ {f} /\ sweep'[p].now = w.now /\ sweep'[p].writes = w.writes
      /\ f \in DOMAIN disk => sweep'[p].pc = "file" /\ sweep'[p].file = f
      /\ f \notin DOMAIN disk => sweep'[p].pc = "next" /\ sweep'[p].file = NoFile
  BY Zenon, <1>1, <1>3 DEF AnySweep
<1>5. sweep'[p] # NoSweep /\ Active(w)
  BY <1>2, <1>4 DEF NoSweep, Active
<1>6. Back = 0 /\ Active(sweep'[p]) =>
        \A g \in DOMAIN disk : \/ g \in sweep'[p].list
                               \/ sweep'[p].pc \in {"file", "old"} /\ g = sweep'[p].file
                               \/ ~ Expired(disk[g].mtime, sweep[p].now)
  BY Zenon, <1>2, <1>4, <1>5 DEF FileInv, Good, SweptOk
<1>7. /\ sweep'[p].list \subseteq w.list /\ sweep'[p].file \in w.list \cup {w.file, NoFile}
      /\ sweep'[p].pc \in {"file", "old"} => sweep'[p].file # NoFile
      /\ sweep'[p].pc # "old"
  BY Zenon, <1>3, <1>4
<1>8. Good(log, disk, said, clock, sweep', Back, lost)
  BY Zenon, <1>4, <1>5, <1>6, <1>7, SweepKeeps DEF FileInv, Moved
<1> QED
  BY Zenon, <1>2, <1>8 DEF FileInv, Back

\* delLogFile compares the time of the file with the retention time.
LEMMA LastModifiedStep ==
  ASSUME FileInv, NEW p \in Programs, LastModified(p) PROVE FileInv'
<1> DEFINE w == sweep[p]
           f == w.file
<1>1. w.pc = "file" /\ UNCHANGED <<clock, disk, said, backs>>
  BY Zenon DEF LastModified
<1>2. f # NoFile /\ w \in AnySweep /\ sweep \in [Programs -> AnySweep] /\ Active(w)
  BY Zenon, <1>1, FileShape DEF FileInv, Good, SweepsOk, Active
<1>3. CASE f \in DOMAIN disk
  <2> DEFINE old == Expired(disk[f].mtime, w.now)
  <2>1. /\ sweep' = [sweep EXCEPT ![p].pc = IF old THEN "old" ELSE "next",
                                  ![p].file = IF old THEN f ELSE NoFile]
        /\ UNCHANGED <<log, lost>>
    BY Zenon, <1>3 DEF LastModified
  <2>2. old => Stale(f, log, disk, said, clock + Back)
    BY Zenon, <1>2, <1>3 DEF FileInv, Good, StaleOk
  <2> HIDE DEF old
  <2>3. /\ sweep' \in [Programs -> AnySweep] /\ \A q \in Programs : q # p => sweep'[q] = sweep[q]
        /\ sweep'[p].list = w.list /\ sweep'[p].now = w.now /\ sweep'[p].writes = w.writes
        /\ old => sweep'[p].pc = "old" /\ sweep'[p].file = f
        /\ ~ old => sweep'[p].pc = "next" /\ sweep'[p].file = NoFile
    BY Zenon, <1>2, <2>1 DEF AnySweep
  <2>4. sweep'[p] # NoSweep
    BY SMTT(20), <2>3 DEF NoSweep
  <2>5. Back = 0 /\ Active(sweep'[p]) =>
          \A g \in DOMAIN disk : \/ g \in sweep'[p].list
                                 \/ sweep'[p].pc \in {"file", "old"} /\ g = sweep'[p].file
                                 \/ ~ Expired(disk[g].mtime, sweep[p].now)
    BY Zenon, <1>2, <2>3 DEF FileInv, Good, SweptOk, old
  <2>6. /\ sweep'[p].file \in w.list \cup {w.file, NoFile}
        /\ sweep'[p].pc \in {"file", "old"} => sweep'[p].file # NoFile
        /\ sweep'[p].pc = "old" => Stale(sweep'[p].file, log, disk, said, clock + Back)
    BY Zenon, <1>2, <2>2, <2>3
  <2>7. Good(log, disk, said, clock, sweep', Back, lost)
    BY Zenon, <1>2, <2>3, <2>4, <2>5, <2>6, SweepKeeps DEF FileInv, Moved
  <2> QED
    BY Zenon, <1>1, <2>1, <2>7 DEF FileInv, Back
<1>4. CASE f \notin DOMAIN disk
  <2> DEFINE d == [NoSweep EXCEPT !.pc = "dead"]
  <2>1. /\ sweep' = [sweep EXCEPT ![p] = d]
        /\ lost' = lost \cup log[p].buffered /\ log' = [log EXCEPT ![p].buffered = {}]
    BY Zenon, <1>4 DEF LastModified
  <2>2. /\ d \in AnySweep /\ d.pc = "dead" /\ d.list = {} /\ d.file = NoFile /\ d.writes = FALSE
        /\ d # NoSweep
    BY Zenon DEF NoSweep, AnySweep
  <2> HIDE DEF d
  <2>3. Moved(sweep', sweep, p) /\ sweep'[p] = d
    BY Zenon, <1>2, <2>1, <2>2 DEF Moved
  <2>4. ~ Active(d)
    BY Zenon, <2>2 DEF Active
  <2>5. Good(log, disk, said, clock, sweep', Back, lost)
    BY Zenon, <2>2, <2>3, <2>4, SweepKeeps DEF FileInv
  <2>6. /\ log' \in [Programs -> AnyLog] /\ \A q \in Programs : q # p => log'[q] = log[q]
        /\ log'[p].file = log[p].file /\ log'[p].lastRoll = log[p].lastRoll
        /\ log'[p].startTime = log[p].startTime /\ log'[p].count = log[p].count
        /\ log'[p].buffered = {}
    BY Zenon, <2>1, FileShape DEF AnyLog
  <2>7. Good(log', disk, said, clock, sweep', Back, lost')
    BY Zenon, <2>1, <2>5, <2>6, DieKeeps DEF Changed
  <2> QED
    BY Zenon, <1>1, <2>7 DEF FileInv, Back
<1> QED
  BY Zenon, <1>3, <1>4

\* delLogFile removes the file that it has found expired.
LEMMA RemoveFileStep ==
  ASSUME FileInv, NEW p \in Programs, RemoveFile(p) PROVE FileInv'
<1> DEFINE w == sweep[p]
<1>1. /\ w.pc = "old" /\ disk' = [f \in DOMAIN disk \ {w.file} |-> disk[f]]
      /\ sweep' = [sweep EXCEPT ![p].pc = "next", ![p].file = NoFile]
      /\ UNCHANGED <<clock, log, said, lost, backs>>
  BY Zenon DEF RemoveFile
<1>2. Good(log, disk', said, clock, sweep, Back, lost)
  BY Zenon, <1>1, RemoveKeeps DEF FileInv
<1>3. /\ sweep' \in [Programs -> AnySweep] /\ \A q \in Programs : q # p => sweep'[q] = sweep[q]
      /\ sweep'[p].list = w.list /\ sweep'[p].now = w.now /\ sweep'[p].writes = w.writes
      /\ sweep'[p].pc = "next" /\ sweep'[p].file = NoFile
  BY Zenon, <1>1, FileShape DEF AnySweep
<1>4. sweep'[p] # NoSweep /\ Active(w)
  <2>1. sweep'[p] # NoSweep
    BY SMTT(20), <1>3 DEF NoSweep
  <2>2. Active(w)
    BY Zenon, <1>1 DEF Active
  <2> QED
    BY Zenon, <2>1, <2>2
<1>5. w.file \notin DOMAIN disk'
  BY Zenon, <1>1
<1>6. Back = 0 => \A g \in DOMAIN disk' :
                    g \in sweep'[p].list \/ ~ Expired(disk'[g].mtime, sweep[p].now)
  BY Zenon, <1>2, <1>3, <1>4, <1>5 DEF Good, SweptOk
<1>7. Good(log, disk', said, clock, sweep', Back, lost)
  BY Zenon, <1>2, <1>3, <1>4, <1>6, SweepKeeps DEF Moved
<1> QED
  BY Zenon, <1>1, <1>7 DEF FileInv, Back

\* The rest of rollFile(0): a new file, and the message that outputLogFile came with
LEMMA EndSweepStep ==
  ASSUME FileInv, NEW p \in Programs, EndSweep(p) PROVE FileInv'
<1> DEFINE w == sweep[p]
           r == Rolled(p, log[p], disk, w.now, 0)
<1>1. /\ w.pc = "next" /\ w.list = {} /\ sweep' = [sweep EXCEPT ![p] = NoSweep]
      /\ UNCHANGED <<clock, lost, backs>>
      /\ w.writes => Write(p, r.log, r.disk, clock)
      /\ ~ w.writes => log' = [log EXCEPT ![p] = r.log] /\ disk' = r.disk /\ said' = said
  BY Zenon DEF EndSweep
<1>2. Active(w) /\ w # NoSweep /\ w.now \in Nat /\ w.writes \in BOOLEAN
  BY <1>1, FileShape, SweepFields DEF Active, NoSweep
<1>3. w.now <= clock + Back /\ clock <= w.now + MaxSweep
  BY Zenon, <1>2 DEF FileInv, Good, SweepsOk
<1>4. /\ r.log \in AnyLog
      /\ Good([log EXCEPT ![p] = r.log], r.disk, said, clock, sweep, Back, lost)
      /\ log[p].file # NoFile => r.log.file # NoFile
      /\ w.now <= r.log.lastRoll
  BY Zenon, <1>2, <1>3, RolledKeeps DEF FileInv
<1> HIDE DEF r
<1>5. Good(log', disk', said', clock, sweep, Back, lost)
  <2>1. CASE w.writes
    <3>1. r.log.file # NoFile
      BY Zenon, <1>4, <2>1 DEF FileInv, Good, NamesOk
    <3>2. clock <= r.log.lastRoll + kRollPerSeconds
      BY SMTT(20), <1>2, <1>3, <1>4, FileShape, LogFields, Numbers
    <3> QED
      BY Zenon, <1>1, <1>4, <2>1, <3>1, <3>2, FileShape, WriteKeeps
  <2>2. CASE ~ w.writes
    BY Zenon, <1>1, <1>4, <2>2
  <2> QED
    BY Zenon, <1>2, <2>1, <2>2
<1>6. Moved(sweep', sweep, p) /\ sweep'[p] = NoSweep
  BY Zenon, <1>1, FileShape DEF Moved, AnySweep, NoSweep
<1>7. /\ NoSweep.list = {} /\ NoSweep.file = NoFile /\ NoSweep.pc = "idle"
      /\ NoSweep.writes = FALSE /\ ~ Active(NoSweep)
  BY Zenon DEF NoSweep, Active
<1>8. ASSUME Back = 0, NEW f \in DOMAIN disk'
      PROVE  disk'[f].mtime >= log'[p].startTime - KeepTime
  <2>1. /\ log'[p].startTime <= w.now /\ ~ Expired(disk'[f].mtime, w.now)
    BY Zenon, <1>1, <1>2, <1>5, <1>8 DEF Good, SweptOk
  <2>2. disk'[f].mtime \in Nat /\ log'[p].startTime \in Nat
    BY Zenon, <1>5, <1>8, LogFields DEF Good, ShapeOf, AnyFile
  <2> QED
    BY <1>2, <2>1, <2>2, Numbers DEF Expired, KeepTime
<1>9. Good(log', disk', said', clock, sweep', Back, lost)
  BY Zenon, <1>5, <1>6, <1>7, <1>8, SweepKeeps
<1> QED
  BY Zenon, <1>1, <1>9 DEF FileInv, Back

\* flushLogFile
LEMMA FlushLogFileStep ==
  ASSUME FileInv, NEW p \in Programs, FlushLogFile(p) PROVE FileInv'
<1>1. /\ disk' = FlushFile(log[p], disk, clock) /\ log' = [log EXCEPT ![p].buffered = {}]
      /\ UNCHANGED <<clock, sweep, said, lost, backs>>
  BY Zenon DEF FlushLogFile
<1>2. /\ log' \in [Programs -> AnyLog] /\ \A q \in Programs : q # p => log'[q] = log[q]
      /\ log'[p].file = log[p].file /\ log'[p].lastRoll = log[p].lastRoll
      /\ log'[p].startTime = log[p].startTime /\ log'[p].count = log[p].count
      /\ log'[p].buffered = {}
  BY Zenon, <1>1, FileShape DEF AnyLog
<1>3. Good(log', disk', said, clock, sweep, Back, lost)
  BY Zenon, <1>1, <1>2, FlushKeeps DEF FileInv, Changed
<1> QED
  BY Zenon, <1>1, <1>3 DEF FileInv, Back

\* A second passes.
LEMMA TickStep ==
  ASSUME FileInv, Tick PROVE FileInv'
<1>1. /\ Later(clock + 1) /\ clock' = clock + 1
      /\ UNCHANGED <<log, disk, sweep, said, lost, backs>>
  BY Zenon DEF Tick
<1>2. Good(log, disk, said, clock + 1, sweep, Back, lost)
  BY Zenon, <1>1, LaterKeeps DEF FileInv
<1> QED
  BY Zenon, <1>1, <1>2 DEF FileInv, Back

\* The clock is set back.
LEMMA SetBackStep ==
  ASSUME FileInv, SetBack PROVE FileInv'
<1>1. PICK t \in 1 .. MaxBack : clock - t \in 1 .. MaxClockBack /\ clock' = clock - t
  BY Zenon DEF SetBack
<1>2. /\ backs < Backs /\ backs' = backs + 1 /\ UNCHANGED <<log, disk, sweep, said, lost>>
  BY Zenon DEF SetBack
<1>3. /\ backs \in 0 .. Backs /\ backs' \in 0 .. Backs /\ MaxBack \in Nat /\ MaxClockBack \in Nat
  BY <1>2, LogFileAssumption DEF FileInv
<1>4. Back \in Nat /\ Back' \in Nat /\ Back' = Back + MaxBack /\ Back' <= KeepTime
  BY Zenon, <1>2, <1>3, BackBounds DEF Back
<1>5. clock' \in Nat /\ clock' <= clock /\ clock + Back <= clock' + Back'
  BY SMTT(20), <1>1, <1>3, <1>4, FileShape
<1>6. \A q \in Programs : Active(sweep[q]) => clock' <= sweep[q].now + MaxSweep
  BY SMTT(20), <1>5, FileShape, Numbers DEF FileInv, Good, SweepsOk
<1>7. Good(log, disk, said, clock', sweep, Back', lost)
  BY SMTT(20), <1>3, <1>4, <1>5, <1>6, TimeMoves DEF FileInv
<1> QED
  BY Zenon, <1>2, <1>3, <1>7 DEF FileInv

\* There are no files and no messages at first.
LEMMA InitFiles ==
  ASSUME FileInit PROVE FileInv
<1> DEFINE l == [count |-> 0, startTime |-> 0, lastRoll |-> 0, file |-> NoFile, buffered |-> {}]
<1>1. /\ log = [p \in Programs |-> l] /\ sweep = [p \in Programs |-> NoSweep]
      /\ disk = <<>> /\ said = <<>> /\ backs = 0 /\ clock = kRollPerSeconds /\ lost = {}
  BY Zenon DEF FileInit
<1>2. backs \in 0 .. Backs /\ Back = 0 /\ clock \in Nat /\ 0 <= clock + Back
  BY <1>1, LogFileAssumption DEF Back
<1>3. l \in AnyLog /\ NoSweep \in AnySweep
  BY Zenon DEF AnyLog, AnySweep, NoSweep
<1>4. StartOfDay(0) = 0
  BY DayBounds
<1>5. /\ DOMAIN disk = {} /\ DOMAIN said = {} /\ said \in Seq(Nat)
  BY <1>1
<1>6. disk \in [DOMAIN disk -> AnyFile]
  BY <1>1, <1>5
<1>7. ShapeOf(log, disk, said, clock, sweep, Back)
  BY <1>1, <1>2, <1>3, <1>5, <1>6, Numbers DEF ShapeOf
<1>8. LogsOk(log, said, clock, Back)
  BY Zenon, <1>1, <1>2, <1>4 DEF LogsOk
<1>9. NamesOk(log, disk, sweep) /\ SweepsOk(clock, sweep, Back)
  BY Zenon, <1>1, <1>5 DEF NamesOk, SweepsOk, Active, NoSweep
<1>10. /\ TimesOk(log, disk, said, clock, Back) /\ StaleOk(log, disk, said, clock, sweep, Back)
       /\ RemovedOk(log, disk, clock, Back) /\ YoungOk(log, disk, said, clock, Back, lost)
  BY Zenon, <1>1, <1>5 DEF TimesOk, StaleOk, RemovedOk, YoungOk
<1>11. SweptOk(log, disk, sweep)
  BY Zenon, <1>1, <1>5 DEF SweptOk, Active, NoSweep
<1> QED
  BY Zenon, <1>2, <1>7, <1>8, <1>9, <1>10, <1>11 DEF FileInv, Good

\* The invariant of the log files
LEMMA FileInvariant == FileSpec => []FileInv
<1>1. ASSUME FileInv, UNCHANGED fileVars PROVE FileInv'
  BY Zenon, <1>1 DEF FileInv, fileVars, Back
<1>2. ASSUME FileInv, FileNext PROVE FileInv'
  BY Zenon, <1>2, SetDirectoryStep, OutputStep, OutputOnNewDayStep, IsFileStep, LastModifiedStep,
     RemoveFileStep, EndSweepStep, FlushLogFileStep, TickStep, SetBackStep DEF FileNext
<1> QED
  BY <1>1, <1>2, InitFiles, PTL DEF FileSpec

(***************************************************************************)
(* delLogFile and rollFile, for any number of programs, any length of a    *)
(* day and any time to keep files: what is young enough is kept, and what  *)
(* is too old is gone, however programs write, flush, sweep and die.       *)
(***************************************************************************)
THEOREM LogsAreRetained == FileSpec => []Retention
<1>1. ASSUME FileInv PROVE Retention
  <2>1. /\ clock \in Nat /\ Back \in Nat /\ said \in [DOMAIN said -> Nat]
        /\ \A q \in Programs : log[q].startTime \in Nat
    BY <1>1, FileShape, DayBounds
  <2>2. YoungMessagesKept
    <3> SUFFICES ASSUME NEW i \in DOMAIN said \ lost,
                        clock - said[i] + backs * MaxBack <= (DelDays - 1) * kRollPerSeconds
                 PROVE  Kept(i)
      BY Zenon DEF YoungMessagesKept
    <3>1. clock - said[i] + Back <= KeepTime - kRollPerSeconds
      BY Zenon, DayLess DEF Back
    <3>2. InSome(i, log, disk) \/ Ago(said[i], clock + Back, KeepTime - kRollPerSeconds)
      BY Zenon, <1>1 DEF FileInv, Good, YoungOk
    <3>3. InSome(i, log, disk)
      <4>1. said[i] \in Nat
        BY Zenon, <2>1
      <4> QED
        BY <2>1, <3>1, <3>2, <4>1, Numbers DEF Ago
    <3> QED
      BY Zenon, <3>3 DEF InSome, Kept
  <2>3. OldFilesGone
    <3>1. backs = 0 => Back = 0
      BY LogFileAssumption DEF Back
    <3> QED
      BY Zenon, <1>1, <3>1 DEF FileInv, Good, SweptOk, OldFilesGone, KeepTime
  <2> QED
    BY <2>2, <2>3 DEF Retention
<1> QED
  BY <1>1, FileInvariant, PTL

-----------------------------------------------------------------------------
(* Sequences of buffers                                                    *)

Before(a, b) == \A x \in Ids(a), y \in Ids(b) : x < y

\* The membership of Ids, once and for all
LEMMA IdsMember ==
  ASSUME NEW s, NEW x
  PROVE  x \in Ids(s) <=> \E i \in DOMAIN s : \E k \in DOMAIN s[i].msgs : x = s[i].msgs[k]
<1> DEFINE Of(i) == {s[i].msgs[k] : k \in DOMAIN s[i].msgs}
<1>1. x \in Ids(s) <=> \E i \in DOMAIN s : x \in Of(i)
  BY Zenon DEF Ids
<1>2. \A i : x \in Of(i) <=> \E k \in DOMAIN s[i].msgs : x = s[i].msgs[k]
  BY Zenon
<1> HIDE DEF Of
<1> QED
  BY Zenon, <1>1, <1>2

\* Where the buffers of two sequences are in their concatenation
LEMMA ConcatAt ==
  ASSUME NEW a \in Seq(LogBuffer), NEW b \in Seq(LogBuffer)
  PROVE  /\ a \o b \in Seq(LogBuffer) /\ Len(a) \in Nat /\ Len(b) \in Nat
         /\ DOMAIN a = 1 .. Len(a) /\ DOMAIN b = 1 .. Len(b)
         /\ Len(a \o b) = Len(a) + Len(b) /\ DOMAIN (a \o b) = 1 .. Len(a) + Len(b)
         /\ \A i \in DOMAIN a : (a \o b)[i] = a[i]
         /\ \A i \in DOMAIN b : (a \o b)[Len(a) + i] = b[i]
OBVIOUS

\* The messages of two sequences of buffers one after the other
LEMMA IdsConcat ==
  ASSUME NEW a \in Seq(LogBuffer), NEW b \in Seq(LogBuffer)
  PROVE  Ids(a \o b) = Ids(a) \cup Ids(b)
<1> DEFINE c == a \o b
<1>0. /\ c \in Seq(LogBuffer) /\ Len(a) \in Nat /\ Len(b) \in Nat
      /\ DOMAIN a = 1 .. Len(a) /\ DOMAIN b = 1 .. Len(b) /\ DOMAIN c = 1 .. Len(a) + Len(b)
      /\ \A i \in DOMAIN a : c[i] = a[i]
      /\ \A i \in DOMAIN b : c[Len(a) + i] = b[i]
  BY Zenon, ConcatAt
<1> HIDE DEF c
<1>1. ASSUME NEW x \in Ids(c) PROVE x \in Ids(a) \cup Ids(b)
  <2>1. PICK i \in DOMAIN c : \E k \in DOMAIN c[i].msgs : x = c[i].msgs[k]
    BY <1>1, IdsMember
  <2>2. CASE i \in DOMAIN a
    <3>1. c[i] = a[i]
      BY Zenon, <1>0, <2>2
    <3> QED
      BY Zenon, <2>1, <2>2, <3>1, IdsMember
  <2>3. CASE i \notin DOMAIN a
    <3>1. i - Len(a) \in DOMAIN b /\ c[i] = b[i - Len(a)]
      <4>1. i - Len(a) \in DOMAIN b /\ Len(a) + (i - Len(a)) = i
        BY <2>3, <1>0
      <4> QED
        BY Zenon, <4>1, <1>0
    <3> QED
      BY Zenon, <2>1, <3>1, IdsMember
  <2> QED
    BY Zenon, <2>2, <2>3
<1>2. ASSUME NEW x \in Ids(a) PROVE x \in Ids(c)
  <2>1. PICK i \in DOMAIN a : \E k \in DOMAIN a[i].msgs : x = a[i].msgs[k]
    BY <1>2, IdsMember
  <2>2. i \in DOMAIN c /\ c[i] = a[i]
    BY <1>0
  <2> QED
    BY Zenon, <2>1, <2>2, IdsMember
<1>3. ASSUME NEW x \in Ids(b) PROVE x \in Ids(c)
  <2>1. PICK i \in DOMAIN b : \E k \in DOMAIN b[i].msgs : x = b[i].msgs[k]
    BY <1>3, IdsMember
  <2>2. Len(a) + i \in DOMAIN c /\ c[Len(a) + i] = b[i]
    BY <1>0
  <2> QED
    BY Zenon, <2>1, <2>2, IdsMember
<1> QED
  BY Zenon, <1>1, <1>2, <1>3 DEF c

\* Two sequences of buffers one after the other are in order when each of them is and
\* the first comes before the second.
LEMMA OrderConcat ==
  ASSUME NEW a \in Seq(LogBuffer), NEW b \in Seq(LogBuffer)
  PROVE  InOrder(a \o b) <=> InOrder(a) /\ InOrder(b) /\ Before(a, b)
<1> DEFINE c == a \o b
<1>0. /\ c \in Seq(LogBuffer) /\ Len(a) \in Nat /\ Len(b) \in Nat
      /\ DOMAIN a = 1 .. Len(a) /\ DOMAIN b = 1 .. Len(b) /\ DOMAIN c = 1 .. Len(a) + Len(b)
      /\ \A i \in DOMAIN a : c[i] = a[i]
      /\ \A i \in DOMAIN b : c[Len(a) + i] = b[i]
  BY Zenon, ConcatAt
<1> HIDE DEF c
<1>1. ASSUME InOrder(c) PROVE InOrder(a)
  <2>1. \A i \in DOMAIN a : i \in DOMAIN c /\ c[i] = a[i]
    BY <1>0
  <2> QED
    BY Zenon, <1>1, <2>1 DEF InOrder
<1>2. ASSUME InOrder(c) PROVE InOrder(b)
  <2> SUFFICES ASSUME NEW i \in DOMAIN b, NEW j \in DOMAIN b, NEW k \in DOMAIN b[i].msgs,
                      NEW n \in DOMAIN b[j].msgs, i < j \/ (i = j /\ k < n)
               PROVE  b[i].msgs[k] < b[j].msgs[n]
    BY Zenon DEF InOrder
  <2>1. /\ Len(a) + i \in DOMAIN c /\ c[Len(a) + i] = b[i]
        /\ Len(a) + j \in DOMAIN c /\ c[Len(a) + j] = b[j]
        /\ Len(a) + i < Len(a) + j \/ (Len(a) + i = Len(a) + j /\ k < n)
    BY SMTT(20), <1>0
  <2> QED
    BY Zenon, <1>2, <2>1 DEF InOrder
<1>3. ASSUME InOrder(c) PROVE Before(a, b)
  <2> SUFFICES ASSUME NEW x \in Ids(a), NEW y \in Ids(b) PROVE x < y
    BY Zenon DEF Before
  <2>1. PICK i \in DOMAIN a : \E k \in DOMAIN a[i].msgs : x = a[i].msgs[k]
    BY IdsMember
  <2>2. PICK j \in DOMAIN b : \E k \in DOMAIN b[j].msgs : y = b[j].msgs[k]
    BY IdsMember
  <2>3. /\ i \in DOMAIN c /\ c[i] = a[i] /\ Len(a) + j \in DOMAIN c /\ c[Len(a) + j] = b[j]
        /\ i < Len(a) + j
    BY <1>0
  <2> QED
    BY Zenon, <1>3, <2>1, <2>2, <2>3 DEF InOrder
<1>4. ASSUME InOrder(a), InOrder(b), Before(a, b) PROVE InOrder(c)
  <2> SUFFICES ASSUME NEW i \in DOMAIN c, NEW j \in DOMAIN c, NEW k \in DOMAIN c[i].msgs,
                      NEW n \in DOMAIN c[j].msgs, i < j \/ (i = j /\ k < n)
               PROVE  c[i].msgs[k] < c[j].msgs[n]
    BY Zenon DEF InOrder
  <2>1. ASSUME NEW m \in DOMAIN c, m \notin DOMAIN a
        PROVE  m - Len(a) \in DOMAIN b /\ c[m] = b[m - Len(a)]
    <3>1. m - Len(a) \in DOMAIN b /\ Len(a) + (m - Len(a)) = m
      BY <2>1, <1>0
    <3> QED
      BY Zenon, <3>1, <1>0
  <2>2. CASE j \in DOMAIN a
    <3>1. i \in DOMAIN a /\ c[i] = a[i] /\ c[j] = a[j]
      BY <2>2, <1>0
    <3> QED
      BY Zenon, <1>4, <2>2, <3>1 DEF InOrder
  <2>3. CASE j \notin DOMAIN a /\ i \in DOMAIN a
    <3>1. c[i] = a[i] /\ c[j] = b[j - Len(a)] /\ j - Len(a) \in DOMAIN b
      BY Zenon, <2>1, <2>3, <1>0
    <3>2. c[i].msgs[k] \in Ids(a) /\ c[j].msgs[n] \in Ids(b)
      BY Zenon, <2>3, <3>1, IdsMember
    <3> QED
      BY Zenon, <1>4, <3>2 DEF Before
  <2>4. CASE j \notin DOMAIN a /\ i \notin DOMAIN a
    <3>1. /\ c[i] = b[i - Len(a)] /\ i - Len(a) \in DOMAIN b
          /\ c[j] = b[j - Len(a)] /\ j - Len(a) \in DOMAIN b
      BY Zenon, <2>1, <2>4
    <3>2. i - Len(a) < j - Len(a) \/ (i - Len(a) = j - Len(a) /\ k < n)
      BY <1>0
    <3> QED
      BY Zenon, <1>4, <3>1, <3>2 DEF InOrder
  <2> QED
    BY Zenon, <2>2, <2>3, <2>4
<1> QED
  BY Zenon, <1>1, <1>2, <1>3, <1>4 DEF c

-----------------------------------------------------------------------------
(* LogAsync                                                                *)

\* What the mutex protects and the log thread holds; a spare buffer is missing
\* only while the buffers it was swapped for are written.
BuffersOk ==
  /\ current \in Seq(LogBuffer) /\ Len(current) = 1
  /\ buffers \in Seq(LogBuffer) /\ toWrite \in Seq(LogBuffer) /\ file \in Seq(LogBuffer)
  /\ next \in {null, <<EmptyBuffer>>} /\ spare1 \in {null, <<EmptyBuffer>>}
  /\ spare2 \in {null, <<EmptyBuffer>>}
  /\ tpc # "write" => spare1 # null /\ toWrite = <<>>
  /\ tpc = "write" => toWrite # <<>>
  /\ appended \in Nat

\* The order of the messages, part by part
Ordered(f, w, b, c) ==
  /\ InOrder(f) /\ InOrder(w) /\ InOrder(b) /\ InOrder(c)
  /\ Before(f, w) /\ Before(f, b) /\ Before(f, c) /\ Before(w, b) /\ Before(w, c) /\ Before(b, c)

\* Where the messages are that were given to append
Accounted ==
  Ids(file) \cup Ids(toWrite) \cup Ids(buffers) \cup Ids(current) \cup refused \cup overrun
    = 1 .. appended

AsyncInv == BuffersOk /\ Ordered(file, toWrite, buffers, current) /\ Accounted

\* OnceInOrder is what the invariant says of the parts.
LEMMA PipelineParts ==
  ASSUME BuffersOk
  PROVE  /\ InOrder(Pipeline) <=> Ordered(file, toWrite, buffers, current)
         /\ Ids(Pipeline) = Ids(file) \cup Ids(toWrite) \cup Ids(buffers) \cup Ids(current)
<1> DEFINE p == file \o toWrite
           q == p \o buffers
<1>1. p \in Seq(LogBuffer) /\ file \in Seq(LogBuffer) /\ toWrite \in Seq(LogBuffer)
  BY DEF BuffersOk
<1>2. /\ InOrder(p) <=> InOrder(file) /\ InOrder(toWrite) /\ Before(file, toWrite)
      /\ Ids(p) = Ids(file) \cup Ids(toWrite)
  BY Zenon, <1>1, OrderConcat, IdsConcat
<1> HIDE DEF p
<1>3. q \in Seq(LogBuffer) /\ buffers \in Seq(LogBuffer) /\ current \in Seq(LogBuffer)
  BY <1>1 DEF BuffersOk
<1>4. /\ InOrder(q) <=> InOrder(p) /\ InOrder(buffers) /\ Before(p, buffers)
      /\ Ids(q) = Ids(p) \cup Ids(buffers)
  BY Zenon, <1>1, <1>3, OrderConcat, IdsConcat
<1>5. Before(p, buffers) <=> Before(file, buffers) /\ Before(toWrite, buffers)
  BY Zenon, <1>2 DEF Before
<1> HIDE DEF q
<1>6. /\ InOrder(q \o current) <=> InOrder(q) /\ InOrder(current) /\ Before(q, current)
      /\ Ids(q \o current) = Ids(q) \cup Ids(current)
  BY Zenon, <1>3, OrderConcat, IdsConcat
<1>7. Before(q, current) <=> Before(file, current) /\ Before(toWrite, current)
                             /\ Before(buffers, current)
  BY Zenon, <1>2, <1>4 DEF Before
<1>8. Pipeline = q \o current
  BY Zenon DEF Pipeline, p, q
<1>9. Ids(Pipeline) = Ids(file) \cup Ids(toWrite) \cup Ids(buffers) \cup Ids(current)
  BY Zenon, <1>2, <1>4, <1>6, <1>8
<1>10. InOrder(Pipeline) <=> Ordered(file, toWrite, buffers, current)
  BY Zenon, <1>2, <1>4, <1>5, <1>6, <1>7, <1>8 DEF Ordered
<1> QED
  BY Zenon, <1>9, <1>10

\* One buffer
LEMMA OneBuffer ==
  ASSUME NEW b \in LogBuffer
  PROVE  /\ <<b>> \in Seq(LogBuffer) /\ Len(<<b>>) = 1
         /\ \A x : x \in Ids(<<b>>) <=> \E k \in DOMAIN b.msgs : x = b.msgs[k]
         /\ InOrder(<<b>>) <=> \A k, n \in DOMAIN b.msgs : k < n => b.msgs[k] < b.msgs[n]
<1>1. <<b>> \in Seq(LogBuffer) /\ Len(<<b>>) = 1 /\ DOMAIN <<b>> = {1} /\ <<b>>[1] = b
  OBVIOUS
<1>2. \A x : x \in Ids(<<b>>) <=> \E k \in DOMAIN b.msgs : x = b.msgs[k]
  BY <1>1, IdsMember
<1>3. InOrder(<<b>>) <=> \A k, n \in DOMAIN b.msgs : k < n => b.msgs[k] < b.msgs[n]
  BY <1>1 DEF InOrder
<1> QED
  BY Zenon, <1>1, <1>2, <1>3

\* The pointer m_currentBuffer and the buffer it points to
LEMMA Pointer ==
  ASSUME NEW c \in Seq(LogBuffer), Len(c) = 1, NEW s \in Seq(LogBuffer)
  PROVE  c[1] \in LogBuffer /\ c = <<c[1]>> /\ Append(s, c[1]) = s \o c
<1>1. c[1] \in LogBuffer /\ DOMAIN c = {1}
  OBVIOUS
<1>2. Append(s, c[1]) \in Seq(LogBuffer) /\ s \o c \in Seq(LogBuffer)
  BY <1>1
<1>3. Len(Append(s, c[1])) = Len(s) + 1 /\ Len(s \o c) = Len(s) + 1 /\ Len(s) \in Nat
  <2>1. Len(s) \in Nat /\ Len(s \o c) = Len(s) + Len(c)
    BY Zenon, ConcatAt
  <2>2. Len(Append(s, c[1])) = Len(s) + 1
    BY <1>1
  <2> QED
    BY Zenon, <2>1, <2>2
<1>4. \A i \in 1 .. Len(s) + 1 : Append(s, c[1])[i] = (s \o c)[i]
  BY <1>1, <1>3
<1>5. Append(s, c[1]) = s \o c
  BY <1>2, <1>3, <1>4
<1>6. c = <<c[1]>>
  BY <1>1
<1> QED
  BY Zenon, <1>1, <1>5, <1>6

\* Nothing is in no buffers, and nothing in an empty one.
LEMMA NoMessages ==
  /\ Ids(<<>>) = {} /\ InOrder(<<>>) /\ <<>> \in Seq(LogBuffer)
  /\ EmptyBuffer \in LogBuffer /\ <<EmptyBuffer>> \in Seq(LogBuffer) /\ Len(<<EmptyBuffer>>) = 1
  /\ Ids(<<EmptyBuffer>>) = {} /\ InOrder(<<EmptyBuffer>>) /\ <<EmptyBuffer>> # null
<1>1. EmptyBuffer \in LogBuffer /\ DOMAIN EmptyBuffer.msgs = {}
  BY DEF EmptyBuffer, LogBuffer
<1>2. Ids(<<>>) = {}
  BY IdsMember
<1>3. InOrder(<<>>) /\ <<>> \in Seq(LogBuffer)
  BY DEF InOrder
<1>4. Ids(<<EmptyBuffer>>) = {} /\ InOrder(<<EmptyBuffer>>)
  BY Zenon, <1>1, OneBuffer
<1> QED
  BY Zenon, <1>1, <1>2, <1>3, <1>4, OneBuffer DEF null

\* LogBuffer::append of the newest message
LEMMA AppendToKeeps ==
  ASSUME NEW b \in LogBuffer, NEW m, m.id \in Nat, m.len \in Lens, Fits(b, m.len),
         InOrder(<<b>>), \A x \in Ids(<<b>>) : x < m.id
  PROVE  LET c == AppendTo(b, m)
         IN  c \in LogBuffer /\ InOrder(<<c>>) /\ Ids(<<c>>) = Ids(<<b>>) \cup {m.id}
<1> DEFINE c == AppendTo(b, m)
<1>1. b.msgs \in Seq(Nat) /\ b.length \in Nat /\ m.len \in Nat
  BY Zenon, LogAssumption DEF LogBuffer
<1>2. c = [msgs |-> Append(b.msgs, m.id), length |-> b.length + m.len]
  BY Zenon DEF AppendTo
<1>3. c \in LogBuffer /\ c.msgs = Append(b.msgs, m.id)
  BY <1>1, <1>2 DEF LogBuffer
<1> HIDE DEF c
<1>4. /\ Len(b.msgs) \in Nat /\ DOMAIN b.msgs = 1 .. Len(b.msgs)
      /\ DOMAIN c.msgs = 1 .. Len(b.msgs) + 1 /\ c.msgs[Len(b.msgs) + 1] = m.id
      /\ \A k \in DOMAIN b.msgs : c.msgs[k] = b.msgs[k]
  BY SMTT(20), <1>1, <1>3
<1>5. Ids(<<c>>) = Ids(<<b>>) \cup {m.id}
  <2>1. ASSUME NEW x PROVE x \in Ids(<<c>>) <=> x \in Ids(<<b>>) \cup {m.id}
    <3>1. x \in Ids(<<c>>) <=> \E k \in DOMAIN c.msgs : x = c.msgs[k]
      BY Zenon, <1>3, OneBuffer
    <3>2. x \in Ids(<<b>>) <=> \E k \in DOMAIN b.msgs : x = b.msgs[k]
      BY OneBuffer
    <3>3. ASSUME NEW k \in DOMAIN c.msgs
          PROVE  k \in DOMAIN b.msgs \/ k = Len(b.msgs) + 1
      BY <1>4
    <3>4. Len(b.msgs) + 1 \in DOMAIN c.msgs /\ DOMAIN b.msgs \subseteq DOMAIN c.msgs
      BY <1>4
    <3> QED
      BY Zenon, <1>4, <3>1, <3>2, <3>3, <3>4
  <2> QED
    BY Zenon, <2>1
<1>6. InOrder(<<c>>)
  <2> SUFFICES ASSUME NEW k \in DOMAIN c.msgs, NEW n \in DOMAIN c.msgs, k < n
               PROVE  c.msgs[k] < c.msgs[n]
    BY Zenon, <1>3, OneBuffer
  <2>1. k \in DOMAIN b.msgs /\ c.msgs[k] = b.msgs[k] /\ c.msgs[k] \in Ids(<<b>>)
    <3>1. k \in DOMAIN b.msgs
      BY <1>4
    <3> QED
      BY Zenon, <1>4, <3>1, OneBuffer
  <2>2. CASE n \in DOMAIN b.msgs
    BY Zenon, <1>4, <2>1, <2>2, OneBuffer
  <2>3. CASE n = Len(b.msgs) + 1
    BY Zenon, <1>4, <2>1, <2>3
  <2> QED
    BY <1>4, <2>2, <2>3
<1> QED
  BY Zenon, <1>3, <1>5, <1>6 DEF c

\* A prefix of a sequence of buffers
LEMMA PrefixKeeps ==
  ASSUME NEW s \in Seq(LogBuffer), NEW n \in Nat, n <= Len(s), InOrder(s)
  PROVE  LET p == SubSeq(s, 1, n)
         IN  p \in Seq(LogBuffer) /\ Len(p) = n /\ InOrder(p) /\ Ids(p) \subseteq Ids(s)
<1> DEFINE p == SubSeq(s, 1, n)
<1>1. /\ p \in Seq(LogBuffer) /\ Len(p) = n /\ DOMAIN p = 1 .. n /\ DOMAIN s = 1 .. Len(s)
      /\ \A i \in 1 .. n : p[i] = s[i]
  OBVIOUS
<1> HIDE DEF p
<1>2. \A i \in DOMAIN p : i \in DOMAIN s /\ p[i] = s[i]
  BY <1>1
<1>3. InOrder(p)
  BY Zenon, <1>2 DEF InOrder
<1>4. Ids(p) \subseteq Ids(s)
  BY <1>2, IdsMember
<1> QED
  BY Zenon, <1>1, <1>3, <1>4 DEF p

\* Initially every buffer is empty.
LEMMA InitAsync ==
  Init => AsyncInv
<1> SUFFICES ASSUME Init PROVE AsyncInv
  BY Zenon
<1>1. BuffersOk
  BY Zenon, NoMessages DEF Init, BuffersOk
<1>2. Ids(file) = {} /\ Ids(toWrite) = {} /\ Ids(buffers) = {} /\ Ids(current) = {}
  BY Zenon, NoMessages DEF Init
<1>3. Ordered(file, toWrite, buffers, current)
  BY Zenon, <1>2, NoMessages DEF Init, Ordered, Before
<1>4. refused = {} /\ overrun = {} /\ 1 .. appended = {}
  BY DEF Init
<1> QED
  BY Zenon, <1>1, <1>2, <1>3, <1>4 DEF AsyncInv, Accounted

\* A message is numbered after all that are on their way.
LEMMA Newest ==
  ASSUME AsyncInv
  PROVE  /\ appended + 1 \in Nat
         /\ \A x \in Ids(file) \cup Ids(toWrite) \cup Ids(buffers) \cup Ids(current) :
              x < appended + 1
         /\ 1 .. appended + 1 = (1 .. appended) \cup {appended + 1}
<1>1. appended \in Nat
  BY Zenon DEF AsyncInv, BuffersOk
<1>2. Ids(file) \cup Ids(toWrite) \cup Ids(buffers) \cup Ids(current) \subseteq 1 .. appended
  BY Zenon DEF AsyncInv, Accounted
<1> QED
  BY <1>1, <1>2

\* append into the current buffer
LEMMA AppendHereStep ==
  ASSUME AsyncInv, NEW len \in Lens, AppendHere([id |-> appended + 1, len |-> len]),
         appended' = appended + 1, UNCHANGED <<thread, running, atStop, missed>>
  PROVE  AsyncInv'
<1> DEFINE m == [id |-> appended + 1, len |-> len]
           b == current[1]
<1>1. /\ current' = <<AppendTo(b, m)>>
      /\ refused' = IF Fits(b, m.len) THEN refused ELSE refused \cup {m.id}
      /\ next' = next /\ buffers' = buffers /\ tpc' = tpc
  BY Zenon DEF AppendHere
<1>2. spare1' = spare1 /\ spare2' = spare2 /\ toWrite' = toWrite /\ file' = file
      /\ overrun' = overrun
  BY Zenon DEF thread
<1>3. m.id = appended + 1 /\ m.len \in Lens /\ m.id \in Nat
  BY Zenon, Newest
<1>4. b \in LogBuffer /\ current = <<b>>
  BY Zenon, Pointer DEF AsyncInv, BuffersOk
<1> HIDE DEF m, b
<1>5. /\ current' \in Seq(LogBuffer) /\ Len(current') = 1 /\ InOrder(current')
      /\ Ids(current') \cup refused' = Ids(current) \cup refused \cup {appended + 1}
      /\ Ids(current') \subseteq Ids(current) \cup {appended + 1}
  <2>1. InOrder(<<b>>) /\ \A x \in Ids(<<b>>) : x < m.id
    BY Zenon, <1>3, <1>4, Newest DEF AsyncInv, Ordered
  <2>2. CASE Fits(b, m.len)
    <3>1. AppendTo(b, m) \in LogBuffer /\ InOrder(current')
          /\ Ids(current') = Ids(current) \cup {m.id}
      BY Zenon, <1>1, <1>3, <1>4, <2>1, <2>2, AppendToKeeps
    <3> QED
      BY Zenon, <1>1, <1>3, <2>2, <3>1, OneBuffer
  <2>3. CASE ~ Fits(b, m.len)
    <3>1. current' = current
      BY Zenon, <1>1, <1>4, <2>3 DEF AppendTo
    <3> QED
      BY Zenon, <1>1, <1>3, <1>4, <2>1, <2>3, <3>1, OneBuffer
  <2> QED
    BY Zenon, <2>2, <2>3
<1>6. BuffersOk'
  BY Zenon, <1>1, <1>2, <1>5, Newest DEF AsyncInv, BuffersOk
<1>7. Ordered(file', toWrite', buffers', current')
  <2>1. Before(file, current') /\ Before(toWrite, current') /\ Before(buffers, current')
    BY Zenon, <1>5, Newest DEF AsyncInv, Ordered, Before
  <2> QED
    BY Zenon, <1>1, <1>2, <1>5, <2>1 DEF AsyncInv, Ordered
<1>8. Accounted'
  BY Zenon, <1>1, <1>2, <1>5, Newest DEF AsyncInv, Accounted
<1> QED
  BY Zenon, <1>6, <1>7, <1>8 DEF AsyncInv, Ordered

\* append into the buffer that takes the full one's place
LEMMA AppendNextStep ==
  ASSUME AsyncInv, NEW len \in Lens, AppendNext([id |-> appended + 1, len |-> len]),
         appended' = appended + 1, UNCHANGED <<thread, running, atStop, missed>>
  PROVE  AsyncInv'
<1> DEFINE m == [id |-> appended + 1, len |-> len]
<1>1. /\ buffers' = Append(buffers, current[1]) /\ next' = null /\ refused' = refused
      /\ current' = <<AppendTo(EmptyBuffer, m)>>
  BY DEF AppendNext, AsyncInv, BuffersOk
<1>2. spare1' = spare1 /\ spare2' = spare2 /\ toWrite' = toWrite /\ file' = file
      /\ overrun' = overrun
  BY Zenon DEF thread
<1>3. m.id = appended + 1 /\ m.len \in Lens /\ m.id \in Nat
  BY Zenon, Newest
<1>4. tpc' = "write" <=> tpc = "write"
  BY Zenon DEF AppendNext, NotifyOne, Wakes, Waiters
<1> HIDE DEF m
<1>5. Fits(EmptyBuffer, m.len)
  <2>1. m.len \in Nat /\ Size \in Nat /\ Size > m.len + 1
    BY Zenon, <1>3, LogAssumption
  <2>2. EmptyBuffer.length = 0
    BY Zenon DEF EmptyBuffer
  <2> QED
    BY <2>1, <2>2 DEF Fits, Avail
<1>6. /\ current' \in Seq(LogBuffer) /\ Len(current') = 1 /\ InOrder(current')
      /\ Ids(current') = {appended + 1}
  <2>1. \A x \in Ids(<<EmptyBuffer>>) : x < m.id
    BY Zenon, NoMessages
  <2>2. AppendTo(EmptyBuffer, m) \in LogBuffer /\ InOrder(current')
        /\ Ids(current') = {} \cup {m.id}
    BY Zenon, <1>1, <1>3, <1>5, <2>1, AppendToKeeps, NoMessages
  <2> QED
    BY Zenon, <1>1, <1>3, <2>2, OneBuffer
<1>7. /\ buffers' = buffers \o current /\ buffers' \in Seq(LogBuffer)
      /\ buffers \in Seq(LogBuffer) /\ current \in Seq(LogBuffer)
  <2>1. buffers \in Seq(LogBuffer) /\ current \in Seq(LogBuffer) /\ Len(current) = 1
    BY Zenon DEF AsyncInv, BuffersOk
  <2>2. buffers' = buffers \o current
    BY Zenon, <1>1, <2>1, Pointer
  <2> QED
    BY <2>1, <2>2
<1>8. Ids(buffers') = Ids(buffers) \cup Ids(current)
  BY Zenon, <1>7, IdsConcat
<1>9. InOrder(buffers')
  BY Zenon, <1>7, OrderConcat DEF AsyncInv, Ordered
<1>10. BuffersOk'
  BY Zenon, <1>1, <1>2, <1>4, <1>6, <1>7, Newest DEF AsyncInv, BuffersOk
<1>11. Ordered(file', toWrite', buffers', current')
  <2>1. Before(file, buffers') /\ Before(toWrite, buffers')
    BY Zenon, <1>8 DEF AsyncInv, Ordered, Before
  <2>2. Before(file, current') /\ Before(toWrite, current') /\ Before(buffers', current')
    BY Zenon, <1>6, <1>8, Newest DEF Before
  <2> QED
    BY Zenon, <1>2, <1>6, <1>9, <2>1, <2>2 DEF AsyncInv, Ordered
<1>12. Accounted'
  BY Zenon, <1>1, <1>2, <1>6, <1>8, Newest DEF AsyncInv, Accounted
<1> QED
  BY Zenon, <1>10, <1>11, <1>12 DEF AsyncInv, Ordered

\* The critical section of threadFunc
LEMMA SwapStep ==
  ASSUME AsyncInv, Swap
  PROVE  AsyncInv'
<1>1. /\ toWrite = <<>> /\ spare1 = <<EmptyBuffer>>
      /\ buffers \in Seq(LogBuffer) /\ current \in Seq(LogBuffer) /\ file \in Seq(LogBuffer)
      /\ Len(current) = 1 /\ appended \in Nat
      /\ next \in {null, <<EmptyBuffer>>} /\ spare2 \in {null, <<EmptyBuffer>>}
  BY Zenon DEF Swap, AsyncInv, BuffersOk
<1>2. /\ toWrite' = buffers \o current /\ buffers' = <<>> /\ current' = <<EmptyBuffer>>
      /\ spare1' = null /\ tpc' = "write" /\ file' = file /\ overrun' = overrun
      /\ appended' = appended /\ refused' = refused
      /\ next' \in {null, <<EmptyBuffer>>} /\ spare2' \in {null, <<EmptyBuffer>>}
  BY Zenon, <1>1 DEF Swap
<1>3. /\ toWrite' \in Seq(LogBuffer) /\ toWrite' # <<>>
  BY <1>1, <1>2
<1>4. Ids(toWrite') = Ids(buffers) \cup Ids(current) /\ InOrder(toWrite')
  BY Zenon, <1>1, <1>2, IdsConcat, OrderConcat DEF AsyncInv, Ordered
<1>5. /\ Ids(buffers') = {} /\ Ids(current') = {} /\ InOrder(buffers') /\ InOrder(current')
      /\ Ids(toWrite) = {}
  BY Zenon, <1>1, <1>2, NoMessages
<1>6. BuffersOk'
  BY Zenon, <1>1, <1>2, <1>3, NoMessages DEF BuffersOk
<1>7. Ordered(file', toWrite', buffers', current')
  <2>1. Before(file, toWrite')
    BY Zenon, <1>4 DEF AsyncInv, Ordered, Before
  <2>2. \A s : Before(s, buffers') /\ Before(s, current')
    BY Zenon, <1>5 DEF Before
  <2> QED
    BY Zenon, <1>2, <1>4, <1>5, <2>1, <2>2 DEF AsyncInv, Ordered
<1>8. Accounted'
  BY Zenon, <1>2, <1>4, <1>5 DEF AsyncInv, Accounted
<1> QED
  BY Zenon, <1>6, <1>7, <1>8 DEF AsyncInv, Ordered

\* The buffers go to the file, the first two of them when there are too many.
LEMMA WriteStep ==
  ASSUME AsyncInv, WriteBuffers
  PROVE  AsyncInv'
<1>1. /\ toWrite \in Seq(LogBuffer) /\ toWrite # <<>> /\ file \in Seq(LogBuffer)
      /\ InOrder(toWrite) /\ InOrder(file) /\ Before(file, toWrite)
  BY Zenon DEF WriteBuffers, AsyncInv, BuffersOk, Ordered
<1>2. /\ Undropped \in Seq(LogBuffer) /\ Len(Undropped) >= 1 /\ InOrder(Undropped)
      /\ Ids(Undropped) \subseteq Ids(toWrite)
  <2>1. CASE Len(toWrite) > Limit
    <3>1. 2 <= Len(toWrite)
      BY <1>1, <2>1, LogAssumption
    <3> QED
      BY <1>1, <2>1, <3>1, PrefixKeeps DEF Undropped
  <2>2. CASE ~ (Len(toWrite) > Limit)
    <3>1. Len(toWrite) >= 1
      BY <1>1
    <3> QED
      BY Zenon, <1>1, <2>2, <3>1 DEF Undropped
  <2> QED
    BY Zenon, <2>1, <2>2
<1>3. /\ file' = (IF Ids(Undropped) = {} THEN file ELSE file \o Undropped)
      /\ overrun' = overrun \cup (Ids(toWrite) \ Ids(Undropped))
      /\ toWrite' = <<>> /\ tpc' = "test" /\ refused' = refused /\ appended' = appended
  BY Zenon DEF WriteBuffers
<1>4. current' = current /\ next' = next /\ buffers' = buffers
  BY Zenon DEF WriteBuffers, shared
<1>5. spare1' = <<EmptyBuffer>> /\ spare2' \in {null, <<EmptyBuffer>>}
  <2>1. Len(Undropped) \in Nat
    BY <1>2
  <2> QED
    BY <1>2, <2>1 DEF WriteBuffers
<1>6. /\ file' \in Seq(LogBuffer) /\ InOrder(file') /\ Ids(file') = Ids(file) \cup Ids(Undropped)
  <2>1. CASE Ids(Undropped) = {}
    BY Zenon, <1>1, <1>3, <2>1
  <2>2. CASE Ids(Undropped) # {}
    <3>1. file' = file \o Undropped
      BY Zenon, <1>3, <2>2
    <3>2. Before(file, Undropped)
      BY Zenon, <1>1, <1>2 DEF Before
    <3>3. InOrder(file \o Undropped)
      BY Zenon, <1>1, <1>2, <3>2, OrderConcat
    <3> QED
      BY <1>1, <1>2, <3>1, <3>3, IdsConcat
  <2> QED
    BY Zenon, <2>1, <2>2
<1>7. BuffersOk'
  BY Zenon, <1>3, <1>4, <1>5, <1>6, NoMessages DEF AsyncInv, BuffersOk
<1>8. Ids(toWrite') = {} /\ InOrder(toWrite')
  BY Zenon, <1>3, NoMessages
<1>9. Ordered(file', toWrite', buffers', current')
  <2>1. Before(file', buffers') /\ Before(file', current')
    BY Zenon, <1>2, <1>4, <1>6 DEF AsyncInv, Ordered, Before
  <2>2. \A s : Before(s, toWrite') /\ Before(toWrite', s)
    BY Zenon, <1>8 DEF Before
  <2> QED
    BY Zenon, <1>4, <1>6, <1>8, <2>1, <2>2 DEF AsyncInv, Ordered
<1>10. Accounted'
  BY Zenon, <1>2, <1>3, <1>4, <1>6, <1>8 DEF AsyncInv, Accounted
<1> QED
  BY Zenon, <1>7, <1>9, <1>10 DEF AsyncInv, Ordered

\* A step that leaves the buffers and the counts alone, and is no step to or from a write
LEMMA OtherStep ==
  ASSUME AsyncInv, UNCHANGED <<shared, thread, appended, refused>>,
         tpc' = "write" <=> tpc = "write"
  PROVE  AsyncInv'
BY Zenon DEF AsyncInv, BuffersOk, Ordered, Accounted, shared, thread

\* AsyncInv is inductive.
LEMMA AsyncStep ==
  AsyncInv /\ [Next]_vars => AsyncInv'
<1> SUFFICES ASSUME AsyncInv, [Next]_vars PROVE AsyncInv'
  BY Zenon
<1>1. ASSUME NEW len \in Lens, AppendMsg(len) PROVE AsyncInv'
  <2>1. appended' = appended + 1 /\ UNCHANGED <<thread, running, atStop, missed>>
    BY Zenon, <1>1 DEF AppendMsg
  <2>2. \/ AppendHere([id |-> appended + 1, len |-> len])
        \/ AppendNext([id |-> appended + 1, len |-> len])
    BY Zenon, <1>1 DEF AppendMsg
  <2> QED
    BY Zenon, <2>1, <2>2, AppendHereStep, AppendNextStep
<1>2. CASE TestRunning \/ WaitFor \/ Timeout
  <2>1. UNCHANGED <<shared, thread, appended, refused>> /\ (tpc' = "write" <=> tpc = "write")
    BY Zenon, <1>2 DEF TestRunning, WaitFor, Timeout
  <2> QED
    BY Zenon, <2>1, OtherStep
<1>3. CASE Exit \/ SpuriousWakeup
  <2>1. UNCHANGED <<shared, thread, appended, refused>> /\ (tpc' = "write" <=> tpc = "write")
    BY Zenon, <1>3 DEF Exit, SpuriousWakeup, NotifyOne, Wakes, Waiters
  <2> QED
    BY Zenon, <2>1, OtherStep
<1>4. CASE StopSets \/ Stopping
  <2>1. UNCHANGED <<shared, thread, appended, refused>> /\ (tpc' = "write" <=> tpc = "write")
    BY Zenon, <1>4 DEF StopSets, Stopping, StopNotifies, StopWaits, StopJoins, NotifyOne, Wakes,
       Waiters
  <2> QED
    BY Zenon, <2>1, OtherStep
<1>5. CASE UNCHANGED vars
  BY Zenon, <1>5, OtherStep DEF vars
<1> QED
  BY Zenon, <1>1, <1>2, <1>3, <1>4, <1>5, SwapStep, WriteStep DEF Next, Thread

(***************************************************************************)
(* LogAsync: whatever the sizes, the limit and the number of messages, and *)
(* however append, the swap, the writing and stop interleave, messages     *)
(* reach the file once and in the order append was called, and only those  *)
(* are missing that a full buffer refused or that were dropped with too    *)
(* many buffers.                                                           *)
(***************************************************************************)
THEOREM MessagesOnceInOrder ==
  FairSpec => []OnceInOrder
<1>1. AsyncInv => OnceInOrder
  BY PipelineParts DEF AsyncInv, Accounted, OnceInOrder
<1> QED
  BY <1>1, InitAsync, AsyncStep, PTL DEF FairSpec, Spec
=============================================================================
