------------------------------ MODULE LogFile -------------------------------
(***************************************************************************)
(* youth/utils/LogFile, core/Dir, core/FileInfo and core/File: programs    *)
(* that log into files of one directory.  A program rolls its file when it *)
(* is full and when a new day begins; then it also sweeps the directory of *)
(* old files, its own and those of the others.                             *)
(*                                                                         *)
(* A message is one unit of size.  File writes through a stream buffer, so *)
(* the size and the modification time on disk lag behind what was written  *)
(* until the buffer is flushed.  The time is the wall clock, in seconds;   *)
(* it may be set back.  m_mutex is held for the whole of outputLogFile and *)
(* flushLogFile, so within a program a call is one step; a sweep takes a   *)
(* step for each call of the file system, since other programs see it.     *)
(***************************************************************************)
EXTENDS Integers, Sequences, FiniteSets

CONSTANTS
  Programs,         \* the processes that share the directory
  kRollPerSeconds,  \* the length of a day
  RollSize,         \* m_rollSize
  DelDays,          \* m_delLogFileDays
  MaxClock,         \* bound: the last second
  MaxClockBack,     \* bound: the last second once the clock was set back
  MaxMessages,      \* bound: messages written
  MaxBack, Backs,   \* bound: how far and how often the clock is set back
  MaxSweep          \* bound: how long a sweep takes, less than a day

\* The last conjunct: a clock that goes back by more than the retention time in the
\* middle of a sweep makes the sweep take files just written for expired ones.
ASSUME LogFileAssumption ==
  /\ kRollPerSeconds \in Nat \ {0}
  /\ RollSize \in Nat /\ DelDays \in Nat
  /\ MaxClock \in Nat /\ MaxClockBack \in 1 .. MaxClock /\ MaxMessages \in Nat
  /\ MaxBack \in Nat /\ Backs \in Nat
  /\ MaxSweep \in 0 .. kRollPerSeconds - 1
  /\ Backs * MaxBack <= DelDays * kRollPerSeconds

VARIABLES
  clock,   \* seconds since the epoch
  log,     \* per program: the members of LogFile, and the stream buffer of its file
  disk,    \* the files in the directory: the messages in each, and its mtime
  sweep,   \* per program: the delLogFile that it is in
  said,    \* history: when each message was written
  lost,    \* history: messages that were in the buffer of a program that ended
  backs    \* how much of Backs is used

fileVars == <<clock, log, disk, sweep, said, lost, backs>>

\* getFileName, which has the process in it, and the suffix .count
Name(p, second, n) == <<p, second, n>>

NoFile == <<>>   \* m_filePtr is null

NoSweep == [pc |-> "idle", now |-> 0, list |-> {}, file |-> NoFile, writes |-> FALSE]

\* The type of every variable.
FileTypeOK ==
  /\ clock \in 1 .. MaxClock
  /\ \A p \in Programs :
       /\ log[p].count \in 0 .. MaxMessages
       /\ log[p].startTime \in 0 .. MaxClock /\ log[p].lastRoll \in 0 .. MaxClock
       /\ log[p].buffered \subseteq DOMAIN said
       /\ sweep[p].pc \in {"idle", "next", "file", "old", "dead"}
  /\ \A f \in DOMAIN disk :
       /\ disk[f].holds \subseteq DOMAIN said
       /\ disk[f].mtime \in 1 .. MaxClock
  /\ said \in Seq(1 .. MaxClock) /\ lost \subseteq DOMAIN said
  /\ backs \in 0 .. Backs

FileInit ==
  /\ clock = kRollPerSeconds
  /\ log = [p \in Programs |->
       [count |-> 0, startTime |-> 0, lastRoll |-> 0, file |-> NoFile, buffered |-> {}]]
  /\ disk = <<>>
  /\ sweep = [p \in Programs |-> NoSweep]
  /\ said = <<>> /\ lost = {} /\ backs = 0

StartOfDay(t) == (t \div kRollPerSeconds) * kRollPerSeconds

\* File::flush and File::close: what the stream holds reaches the disk, where it
\* is lost if the file was removed.
FlushFile(l, d, now) ==
  IF l.file \notin DOMAIN d \/ l.buffered = {} THEN d
  ELSE [d EXCEPT ![l.file].holds = @ \cup l.buffered, ![l.file].mtime = now]

\* File::size, which is 0 for a path that does not exist
FileSize(l, d) == IF l.file \in DOMAIN d THEN Cardinality(d[l.file].holds) ELSE 0

\* The new File: an existing file of that name is appended to.
OpenAppend(d, f, now) ==
  [g \in DOMAIN d \cup {f} |-> IF g \in DOMAIN d THEN d[g] ELSE [holds |-> {}, mtime |-> now]]

\* seconds > m_lastRoll
MayRoll(l, now) == now > l.lastRoll

\* rollFile after delLogFile: the old File is closed when the new one takes its
\* place; the members and the disk afterwards
Rolled(p, l, d, now, n) ==
  IF MayRoll(l, now)
  THEN [log  |-> [count |-> l.count, startTime |-> StartOfDay(now), lastRoll |-> now,
                  file |-> Name(p, now, n), buffered |-> {}],
        disk |-> OpenAppend(FlushFile(l, d, clock), Name(p, now, n), clock)]
  ELSE [log |-> l, disk |-> d]

\* File::write at the end of outputLogFile; the stream may flush itself.
Write(p, l, d, at) ==
  \E spill \in BOOLEAN :
    LET written == [l EXCEPT !.buffered = @ \cup {Len(said) + 1}]
    IN  /\ said' = Append(said, at)
        /\ log' = [log EXCEPT ![p] = IF spill THEN [written EXCEPT !.buffered = {}] ELSE written]
        /\ disk' = IF spill THEN FlushFile(written, d, at) ELSE d

\* Dir::entryInfoList: what is in the directory now
EntryInfoList == DOMAIN disk

\* rollFile(0) up to the list of delLogFile
BeginSweep(p, now, writes) ==
  sweep' = [sweep EXCEPT ![p] = [pc |-> "next", now |-> now, list |-> EntryInfoList,
                                 file |-> NoFile, writes |-> writes]]

\* setDirectoryAndBaseName, whose mkdirs finds the directory or makes it
SetDirectoryAndBaseName(p) ==
  /\ log[p].file = NoFile /\ sweep[p] = NoSweep
  /\ BeginSweep(p, clock, FALSE)
  /\ UNCHANGED <<clock, log, disk, said, lost, backs>>

\* What the clock may show next: it moves on by a second, but for sweeps that
\* are to end first.
Later(t) ==
  /\ t <= (IF backs = 0 THEN MaxClock ELSE MaxClockBack)
  /\ \A p \in Programs : sweep[p].pc \in {"next", "file", "old"} => t <= sweep[p].now + MaxSweep

Full(p) == FileSize(log[p], disk) > RollSize
NewDay(p) == StartOfDay(clock) # log[p].startTime

CanOutput(p) ==
  log[p].file # NoFile /\ sweep[p] = NoSweep /\ Len(said) < MaxMessages

\* outputLogFile into a file that is full, or that is not and is of this day;
\* the clock may move on after it is read.
OutputLogFile(p) ==
  /\ CanOutput(p) /\ (Full(p) \/ ~ NewDay(p))
  /\ \E later \in {clock, clock + 1} :
       /\ later = clock \/ Later(later)
       /\ clock' = later
       /\ LET n == log[p].count + 1
              r == IF Full(p)
                   THEN Rolled(p, [log[p] EXCEPT !.count = n], disk, clock, n)
                   ELSE [log |-> log[p], disk |-> disk]
          IN  Write(p, r.log, r.disk, later)
  /\ UNCHANGED <<sweep, lost, backs>>

\* outputLogFile on a new day begins rollFile(0), which reads the clock again.
OutputOnNewDay(p) ==
  /\ CanOutput(p) /\ ~ Full(p) /\ NewDay(p)
  /\ \E later \in {clock, clock + 1} :
       /\ later = clock \/ Later(later)
       /\ clock' = later
       /\ BeginSweep(p, later, TRUE)
  /\ log' = [log EXCEPT ![p].count = 0]
  /\ UNCHANGED <<disk, said, lost, backs>>

-----------------------------------------------------------------------------
(* delLogFile: for each file of the list isFile, lastModified, removeFile   *)

\* file.isFile(), false for a file that is gone
IsFile(p) ==
  /\ sweep[p].pc = "next"
  /\ \E f \in sweep[p].list :
       sweep' = [sweep EXCEPT ![p].list = @ \ {f},
                              ![p].file = IF f \in DOMAIN disk THEN f ELSE NoFile,
                              ![p].pc = IF f \in DOMAIN disk THEN "file" ELSE "next"]
  /\ UNCHANGED <<clock, log, disk, said, lost, backs>>

\* Mutant: the age is not compared.
Expired_Always(mtime, now) == TRUE

\* Mutant: no file is ever old.
Expired_Never(mtime, now) == FALSE

\* file.lastModified() < expired
Expired(mtime, now) == mtime < now - DelDays * kRollPerSeconds

\* file.lastModified() throws for a file that another program has removed since
\* isFile, and nothing on the way out of ~Logging catches.
LastModified(p) ==
  /\ sweep[p].pc = "file"
  /\ LET f == sweep[p].file
     IN  IF f \in DOMAIN disk
         THEN /\ sweep' = [sweep EXCEPT ![p].pc =
                             IF Expired(disk[f].mtime, sweep[p].now) THEN "old" ELSE "next",
                                        ![p].file =
                             IF Expired(disk[f].mtime, sweep[p].now) THEN f ELSE NoFile]
              /\ UNCHANGED <<log, lost>>
         ELSE /\ sweep' = [sweep EXCEPT ![p] = [NoSweep EXCEPT !.pc = "dead"]]
              /\ lost' = lost \cup log[p].buffered
              /\ log' = [log EXCEPT ![p].buffered = {}]
  /\ UNCHANGED <<clock, disk, said, backs>>

\* dir.removeFile(file.fileName()), which is content with a file that is gone
RemoveFile(p) ==
  /\ sweep[p].pc = "old"
  /\ disk' = [f \in DOMAIN disk \ {sweep[p].file} |-> disk[f]]
  /\ sweep' = [sweep EXCEPT ![p].pc = "next", ![p].file = NoFile]
  /\ UNCHANGED <<clock, log, said, lost, backs>>

\* The rest of rollFile(0), and of the outputLogFile that it is part of
EndSweep(p) ==
  /\ sweep[p].pc = "next" /\ sweep[p].list = {}
  /\ LET r == Rolled(p, log[p], disk, sweep[p].now, 0)
     IN  IF sweep[p].writes
         THEN Write(p, r.log, r.disk, clock)
         ELSE log' = [log EXCEPT ![p] = r.log] /\ disk' = r.disk /\ UNCHANGED said
  /\ sweep' = [sweep EXCEPT ![p] = NoSweep]
  /\ UNCHANGED <<clock, lost, backs>>

-----------------------------------------------------------------------------

\* flushLogFile
FlushLogFile(p) ==
  /\ log[p].file # NoFile /\ sweep[p] = NoSweep /\ log[p].buffered # {}
  /\ disk' = FlushFile(log[p], disk, clock)
  /\ log' = [log EXCEPT ![p].buffered = {}]
  /\ UNCHANGED <<clock, sweep, said, lost, backs>>

Tick ==
  /\ Later(clock + 1)
  /\ clock' = clock + 1
  /\ UNCHANGED <<log, disk, sweep, said, lost, backs>>

SetBack ==
  /\ backs < Backs
  /\ backs' = backs + 1
  /\ \E t \in 1 .. MaxBack : clock - t \in 1 .. MaxClockBack /\ clock' = clock - t
  /\ UNCHANGED <<log, disk, sweep, said, lost>>

FileNext ==
  \/ \E p \in Programs :
       \/ SetDirectoryAndBaseName(p)
       \/ OutputLogFile(p)
       \/ OutputOnNewDay(p)
       \/ IsFile(p)
       \/ LastModified(p)
       \/ RemoveFile(p)
       \/ EndSweep(p)
       \/ FlushLogFile(p)
  \/ Tick
  \/ SetBack

FileSpec == FileInit /\ [][FileNext]_fileVars

-----------------------------------------------------------------------------
(* Properties                                                              *)

\* Where a reader of the directory will find a message
Kept(i) ==
  \/ \E f \in DOMAIN disk : i \in disk[f].holds
  \/ \E p \in Programs : i \in log[p].buffered /\ log[p].file \in DOMAIN disk

\* What is young enough
YoungMessagesKept ==
  \A i \in DOMAIN said \ lost :
    clock - said[i] + backs * MaxBack <= (DelDays - 1) * kRollPerSeconds => Kept(i)

\* What is too old for the day of a program's file
OldFilesGone ==
  backs = 0 =>
    \A p \in Programs : (sweep[p] = NoSweep /\ log[p].count = 0) =>
      \A f \in DOMAIN disk : disk[f].mtime >= log[p].startTime - DelDays * kRollPerSeconds

(***************************************************************************)
(* delLogFile and rollFile: with programs that sweep the directory while   *)
(* others write, flush and sweep, no message is lost before its time.  A   *)
(* file is aged by its mtime, which is that of its last flush, and the     *)
(* messages still in its buffer are up to a day younger; so what is sure   *)
(* to be kept is a day less than m_delLogFileDays, and less by as much as  *)
(* the clock was set back.  A program that dies takes its buffer with it.  *)
(* And as long as the clock goes forward, a file last modified more than   *)
(* m_delLogFileDays before the day of a program's file is gone, whichever  *)
(* program wrote it.  Not so when a full file is rolled: rollFile(++count) *)
(* deletes nothing, even if it begins a new day.                           *)
(***************************************************************************)
Retention == YoungMessagesKept /\ OldFilesGone
=============================================================================
