------------------------------- MODULE MCData -------------------------------
(* Small parts, each by itself: a buffer of plain bytes or of integers,    *)
(* whose byte has one bit so that an int16_t is an integer of two bits;    *)
(* dates around leap years, ends of months and 2100, which is not one;     *)
(* log lines of two threads and log files of two programs, of which one is *)
(* like the other; and the methods of an HTTP server.  A behaviour is      *)
(* about one of them.                                                      *)
EXTENDS BufferInt, DateTime, Logging, LogFile, HttpMethod, TLC

VARIABLE use

Ymd(y, m, d) == [year |-> y, mon |-> m - 1, mday |-> d]

MCStarts ==
  {[day |-> mktime(d), sec |-> s, usec |-> 999999] :
     d \in {Ymd(2000, 2, 29), Ymd(1999, 12, 31), Ymd(2097, 1, 31), Ymd(2104, 3, 31)},
     s \in {0, 86399}}

MCAmounts == {-13, -12, -1, 0, 1, 4, 11, 37}

Item(type, value) == [type |-> type, value |-> value, text |-> <<>>]

\* The smallest int16_t, zero, a float, a double that just fits, a pointer, a text,
\* and one with a terminator in it
MCItems ==
  {Item("int", -32768), Item("int", 0), Item("float", 1500000), Item("double", -12000001),
   Item("pointer", 4095), [type |-> "text", value |-> 0, text |-> <<"h", "i">>],
   [type |-> "text", value |-> 0, text |-> <<"h", "NUL", "i">>]}

\* f1 and f2 offer the same among other things; f3 has a path that is a method.
MCOffers ==
  [f \in {"f1", "f2", "f3"} |->
     CASE f = "f1" -> << <<"GET", "/a">>, <<"PUT", "/a">> >>
       [] f = "f2" -> << <<"GET", "/b">>, <<"GET", "/a">> >>
       [] f = "f3" -> << <<"PUT", "PUT">>, <<"PUT", "/b">> >>]

Parts == {"bytes", "integers", "dates", "lines", "files", "methods"}

\* Dates that a behaviour is not about
Epoch == [day |-> 0, sec |-> 0, usec |-> 0]

NoDates ==
  /\ moment = Epoch /\ last = [unit |-> "none", n |-> 0, from |-> Epoch]
  /\ additions = 0

MCInit ==
  /\ use \in Parts
  /\ IntInit /\ LineInit /\ FileInit /\ MethodInit
  /\ IF use = "dates" THEN DateInit ELSE NoDates

MCNext ==
  /\ \/ /\ use = "bytes" /\ Next
        /\ UNCHANGED <<wire, ints, got, want, dateVars, lineVars, fileVars, methodVars>>
     \/ use = "integers" /\ IntNext /\ UNCHANGED <<dateVars, lineVars, fileVars, methodVars>>
     \/ use = "dates" /\ DateNext /\ UNCHANGED <<intVars, lineVars, fileVars, methodVars>>
     \/ use = "lines" /\ LineNext /\ UNCHANGED <<intVars, dateVars, fileVars, methodVars>>
     \/ use = "files" /\ FileNext /\ UNCHANGED <<intVars, dateVars, lineVars, methodVars>>
     \/ use = "methods" /\ MethodNext /\ UNCHANGED <<intVars, dateVars, lineVars, fileVars>>
  /\ UNCHANGED use

MCSpec == MCInit /\ [][MCNext]_<<intVars, dateVars, lineVars, fileVars, methodVars, use>>

Permuted == Permutations(Programs) \cup Permutations(Threads)
=============================================================================
