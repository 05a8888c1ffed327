------------------------------ MODULE MCEpoll -------------------------------
(* Two channels of a loop, at two descriptors, and the string functions.   *)
(* A behaviour is about one of the two.                                    *)
EXTENDS Epoll, StringFunction

VARIABLE use

NoStrings ==
  /\ call = [fn |-> "split", text |-> <<>>, s |-> <<"a">>, r |-> <<>>]
  /\ round = [text |-> <<>>, pos1 |-> 0, pieces |-> << <<>> >>, yes |-> FALSE]
  /\ tpc = "done"

MCInit ==
  /\ use \in {"channels", "strings"}
  /\ EpollInit
  /\ IF use = "strings" THEN TextInit ELSE NoStrings

MCNext ==
  /\ \/ use = "channels" /\ EpollNext /\ UNCHANGED textVars
     \/ use = "strings" /\ TextNext /\ UNCHANGED epollVars
  /\ UNCHANGED use

mcVars == <<epollVars, textVars, use>>

\* The loop goes on, and so does a call of a string function.
MCSpec ==
  /\ MCInit /\ [][MCNext]_mcVars
  /\ WF_mcVars(use = "channels" /\ ~ fatal /\ ~ late /\ LoopStep /\ UNCHANGED <<textVars, use>>)
  /\ WF_mcVars(use = "strings" /\ TextNext /\ UNCHANGED <<epollVars, use>>)
=============================================================================
